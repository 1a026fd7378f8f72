---------------------------- MODULE PageStoreProofs ----------------------------
(***************************************************************************)
(* Theorems about PageStore for every set of paths and requests.           *)
(***************************************************************************)
EXTENDS PageStore, TLAPS

\* A request is of one kind only.
LEMMA Kinds ==
    /\ \A r \in Writers : r \in Request /\ r \notin Embedders \cup Loggers \cup Emitters \cup Deregs
    /\ \A r \in Embedders : r \in Request /\ r \notin Writers \cup Loggers \cup Emitters \cup Deregs
    /\ \A r \in Loggers : r \in Request /\ r \notin Writers \cup Embedders \cup Emitters \cup Deregs
    /\ \A r \in Emitters : r \in Request /\ r \notin Writers \cup Embedders \cup Loggers \cup Deregs
    /\ \A r \in Deregs : r \in Request /\ r \notin Writers \cup Embedders \cup Loggers \cup Emitters
    /\ Nil \notin Request
BY RequestAssumption DEF Request

-----------------------------------------------------------------------------
(***************************************************************************)
(* Where each kind of request can be, and what it has established there.   *)
(***************************************************************************)
FlowAt(q) ==
    /\ pc[q] = "refuse" => q \in Writers
    /\ pc[q] = "look" => q \in Embedders
    /\ pc[q] = "upsert" => q \in Writers \cup Embedders
    /\ pc[q] = "draw" => q \notin Deregs
    /\ (q \in Writers \cup Embedders /\ pc[q] \notin {"idle", "done"}) => txn[q].path \in Path
    /\ (q \in Writers \cup Embedders /\ pc[q] = "commit") => holder[txn[q].path] = q
    /\ (q \in Writers /\ pc[q] \in {"draw", "upsert", "commit"}) => Matches(txn[q].base, txn[q].seen)
    /\ pc[q] = "refuse" => ~Matches(txn[q].base, txn[q].seen)
    /\ pc[q] # "done" => reply[q] = Pending

DropAt(d) == pc[d] = "commit" => \A p \in doomed[d] : holder[p] = d

Flow ==
    /\ \A q \in Request : FlowAt(q)
    /\ \A d \in Deregs : DropAt(d)

\* Updating one local value of a transaction yields local values again.
LEMMA TxnUpdate ==
    ASSUME NEW t \in Txn, NEW n \in Nat, NEW e \in BOOLEAN
    PROVE  /\ [t EXCEPT !.gv = n] \in Txn
           /\ [t EXCEPT !.seen = n] \in Txn
           /\ [t EXCEPT !.enqueues = e] \in Txn
BY DEF Txn

\* A request that ends leaves well-typed locks, labels and replies.
LEMMA EndType ==
    ASSUME TypeOK, NEW r \in Request, NEW a \in Reply, End(r, a)
    PROVE  /\ pc' \in [Request -> {"idle", "refuse", "draw", "look", "upsert", "delete", "commit", "done"}]
           /\ reply' \in [Request -> Reply]
           /\ holder' \in [Path -> Request \cup {Nil}]
BY DEF TypeOK, End, Released

\* A step of the DELETE of a deregistration: it moves on to another row, and
\* may take the lock of the one it was at.
LEMMA DropStep ==
    ASSUME TypeOK, NEW d \in Deregs, NEW q \in Path \cup {Nil},
           DropSnapshot(d, q) \/ DropRow(d, q)
    PROVE  /\ UNCHANGED <<pages, seq, registered, events, jobs, audit>>
           /\ txn' \in [Request -> Txn]
           /\ \A r \in Request : txn'[r].gv = txn[r].gv
           /\ \A r \in Request \ {d} :
                 txn'[r] = txn[r] /\ pc'[r] = pc[r] /\ reply'[r] = reply[r]
           /\ pc[d] \in {"idle", "delete"} /\ pc'[d] \in {"delete", "commit", "done"}
           /\ \E l \in {"delete", "commit", "done"} : pc' = [pc EXCEPT ![d] = l]
           /\ pc' \in [Request -> {"idle", "refuse", "draw", "look", "upsert", "delete", "commit", "done"}]
<1> USE Kinds
<1>1. ASSUME NEW left, Scan(d, left, q)
      PROVE /\ txn' \in [Request -> Txn]
            /\ \A r \in Request : txn'[r].gv = txn[r].gv
            /\ \A r \in Request \ {d} : txn'[r] = txn[r] /\ pc'[r] = pc[r]
            /\ pc'[d] \in {"delete", "commit"}
            /\ \E l \in {"delete", "commit", "done"} : pc' = [pc EXCEPT ![d] = l]
            /\ pc' \in [Request -> {"idle", "refuse", "draw", "look", "upsert", "delete", "commit", "done"}]
    <2>1. txn[d] \in Txn
        BY DEF TypeOK
    <2>2. [txn[d] EXCEPT !.path = q] \in Txn /\ [txn[d] EXCEPT !.path = q].gv = txn[d].gv
        BY <2>1 DEF Txn
    <2>3. txn' = [txn EXCEPT ![d] = [txn[d] EXCEPT !.path = q]]
        BY <1>1 DEF Scan
    <2>4. PICK l \in {"delete", "commit"} : pc' = [pc EXCEPT ![d] = l]
        BY <1>1 DEF Scan, Goto
    <2>5. /\ pc'[d] \in {"delete", "commit"} /\ \A r \in Request \ {d} : pc'[r] = pc[r]
          /\ pc' \in [Request -> {"idle", "refuse", "draw", "look", "upsert", "delete", "commit", "done"}]
        BY <2>4 DEF TypeOK
    <2>6. /\ txn' \in [Request -> Txn] /\ \A r \in Request : txn'[r].gv = txn[r].gv
          /\ \A r \in Request \ {d} : txn'[r] = txn[r]
        BY <2>2, <2>3 DEF TypeOK
    <2>7. QED
        BY <2>4, <2>5, <2>6
<1>2. CASE DropSnapshot(d, q)
    <2>1. CASE registered
        BY <1>1, <1>2, <2>1 DEF DropSnapshot
    <2>2. CASE ~registered
        BY <1>2, <2>2 DEF DropSnapshot, End, TypeOK
    <2>3. QED
        BY <2>1, <2>2
<1>3. CASE DropRow(d, q)
    BY <1>1, <1>3 DEF DropRow
<1>4. QED
    BY <1>2, <1>3

\* The statements after the first work on the row of the first.
LEMMA SamePath ==
    ASSUME TypeOK, NEW r \in Request, DrawVersion(r) \/ EmbedLookup(r) \/ Upsert(r)
    PROVE  \A q \in Request : txn'[q].path = txn[q].path
<1>1. CASE DrawVersion(r)
    BY <1>1 DEF DrawVersion, TypeOK, Txn
<1>2. CASE EmbedLookup(r)
    BY <1>2 DEF EmbedLookup, TypeOK, Txn
<1>3. CASE Upsert(r)
    BY <1>3 DEF Upsert, TypeOK, Txn
<1>4. QED
    BY <1>1, <1>2, <1>3

\* The seeded pages.
LEMMA InitType == Init => TypeOK
BY PathAssumption, Kinds DEF Init, TypeOK, Row, NoRow, Txn, NoTxn, Base, Reply, Pending

(***************************************************************************)
(* One step of any request keeps the types.                                *)
(***************************************************************************)
LEMMA NextType == TypeOK /\ Flow /\ [Next]_vars => TypeOK'
<1> SUFFICES ASSUME TypeOK, Flow, [Next]_vars PROVE TypeOK'
    OBVIOUS
<1> USE Kinds, PathAssumption, BaseAssumption
<1>1. ASSUME NEW r \in Writers, NEW p \in Path, NEW b \in Base, WriteSelect(r, p, b)
      PROVE TypeOK'
    BY <1>1 DEF WriteSelect, TypeOK, Row, Txn, NoTxn, Goto
<1>2. ASSUME NEW r \in Embedders \cup Emitters, NEW p \in Path \cup {Nil}, ExtBegin(r, p)
      PROVE TypeOK'
    BY <1>2 DEF ExtBegin, TypeOK, Txn, NoTxn, Goto, Base
<1>3. ASSUME NEW r \in Embedders \cup Emitters, ExtUnknown(r) PROVE TypeOK'
    BY <1>3 DEF ExtUnknown, TypeOK, End, Released, Answer, Reply
<1>4. ASSUME NEW d \in Deregs, NEW q \in Path \cup {Nil}, DropSnapshot(d, q) PROVE TypeOK'
    <2>1. doomed' \in [Deregs -> SUBSET ExtPath]
        BY <1>4 DEF DropSnapshot, TypeOK
    <2>2. CASE registered
        BY <1>4, <2>1, <2>2, DropStep DEF DropSnapshot, TypeOK
    <2>3. CASE ~registered
        <3>1. Answer("ok", 0, Nil) \in Reply
            BY DEF Answer, Reply
        <3>2. QED
            BY <1>4, <2>1, <2>3, <3>1, EndType DEF DropSnapshot, TypeOK
    <2>4. QED
        BY <2>2, <2>3
<1>5. ASSUME NEW r \in Request, Refuse(r) PROVE TypeOK'
    BY <1>5 DEF Refuse, TypeOK, Flow, FlowAt, End, Released, Answer, Reply, Txn, AuditRow
<1>6. ASSUME NEW r \in Request, DrawVersion(r) PROVE TypeOK'
    <2>1. [txn[r] EXCEPT !.gv = seq + 1] \in Txn
        <3>1. txn[r] \in Txn /\ seq + 1 \in Nat
            BY DEF TypeOK
        <3>2. QED
            BY <3>1, TxnUpdate
    <2>2. txn' \in [Request -> Txn]
        BY <1>6, <2>1 DEF DrawVersion, TypeOK
    <2>3. pc' \in [Request -> {"idle", "refuse", "draw", "look", "upsert", "delete", "commit", "done"}]
        BY <1>6 DEF DrawVersion, TypeOK, Goto
    <2>4. seq' \in Nat
        BY <1>6 DEF DrawVersion, TypeOK
    <2>5. QED
        BY <1>6, <2>2, <2>3, <2>4 DEF DrawVersion, TypeOK
<1>7. ASSUME NEW r \in Request, EmbedLookup(r) PROVE TypeOK'
    <2>1. txn[r].path \in Path /\ pages[txn[r].path].version \in Nat
        BY <1>7 DEF EmbedLookup, TypeOK, Flow, FlowAt, Row
    <2>2. [txn[r] EXCEPT !.seen = pages[txn[r].path].version] \in Txn
        BY <2>1, TxnUpdate DEF TypeOK
    <2>3. txn' \in [Request -> Txn]
        BY <1>7, <2>2 DEF EmbedLookup, TypeOK
    <2>4. QED
        BY <1>7, <2>3 DEF EmbedLookup, TypeOK, Goto
<1>8. ASSUME NEW r \in Request, Upsert(r) PROVE TypeOK'
    <2>1. \A e \in BOOLEAN : [txn[r] EXCEPT !.enqueues = e] \in Txn
        BY TxnUpdate DEF TypeOK
    <2>2. txn' \in [Request -> Txn]
        BY <1>8, <2>1 DEF Upsert, TypeOK
    <2>3. QED
        BY <1>8, <2>2 DEF Upsert, TypeOK, Goto
<1>9. ASSUME NEW r \in Request, r \in Writers \cup Embedders, pc[r] = "commit", PutRow(r)
      PROVE /\ pages' \in [Path -> Row]
            /\ jobs' \subseteq Job
    <2>1. txn[r].path \in Path /\ txn[r].gv \in Nat /\ NewVersion(r) \in Nat
        BY <1>9 DEF TypeOK, Flow, FlowAt, Txn, NewVersion
    <2>2. QED
        BY <1>9, <2>1 DEF PutRow, TypeOK, Row, Job
<1>10. ASSUME NEW r \in Request, CommitWrite(r) PROVE TypeOK'
    <2>1. PageChanged(txn[r].path, txn[r].gv, NewVersion(r)) \in Event
        BY <1>10 DEF CommitWrite, PageChanged, Event, EventTypes, TypeOK, Txn, NewVersion
    <2>2. events' \in Seq(Event)
        BY <1>10, <2>1 DEF CommitWrite, TypeOK
    <2>3. pages' \in [Path -> Row] /\ jobs' \subseteq Job
        BY <1>9, <1>10 DEF CommitWrite
    <2>4. audit' \subseteq AuditRow
        BY <1>10 DEF CommitWrite, TypeOK, Txn, AuditRow, NewVersion
    <2>5. QED
        BY <1>10, <2>2, <2>3, <2>4
        DEF CommitWrite, TypeOK, End, Released, Answer, Reply, Txn, NewVersion
<1>11. ASSUME NEW r \in Request, CommitLog(r) PROVE TypeOK'
    BY <1>11 DEF CommitLog, TypeOK, End, Released, Answer, Reply, Txn, AuditRow, Event, EventTypes
<1>12. ASSUME NEW r \in Request, CommitEmbed(r) PROVE TypeOK'
    BY <1>9, <1>12 DEF CommitEmbed, TypeOK, End, Released, Answer, Reply
<1>13. ASSUME NEW r \in Request, CommitEmit(r) PROVE TypeOK'
    BY <1>13 DEF CommitEmit, TypeOK, End, Released, Answer, Reply, Txn, Event, EventTypes
<1>14. ASSUME NEW d \in Deregs, NEW q \in Path \cup {Nil}, DropRow(d, q) PROVE TypeOK'
    <2>1. holder' \in [Path -> Request \cup {Nil}]
        BY <1>14 DEF DropRow, TypeOK
    <2>2. QED
        BY <1>14, <2>1, DropStep DEF DropRow, TypeOK
<1>15. ASSUME NEW d \in Deregs, CommitDrop(d) PROVE TypeOK'
    BY <1>15 DEF CommitDrop, TypeOK, End, Released, Answer, Reply, Row, NoRow
<1>16. ASSUME NEW r \in Request, Abort(r) PROVE TypeOK'
    BY <1>16 DEF Abort, TypeOK, End, Released, Answer, Reply
<1>17. CASE UNCHANGED vars
    BY <1>17 DEF TypeOK, vars
<1>18. QED
    BY <1>1, <1>2, <1>3, <1>4, <1>5, <1>6, <1>7, <1>8, <1>10, <1>11, <1>12, <1>13,
       <1>14, <1>15, <1>16, <1>17
    DEF Next, Advance, AdvanceDrop, Finished

\* No request has begun.
LEMMA InitFlow == Init => Flow
BY Kinds DEF Init, Flow, FlowAt, DropAt

\* Every step keeps Flow.
LEMMA NextFlow == TypeOK /\ Flow /\ [Next]_vars => Flow'
<1> SUFFICES ASSUME TypeOK, Flow, [Next]_vars PROVE Flow'
    OBVIOUS
<1> USE Kinds, PathAssumption
<1>1. ASSUME NEW r \in Writers, NEW p \in Path, NEW b \in Base, WriteSelect(r, p, b)
      PROVE Flow'
    BY <1>1 DEF WriteSelect, TypeOK, Flow, FlowAt, DropAt, Txn, NoTxn, Goto, Matches
<1>2. ASSUME NEW r \in Embedders \cup Emitters, NEW p \in Path \cup {Nil}, ExtBegin(r, p)
      PROVE Flow'
    BY <1>2 DEF ExtBegin, TypeOK, Flow, FlowAt, DropAt, Txn, NoTxn, Goto, Matches
<1>3. ASSUME NEW r \in Request, NEW a, End(r, a), UNCHANGED <<txn, doomed>> PROVE Flow'
    BY <1>3 DEF TypeOK, Flow, FlowAt, DropAt, End, Released, Matches
<1>4. ASSUME NEW d \in Deregs, NEW q \in Path \cup {Nil}, DropSnapshot(d, q) PROVE Flow'
    <2>1. CASE registered
        <3>0. \A r \in Request \ {d} : txn'[r] = txn[r] /\ pc'[r] = pc[r] /\ reply'[r] = reply[r]
            BY <1>4, DropStep
        <3>1. \A r \in Request \ {d} : FlowAt(r)'
            BY <1>4, <2>1, <3>0 DEF DropSnapshot, Flow, FlowAt, Matches
        <3>2. FlowAt(d)'
            BY <1>4, <2>1, DropStep DEF DropSnapshot, Scan, TypeOK, Flow, FlowAt, Goto
        <3>3. ASSUME NEW e \in Deregs \ {d} PROVE DropAt(e)'
            <4>1. doomed'[e] = doomed[e] /\ holder' = holder /\ pc'[e] = pc[e]
                BY <1>4, <2>1, <3>0 DEF DropSnapshot, TypeOK
            <4>2. QED
                BY <4>1 DEF Flow, DropAt
        <3>4. DropAt(d)'
            BY <1>4, <2>1 DEF DropSnapshot, Scan, TypeOK, DropAt, Goto
        <3>5. QED
            BY <3>1, <3>2, <3>3, <3>4 DEF Flow
    <2>2. CASE ~registered
        BY <1>4, <2>2 DEF DropSnapshot, TypeOK, Flow, FlowAt, DropAt, End, Released, Matches
    <2>3. QED
        BY <2>1, <2>2
<1>5. ASSUME NEW r \in Request, DrawVersion(r) PROVE Flow'
    BY <1>5 DEF DrawVersion, TypeOK, Flow, FlowAt, DropAt, Txn, Goto, Matches
<1>6. ASSUME NEW r \in Request, EmbedLookup(r) PROVE Flow'
    BY <1>6 DEF EmbedLookup, TypeOK, Flow, FlowAt, DropAt, Txn, Goto, Matches
<1>7. ASSUME NEW r \in Request, Upsert(r) PROVE Flow'
    BY <1>7 DEF Upsert, TypeOK, Flow, FlowAt, DropAt, Txn, Goto, Matches
<1>8. ASSUME NEW d \in Deregs, NEW q \in Path \cup {Nil}, DropRow(d, q) PROVE Flow'
    <2>1. \A p \in Path : holder[p] # Nil => holder'[p] = holder[p]
        BY <1>8 DEF DropRow, TypeOK
    <2>2. \A r \in Request \ {d} : FlowAt(r)'
        BY <1>8, <2>1, DropStep DEF Flow, FlowAt, Matches
    <2>3. FlowAt(d)'
        BY <1>8, DropStep DEF DropRow, Scan, TypeOK, Flow, FlowAt, Goto
    <2>4. ASSUME NEW e \in Deregs \ {d} PROVE DropAt(e)'
        <3>1. doomed'[e] = doomed[e] /\ pc'[e] = pc[e] /\ doomed[e] \subseteq Path
            BY <1>8, DropStep DEF DropRow, TypeOK
        <3>2. QED
            BY <2>1, <3>1 DEF Flow, DropAt
    <2>5. DropAt(d)'
        BY <1>8 DEF DropRow, Scan, Left, TypeOK, DropAt, Goto
    <2>6. QED
        BY <2>2, <2>3, <2>4, <2>5 DEF Flow
<1>11. ASSUME NEW d \in Deregs, CommitDrop(d) PROVE Flow'
    <2>1. \A e \in Deregs : doomed'[e] \subseteq doomed[e]
        BY <1>11 DEF CommitDrop, TypeOK
    <2>2. QED
        BY <1>11, <2>1 DEF CommitDrop, TypeOK, Flow, FlowAt, DropAt, End, Released, Matches
<1>9. CASE UNCHANGED vars
    BY <1>9 DEF Flow, FlowAt, DropAt, vars, Matches
<1>10. QED
    BY <1>1, <1>2, <1>3, <1>4, <1>5, <1>6, <1>7, <1>8, <1>9, <1>11
    DEF Next, Advance, AdvanceDrop, Finished, ExtUnknown, Refuse, CommitWrite, CommitLog,
        CommitEmbed, CommitEmit, Abort

(***************************************************************************)
(* Type correctness: the state is always of the kind TypeOK describes, for *)
(* every set of paths and requests (db.py, the writing methods of Database).*)
(***************************************************************************)
THEOREM TypeCorrect == Spec => [](TypeOK /\ Flow)
<1>1. Init => TypeOK /\ Flow
    BY InitType, InitFlow
<1>2. TypeOK /\ Flow /\ [Next]_vars => (TypeOK /\ Flow)'
    BY NextType, NextFlow
<1>3. QED
    BY <1>1, <1>2, PTL DEF Spec

-----------------------------------------------------------------------------
\* No writer has read anything.
LEMMA InitPinned == Init => PinnedRow
BY Kinds DEF Init, PinnedRow, NoTxn

(***************************************************************************)
(* A row changes only in the commit of a request that holds its lock, and  *)
(* a lock passes to a request only when nobody has it.                     *)
(***************************************************************************)
LEMMA NextPinned == TypeOK /\ Flow /\ PinnedRow /\ [Next]_vars => PinnedRow'
<1> SUFFICES ASSUME TypeOK, Flow, PinnedRow, [Next]_vars PROVE PinnedRow'
    OBVIOUS
<1> USE Kinds, PathAssumption
<1>1. ASSUME NEW r \in Writers, NEW p \in Path, NEW b \in Base, WriteSelect(r, p, b)
      PROVE PinnedRow'
    BY <1>1 DEF WriteSelect, TypeOK, PinnedRow, Flow, FlowAt, Txn, NoTxn, Goto, Exists, Row
<1>2. ASSUME NEW r \in Embedders \cup Emitters, NEW p \in Path \cup {Nil}, ExtBegin(r, p)
      PROVE PinnedRow'
    BY <1>2 DEF ExtBegin, TypeOK, PinnedRow, Txn, NoTxn, Goto
<1>3. ASSUME NEW r \in Request, NEW a, End(r, a), UNCHANGED <<txn, pages>> PROVE PinnedRow'
    BY <1>3 DEF TypeOK, PinnedRow, Flow, FlowAt, End, Released
<1>4. ASSUME NEW d \in Deregs, NEW q \in Path \cup {Nil}, DropSnapshot(d, q) PROVE PinnedRow'
    <2>1. CASE registered
        <3>1. UNCHANGED <<pages, holder>> /\ \A r \in Writers : txn'[r] = txn[r] /\ pc'[r] = pc[r]
            BY <1>4, <2>1, DropStep DEF DropSnapshot
        <3>2. QED
            BY <3>1 DEF PinnedRow
    <2>2. CASE ~registered
        BY <1>4, <2>2, <1>3 DEF DropSnapshot
    <2>3. QED
        BY <2>1, <2>2
<1>5. ASSUME NEW r \in Request, DrawVersion(r) PROVE PinnedRow'
    BY <1>5 DEF DrawVersion, TypeOK, PinnedRow, Txn, Goto
<1>6. ASSUME NEW r \in Request, EmbedLookup(r) PROVE PinnedRow'
    BY <1>6 DEF EmbedLookup, TypeOK, PinnedRow, Flow, FlowAt, Txn, Goto
<1>7. ASSUME NEW r \in Request, Upsert(r) PROVE PinnedRow'
    BY <1>7 DEF Upsert, TypeOK, PinnedRow, Flow, FlowAt, Txn, Goto
<1>8. ASSUME NEW d \in Deregs, NEW q \in Path \cup {Nil}, DropRow(d, q) PROVE PinnedRow'
    <2>1. \A p \in Path : holder[p] # Nil => holder'[p] = holder[p]
        BY <1>8 DEF DropRow, TypeOK
    <2>2. \A r \in Writers : pc[r] \notin {"idle", "done"} => txn[r].path \in Path
        BY DEF Flow, FlowAt
    <2>3. QED
        BY <1>8, <2>1, <2>2, DropStep DEF PinnedRow
<1>9. ASSUME NEW r \in Writers \cup Embedders, pc[r] = "commit", PutRow(r),
             NEW a, End(r, a), UNCHANGED txn
      PROVE PinnedRow'
    BY <1>9 DEF TypeOK, PinnedRow, Flow, FlowAt, PutRow, End, Released
<1>10. ASSUME NEW d \in Deregs, CommitDrop(d) PROVE PinnedRow'
    BY <1>10 DEF CommitDrop, TypeOK, PinnedRow, Flow, FlowAt, DropAt, End, Released
<1>11. CASE UNCHANGED vars
    BY <1>11 DEF PinnedRow, vars
<1>12. QED
    BY <1>1, <1>2, <1>3, <1>4, <1>5, <1>6, <1>7, <1>8, <1>9, <1>10, <1>11
    DEF Next, Advance, AdvanceDrop, Finished, ExtUnknown, Refuse, CommitWrite, CommitLog,
        CommitEmbed, CommitEmit, Abort

(***************************************************************************)
(* SELECT ... FOR UPDATE does its work: until it ends, a write decides and *)
(* computes on the row as it is, whatever other writes, embeds and         *)
(* deregistrations of the page are under way.                              *)
(***************************************************************************)
THEOREM RowsArePinned == Spec => []PinnedRow
<1>1. TypeOK /\ Flow /\ PinnedRow /\ [Next]_vars => PinnedRow'
    BY NextPinned
<1>2. QED
    BY <1>1, InitPinned, TypeCorrect, PTL DEF Spec

-----------------------------------------------------------------------------
(***************************************************************************)
(* Only a deregistration ever holds a row other than the one it works on.  *)
(***************************************************************************)
HoldsOwn ==
    /\ \A r \in Request \ Deregs, p \in Path :
          holder[p] = r => txn[r].path = p /\ pc[r] \notin {"idle", "done"}
    /\ \A r \in Request : pc[r] = "delete" => r \in Deregs

\* Nobody holds a row.
LEMMA InitHoldsOwn == Init => HoldsOwn
BY Kinds DEF Init, HoldsOwn

\* Every step keeps HoldsOwn.
LEMMA NextHoldsOwn == TypeOK /\ Flow /\ HoldsOwn /\ [Next]_vars => HoldsOwn'
<1> SUFFICES ASSUME TypeOK, Flow, HoldsOwn, [Next]_vars PROVE HoldsOwn'
    OBVIOUS
<1> USE Kinds, PathAssumption
<1>1. ASSUME NEW r \in Writers, NEW p \in Path, NEW b \in Base, WriteSelect(r, p, b) PROVE HoldsOwn'
    <2>1. txn'[r].path = p
        BY <1>1 DEF WriteSelect, TypeOK, NoTxn
    <2>2. QED
        BY <1>1, <2>1 DEF WriteSelect, TypeOK, HoldsOwn, Goto
<1>2. ASSUME NEW r \in Embedders \cup Emitters, NEW p \in Path \cup {Nil}, ExtBegin(r, p)
      PROVE HoldsOwn'
    BY <1>2 DEF ExtBegin, TypeOK, HoldsOwn, Goto
<1>3. ASSUME NEW r \in Request, NEW a, End(r, a), UNCHANGED txn PROVE HoldsOwn'
    BY <1>3 DEF TypeOK, HoldsOwn, End, Released
<1>4. ASSUME NEW r \in Request, DrawVersion(r) \/ EmbedLookup(r) \/ Upsert(r) PROVE HoldsOwn'
    <2>1. \A q \in Request : txn'[q].path = txn[q].path
        BY <1>4, SamePath
    <2>2. /\ pc[r] \notin {"idle", "done"}
          /\ pc'[r] \in {"upsert", "look", "commit"} /\ \A q \in Request : q # r => pc'[q] = pc[q]
        BY <1>4 DEF DrawVersion, EmbedLookup, Upsert, TypeOK, Goto
    <2>3. \A p \in Path : holder'[p] = holder[p] \/ (holder'[p] = r /\ p = txn[r].path)
        BY <1>4 DEF DrawVersion, EmbedLookup, Upsert, TypeOK
    <2>4. QED
        BY <2>1, <2>2, <2>3 DEF HoldsOwn
<1>5. ASSUME NEW d \in Deregs, NEW q \in Path \cup {Nil}, DropSnapshot(d, q) \/ DropRow(d, q)
      PROVE HoldsOwn'
    <2>1. \A r \in Request \ {d} : txn'[r] = txn[r] /\ pc'[r] = pc[r]
        BY <1>5, DropStep
    <2>2. \A p \in Path : holder'[p] \in {Nil, d, holder[p]}
        BY <1>5 DEF DropSnapshot, DropRow, TypeOK, End, Released
    <2>3. QED
        BY <2>1, <2>2 DEF HoldsOwn
<1>6. CASE UNCHANGED vars
    BY <1>6 DEF HoldsOwn, vars
<1>7. QED
    BY <1>1, <1>2, <1>3, <1>4, <1>5, <1>6
    DEF Next, Advance, AdvanceDrop, Finished, ExtUnknown, Refuse, CommitWrite, CommitLog,
        CommitEmbed, CommitEmit, CommitDrop, Abort

(***************************************************************************)
(* Requests that wait for each other in a circle are deregistrations, each *)
(* with rows locked that another one is to delete (db.py, ext_deregister): *)
(* no write and no embed is ever part of a deadlock.                       *)
(***************************************************************************)
THEOREM OnlyDeregsDeadlock == Spec => [](\A S \in SUBSET Request : Deadlocked(S) => S \subseteq Deregs)
<1>1. TypeOK /\ Flow /\ HoldsOwn => \A S \in SUBSET Request : Deadlocked(S) => S \subseteq Deregs
    <2> SUFFICES ASSUME TypeOK, Flow, HoldsOwn, NEW S \in SUBSET Request, Deadlocked(S),
                        NEW r \in S, r \notin Deregs
                 PROVE  FALSE
        OBVIOUS
    <2>1. PICK s \in S : r = holder[txn[s].path]
        BY DEF Deadlocked
    <2>2. Waiting(r) /\ Waiting(s)
        BY DEF Deadlocked
    <2>3. txn[s].path \in Path
        BY <2>2, PathAssumption DEF Waiting, HoldsOwn, Flow, FlowAt, TypeOK
    <2>4. txn[r].path = txn[s].path
        BY <2>1, <2>3 DEF HoldsOwn
    <2>5. QED
        BY <2>1, <2>2, <2>4 DEF Waiting
<1>2. TypeOK /\ Flow /\ HoldsOwn /\ [Next]_vars => HoldsOwn'
    BY NextHoldsOwn
<1>3. QED
    BY <1>1, <1>2, InitHoldsOwn, TypeCorrect, PTL DEF Spec

-----------------------------------------------------------------------------
(***************************************************************************)
(* Every number of global_version_seq goes to one request, is still above  *)
(* zero and at most seq there, and is published only when that request is  *)
(* done.                                                                   *)
(***************************************************************************)
NumberAt(q) ==
    /\ txn[q].gv <= seq
    /\ pc[q] \in {"idle", "draw", "refuse"} => txn[q].gv = 0
    /\ (pc[q] \in {"look", "upsert", "commit"} /\ q \notin Deregs) => txn[q].gv > 0

Published(g) == \E q \in Request : pc[q] = "done" /\ txn[q].gv = g

Numbered ==
    /\ \A q \in Request : NumberAt(q)
    /\ \A q, s \in Request : (q # s /\ txn[q].gv = txn[s].gv) => txn[q].gv = 0
    /\ \A i \in DOMAIN events : events[i].gv > 0 /\ Published(events[i].gv)
    /\ DistinctEventVersions

\* No number has been drawn.
LEMMA InitNumbered == Init => Numbered
BY Kinds DEF Init, Numbered, NumberAt, NoTxn, DistinctEventVersions

\* Appending an event whose number no event has keeps the numbers apart.
LEMMA AppendDistinct ==
    ASSUME events \in Seq(Event), DistinctEventVersions, NEW e \in Event,
           events' = Append(events, e), \A i \in DOMAIN events : events[i].gv # e.gv
    PROVE  DistinctEventVersions'
BY DEF DistinctEventVersions

\* What the commit of an event does to the numbering.
LEMMA CommitNumbered ==
    ASSUME TypeOK, Flow, Numbered, NEW r \in Request, pc[r] = "commit", r \notin Deregs,
           NEW e \in Event, e.gv = txn[r].gv, events' = Append(events, e),
           pc' = [pc EXCEPT ![r] = "done"], UNCHANGED <<txn, seq>>
    PROVE  Numbered'
<1>1. txn[r].gv > 0
    BY DEF Numbered, NumberAt
<1>2. \A i \in DOMAIN events : events[i].gv # e.gv
    <2> SUFFICES ASSUME NEW i \in DOMAIN events, events[i].gv = txn[r].gv PROVE FALSE
        OBVIOUS
    <2>1. PICK q \in Request : pc[q] = "done" /\ txn[q].gv = events[i].gv
        BY DEF Numbered, Published
    <2>2. q # r
        BY <2>1
    <2>3. QED
        BY <1>1, <2>1, <2>2 DEF Numbered, TypeOK, Txn
<1>3. DistinctEventVersions'
    BY <1>2, AppendDistinct DEF TypeOK, Numbered
<1>4. \A q \in Request : NumberAt(q)'
    BY DEF Numbered, NumberAt, TypeOK
<1>5. \A q \in Request : pc[q] = "done" => pc'[q] = "done"
    BY DEF TypeOK
<1>6. pc'[r] = "done"
    BY DEF TypeOK
<1>7. ASSUME NEW i \in DOMAIN events'
      PROVE events'[i].gv > 0 /\ \E q \in Request : pc'[q] = "done" /\ txn'[q].gv = events'[i].gv
    <2>1. CASE i \in DOMAIN events
        <3>1. events'[i] = events[i]
            BY <2>1 DEF TypeOK
        <3>2. PICK q \in Request : pc[q] = "done" /\ txn[q].gv = events[i].gv
            BY <2>1 DEF Numbered, Published
        <3>3. events[i].gv > 0
            BY <2>1 DEF Numbered
        <3>4. QED
            BY <3>1, <3>2, <3>3, <1>5
    <2>2. CASE i = Len(events) + 1
        <3>1. events'[i] = e
            BY <2>2 DEF TypeOK
        <3>2. QED
            BY <3>1, <1>1, <1>6
    <2>3. QED
        BY <2>1, <2>2 DEF TypeOK
<1>8. QED
    BY <1>3, <1>4, <1>7 DEF Numbered, Published

\* Every step keeps Numbered.
LEMMA NextNumbered == TypeOK /\ Flow /\ Numbered /\ [Next]_vars => Numbered'
<1> SUFFICES ASSUME TypeOK, Flow, Numbered, [Next]_vars PROVE Numbered'
    OBVIOUS
<1> USE Kinds, PathAssumption
<1>1. ASSUME NEW r \in Request, pc[r] = "idle", NEW t \in Txn, t.gv = 0,
             txn' = [txn EXCEPT ![r] = t], NEW l \in {"draw", "refuse"}, Goto(r, l),
             UNCHANGED <<seq, events>>
      PROVE Numbered'
    <2>1. \A q \in Request : NumberAt(q)'
        BY <1>1 DEF Numbered, NumberAt, TypeOK, Goto
    <2>2. \A g : Published(g) => Published(g)'
        BY <1>1 DEF Published, TypeOK, Goto
    <2>3. \A q, s \in Request : (q # s /\ txn'[q].gv = txn'[s].gv) => txn'[q].gv = 0
        BY <1>1 DEF Numbered, TypeOK
    <2>4. QED
        BY <1>1, <2>1, <2>2, <2>3 DEF Numbered, DistinctEventVersions
<1>2. ASSUME NEW r \in Request, pc[r] # "done",
             NEW l \in {"upsert", "commit", "delete", "done"}, pc' = [pc EXCEPT ![r] = l],
             l \in {"upsert", "commit"} => pc[r] \in {"look", "upsert"} \/ r \in Deregs,
             \A q \in Request : txn'[q].gv = txn[q].gv, UNCHANGED <<seq, events>>
      PROVE Numbered'
    <2>1. \A q \in Request : NumberAt(q)'
        BY <1>2 DEF Numbered, NumberAt, TypeOK
    <2>2. \A g : Published(g) => Published(g)'
        BY <1>2 DEF Published, TypeOK
    <2>3. QED
        BY <1>2, <2>1, <2>2 DEF Numbered, DistinctEventVersions
<1>3. ASSUME NEW r \in Request, DrawVersion(r) PROVE Numbered'
    <2>1. /\ txn'[r].gv = seq + 1
          /\ \A q \in Request : q # r => txn'[q] = txn[q]
        BY <1>3 DEF DrawVersion, TypeOK, Txn
    <2>2. \A q \in Request : NumberAt(q)'
        BY <1>3, <2>1 DEF DrawVersion, Numbered, NumberAt, TypeOK, Txn, Goto
    <2>3. \A q, s \in Request : (q # s /\ txn'[q].gv = txn'[s].gv) => txn'[q].gv = 0
        BY <2>1 DEF Numbered, NumberAt, TypeOK, Txn
    <2>4. \A g : Published(g) => Published(g)'
        BY <1>3, <2>1 DEF DrawVersion, Published, TypeOK, Goto
    <2>5. QED
        BY <1>3, <2>2, <2>3, <2>4 DEF DrawVersion, Numbered, DistinctEventVersions
<1>4. ASSUME NEW r \in Writers, NEW p \in Path, NEW b \in Base, WriteSelect(r, p, b)
      PROVE Numbered'
    <2>1. [NoTxn EXCEPT !.path = p, !.base = b, !.seen = pages[p].version,
                        !.body = pages[p].content] \in Txn
        BY DEF NoTxn, Txn, TypeOK, Row
    <2>2. QED
        BY <1>1, <1>4, <2>1 DEF WriteSelect, NoTxn
<1>5. ASSUME NEW r \in Embedders \cup Emitters, NEW p \in Path \cup {Nil}, ExtBegin(r, p)
      PROVE Numbered'
    <2>1. [NoTxn EXCEPT !.path = p] \in Txn
        BY DEF NoTxn, Txn, Base
    <2>2. QED
        BY <1>1, <1>5, <2>1 DEF ExtBegin, NoTxn
<1>6. ASSUME NEW d \in Deregs, NEW q \in Path \cup {Nil}, DropSnapshot(d, q) PROVE Numbered'
    <2>1. PICK l \in {"delete", "commit", "done"} : pc' = [pc EXCEPT ![d] = l]
        BY <1>6, DropStep
    <2>2. QED
        BY <1>2, <1>6, <2>1, DropStep
<1>7. ASSUME NEW r \in Request, EmbedLookup(r) PROVE Numbered'
    <2>1. \A q \in Request : txn'[q].gv = txn[q].gv
        BY <1>7 DEF EmbedLookup, TypeOK, Txn
    <2>2. QED
        BY <1>2, <1>7, <2>1 DEF EmbedLookup, Goto
<1>8. ASSUME NEW r \in Request, Upsert(r) PROVE Numbered'
    <2>1. \A q \in Request : txn'[q].gv = txn[q].gv
        BY <1>8 DEF Upsert, TypeOK, Txn
    <2>2. QED
        BY <1>2, <1>8, <2>1 DEF Upsert, Goto
<1>9. ASSUME NEW d \in Deregs, NEW q \in Path \cup {Nil}, DropRow(d, q) PROVE Numbered'
    <2>1. PICK l \in {"delete", "commit", "done"} : pc' = [pc EXCEPT ![d] = l]
        BY <1>9, DropStep
    <2>2. QED
        BY <1>2, <1>9, <2>1, DropStep
<1>10. ASSUME NEW r \in Request, CommitWrite(r) PROVE Numbered'
    <2>1. PageChanged(txn[r].path, txn[r].gv, NewVersion(r)) \in Event
        BY <1>10 DEF CommitWrite, PageChanged, Event, EventTypes, TypeOK, Txn, NewVersion
    <2>2. PageChanged(txn[r].path, txn[r].gv, NewVersion(r)).gv = txn[r].gv
        BY DEF PageChanged
    <2>3. QED
        BY <1>10, <2>1, <2>2, CommitNumbered DEF CommitWrite, End
<1>11. ASSUME NEW r \in Request, CommitLog(r) PROVE Numbered'
    <2> DEFINE e == [type |-> "LogAppended", path |-> Nil, gv |-> txn[r].gv, version |-> 0]
    <2>1. e \in Event /\ e.gv = txn[r].gv
        BY DEF Event, EventTypes, TypeOK, Txn
    <2> HIDE DEF e
    <2>2. events' = Append(events, e)
        BY <1>11 DEF CommitLog, e
    <2>3. QED
        BY <1>11, <2>1, <2>2, CommitNumbered DEF CommitLog, End
<1>12. ASSUME NEW r \in Request, CommitEmit(r) PROVE Numbered'
    <2> DEFINE e == [type |-> "ExtEvent", path |-> txn[r].path, gv |-> txn[r].gv, version |-> 0]
    <2>1. e \in Event /\ e.gv = txn[r].gv
        BY DEF Event, EventTypes, TypeOK, Txn
    <2> HIDE DEF e
    <2>2. events' = Append(events, e)
        BY <1>12 DEF CommitEmit, e
    <2>3. QED
        BY <1>12, <2>1, <2>2, CommitNumbered DEF CommitEmit, End
<1>13. ASSUME NEW r \in Request, NEW a, End(r, a), pc[r] # "done", UNCHANGED <<txn, seq, events>>
       PROVE Numbered'
    BY <1>2, <1>13 DEF End
<1>14. CASE UNCHANGED vars
    BY <1>14 DEF Numbered, NumberAt, Published, DistinctEventVersions, vars
<1>15. QED
    BY <1>3, <1>4, <1>5, <1>6, <1>7, <1>8, <1>9, <1>10, <1>11, <1>12, <1>13, <1>14
    DEF Next, Advance, AdvanceDrop, Finished, ExtUnknown, Refuse, CommitEmbed, CommitDrop, Abort

(***************************************************************************)
(* A global version names one committed event at most: aborted and         *)
(* concurrent transactions leave gaps and reorderings, never duplicates    *)
(* (global_version_seq, and the two statements that use a drawn number).   *)
(***************************************************************************)
THEOREM EventVersionsDistinct == Spec => []DistinctEventVersions
<1>1. TypeOK /\ Flow /\ Numbered /\ [Next]_vars => Numbered'
    BY NextNumbered
<1>2. Numbered => DistinctEventVersions
    BY DEF Numbered
<1>3. QED
    BY <1>1, <1>2, InitNumbered, TypeCorrect, PTL DEF Spec

-----------------------------------------------------------------------------
\* A write that gets its answer in a step gets it from its own last statement.
LEMMA WhoAnswers ==
    ASSUME TypeOK, Flow, [Next]_vars, NEW w \in Writers, pc[w] # "done", pc'[w] = "done"
    PROVE  CommitWrite(w) \/ Refuse(w) \/ Abort(w)
<1> USE Kinds
<1>1. ASSUME NEW r \in Writers, NEW p \in Path, NEW b \in Base, WriteSelect(r, p, b) PROVE FALSE
    BY <1>1 DEF WriteSelect, TypeOK, Goto
<1>2. ASSUME NEW r \in Embedders \cup Emitters, NEW p \in Path \cup {Nil}, ExtBegin(r, p) PROVE FALSE
    BY <1>2 DEF ExtBegin, TypeOK, Goto
<1>3. ASSUME NEW r \in Request, r # w, NEW a, End(r, a) PROVE FALSE
    BY <1>3 DEF TypeOK, End
<1>4. ASSUME NEW d \in Deregs, NEW q \in Path \cup {Nil}, DropSnapshot(d, q) PROVE FALSE
    BY <1>4, DropStep
<1>5. ASSUME NEW r \in Request, DrawVersion(r) PROVE FALSE
    BY <1>5 DEF DrawVersion, TypeOK, Goto
<1>6. ASSUME NEW r \in Request, EmbedLookup(r) PROVE FALSE
    BY <1>6 DEF EmbedLookup, TypeOK, Goto
<1>7. ASSUME NEW r \in Request, Upsert(r) PROVE FALSE
    BY <1>7 DEF Upsert, TypeOK, Goto
<1>8. ASSUME NEW d \in Deregs, NEW q \in Path \cup {Nil}, DropRow(d, q) PROVE FALSE
    BY <1>8, DropStep
<1>9. CASE UNCHANGED vars
    BY <1>9 DEF vars
<1>10. QED
    BY <1>1, <1>2, <1>3, <1>4, <1>5, <1>6, <1>7, <1>8, <1>9
    DEF Next, Advance, AdvanceDrop, Finished, ExtUnknown, Refuse, CommitWrite, CommitLog,
        CommitEmbed, CommitEmit, CommitDrop, Abort

\* The base of a write that reached its commit is the version it saw.
LEMMA BaseWasSeen ==
    ASSUME TypeOK, Flow, PinnedRow, NEW w \in Writers, CommitWrite(w), txn[w].base # Nil
    PROVE  /\ txn[w].path \in Path
           /\ txn[w].base = txn[w].seen
           /\ pages[txn[w].path].version = txn[w].base
<1>1. Matches(txn[w].base, txn[w].seen) /\ txn[w].path \in Path /\ txn[w].seen \in Nat
    BY Kinds DEF Flow, FlowAt, CommitWrite, TypeOK, Txn
<1>2. txn[w].seen > 0 /\ txn[w].base = txn[w].seen
    BY <1>1 DEF Matches
<1>3. QED
    BY <1>1, <1>2 DEF PinnedRow, CommitWrite

(***************************************************************************)
(* No acknowledged update is lost: a write acknowledged for base version b *)
(* replaced exactly version b (the version check of write_page under the   *)
(* row lock), whatever else works on the page.                             *)
(***************************************************************************)
THEOREM UpdatesAreChecked == Spec => CheckedUpdate
<1>1. ASSUME TypeOK, Flow, PinnedRow, [Next]_vars, NEW w \in Writers,
             Answers(w, "ok"), txn[w].base # Nil
      PROVE  /\ pages[txn[w].path].version = txn[w].base
             /\ pages'[txn[w].path].version = txn[w].base + 1
             /\ pages'[txn[w].path].content = w
    <2>1. CommitWrite(w) \/ Refuse(w) \/ Abort(w)
        BY <1>1, WhoAnswers DEF Answers
    <2>2. CommitWrite(w)
        BY <1>1, <2>1, Kinds DEF Answers, Refuse, Abort, End, Answer, TypeOK
    <2>3. /\ txn[w].path \in Path
          /\ txn[w].base = txn[w].seen
          /\ pages[txn[w].path].version = txn[w].base
        BY <1>1, <2>2, BaseWasSeen
    <2>4. QED
        BY <2>2, <2>3, <1>1 DEF CommitWrite, PutRow, NewVersion, TypeOK
<1>2. TypeOK /\ Flow /\ PinnedRow /\ [Next]_vars =>
        [\A r \in Writers :
          LET p == txn[r].path IN
          (Answers(r, "ok") /\ txn[r].base # Nil) =>
              /\ pages[p].version = txn[r].base
              /\ pages'[p].version = txn[r].base + 1
              /\ pages'[p].content = r]_vars
    BY <1>1
<1>3. QED
    BY <1>2, TypeCorrect, RowsArePinned, PTL DEF Spec, CheckedUpdate


(***************************************************************************)
(* A 409 for an existing page tells the truth of that moment: the version  *)
(* and content write_page read under the row lock.                         *)
(***************************************************************************)
THEOREM ConflictsAreTruthful == Spec => TruthfulConflict
<1>1. ASSUME TypeOK, Flow, PinnedRow, [Next]_vars, NEW w \in Writers,
             Answers(w, "conflict"), reply'[w].version > 0
      PROVE  /\ reply'[w].version = pages[txn[w].path].version
             /\ reply'[w].content = pages[txn[w].path].content
             /\ reply'[w].version # txn[w].base
    <2>1. CommitWrite(w) \/ Refuse(w) \/ Abort(w)
        BY <1>1, WhoAnswers DEF Answers
    <2>2. Refuse(w)
        BY <1>1, <2>1, Kinds DEF Answers, CommitWrite, Abort, End, Answer, TypeOK
    <2>3. reply'[w].version = txn[w].seen /\ reply'[w].content = txn[w].body
        <3>1. reply' = [reply EXCEPT ![w] = Answer("conflict", txn[w].seen, txn[w].body)]
            BY <2>2 DEF Refuse, End
        <3>2. w \in DOMAIN reply
            BY <1>1, Kinds DEF TypeOK
        <3>3. QED
            BY <3>1, <3>2 DEF Answer
    <2>4. ~Matches(txn[w].base, txn[w].seen)
        <3>1. w \in Request /\ pc[w] = "refuse"
            BY <2>2, Kinds DEF Refuse
        <3>2. FlowAt(w)
            BY <1>1, <3>1 DEF Flow
        <3>3. QED
            BY <3>1, <3>2 DEF FlowAt
    <2>5. QED
        BY <1>1, <2>2, <2>3, <2>4 DEF Refuse, PinnedRow, Matches
<1>2. TypeOK /\ Flow /\ PinnedRow /\ [Next]_vars =>
        [\A r \in Writers :
          LET p == txn[r].path IN
          (Answers(r, "conflict") /\ reply'[r].version > 0) =>
              /\ reply'[r].version = pages[p].version
              /\ reply'[r].content = pages[p].content
              /\ reply'[r].version # txn[r].base]_vars
    BY <1>1
<1>3. QED
    BY <1>2, TypeCorrect, RowsArePinned, PTL DEF Spec, TruthfulConflict

-----------------------------------------------------------------------------
(***************************************************************************)
(* The events table is an EventLog.                                        *)
(***************************************************************************)
LEMMA InitLog == Init => Log!LogInit
BY Kinds DEF Init, Log!LogInit, Open, NoTxn

\* A transaction that ends gives its number up; the others keep theirs.
LEMMA OpenEnds ==
    ASSUME TypeOK, Numbered, NEW r \in Request, pc[r] # "done",
           pc' = [pc EXCEPT ![r] = "done"], UNCHANGED txn
    PROVE  Open' = Open \ {txn[r].gv}
<1>1. ASSUME NEW g \in Open' PROVE g \in Open \ {txn[r].gv}
    <2>1. PICK q \in Request : pc'[q] # "done" /\ txn[q].gv > 0 /\ g = txn[q].gv
        BY <1>1 DEF Open
    <2>2. q # r /\ pc[q] # "done"
        BY <2>1 DEF TypeOK
    <2>3. txn[q].gv # txn[r].gv
        BY <2>1, <2>2 DEF Numbered, TypeOK, Txn
    <2>4. QED
        BY <2>1, <2>2, <2>3 DEF Open
<1>2. ASSUME NEW g \in Open, g # txn[r].gv PROVE g \in Open'
    <2>1. PICK q \in Request : pc[q] # "done" /\ txn[q].gv > 0 /\ g = txn[q].gv
        BY <1>2 DEF Open
    <2>2. q # r /\ pc'[q] = pc[q]
        BY <1>2, <2>1 DEF TypeOK
    <2>3. QED
        BY <2>1, <2>2 DEF Open
<1>3. QED
    BY <1>1, <1>2

\* A step that ends nobody and draws nothing keeps the open numbers.
LEMMA OpenStays ==
    ASSUME TypeOK, NEW r \in Request, pc[r] # "done", NEW l, l # "done",
           pc' = [pc EXCEPT ![r] = l], \A q \in Request : txn'[q].gv = txn[q].gv
    PROVE  Open' = Open
BY DEF Open, TypeOK

\* The commit of an event publishes its number.
LEMMA CommitPublishes ==
    ASSUME TypeOK, Flow, Numbered, NEW r \in Request, pc[r] = "commit", r \notin Deregs,
           NEW e \in Event, e.gv = txn[r].gv, events' = Append(events, e),
           pc' = [pc EXCEPT ![r] = "done"], UNCHANGED <<txn, seq>>
    PROVE  Log!LogNext
<1> DEFINE Entry(x) == [gv |-> x.gv, label |-> <<x.type, x.path>>]
           Mapped == [i \in DOMAIN events |-> Entry(events[i])]
<1>1. txn[r].gv \in Open
    BY DEF Open, Numbered, NumberAt
<1>2. Open' = Open \ {txn[r].gv}
    BY OpenEnds
<1>3. <<e.type, e.path>> \in EventTypes \X (Path \cup {Nil})
    BY DEF Event
<1>4. [i \in DOMAIN events' |-> Entry(events'[i])] = Append(Mapped, Entry(e))
    <2>1. DOMAIN events = 1..Len(events) /\ Len(events) \in Nat
        BY DEF TypeOK
    <2>2. /\ DOMAIN events' = 1..Len(events) + 1
          /\ \A i \in 1..Len(events) : events'[i] = events[i]
          /\ events'[Len(events) + 1] = e
        BY DEF TypeOK
    <2>3. Mapped \in Seq({Entry(events[i]) : i \in DOMAIN events}) /\ Len(Mapped) = Len(events)
        BY <2>1
    <2> HIDE DEF Mapped
    <2>4. /\ Append(Mapped, Entry(e)) = [i \in 1..Len(events) + 1 |->
                IF i <= Len(events) THEN Mapped[i] ELSE Entry(e)]
        BY <2>1, <2>3
    <2>5. \A i \in 1..Len(events) : Mapped[i] = Entry(events[i])
        BY <2>1 DEF Mapped
    <2>6. ASSUME NEW i \in 1..Len(events) + 1
          PROVE  Entry(events'[i]) = IF i <= Len(events) THEN Mapped[i] ELSE Entry(e)
        <3>1. CASE i \in 1..Len(events)
            <4>1. events'[i] = events[i] /\ Mapped[i] = Entry(events[i])
                BY <2>2, <2>5, <3>1
            <4>2. i <= Len(events)
                BY <2>1, <3>1
            <4>3. QED
                BY <4>1, <4>2
        <3>2. CASE i = Len(events) + 1
            BY <2>1, <2>2, <3>2
        <3>3. QED
            BY <2>1, <3>1, <3>2
    <2> HIDE DEF Entry
    <2>7. QED
        BY <2>2, <2>4, <2>6
<1>5. Log!Publish(txn[r].gv, <<e.type, e.path>>)
    BY <1>1, <1>2, <1>4 DEF Log!Publish
<1>6. QED
    BY <1>1, <1>3, <1>5 DEF Log!LogNext

\* Every step is a step of EventLog, or none.
LEMMA NextLog == TypeOK /\ Flow /\ Numbered /\ [Next]_vars => [Log!LogNext]_(Log!logVars)
<1> SUFFICES ASSUME TypeOK, Flow, Numbered, [Next]_vars
             PROVE  Log!LogNext \/ UNCHANGED <<seq, Open, events>>
    BY DEF Log!logVars
<1> USE Kinds
<1>1. ASSUME NEW r \in Writers, NEW p \in Path, NEW b \in Base, WriteSelect(r, p, b)
      PROVE UNCHANGED <<seq, Open, events>>
    <2>1. \A q \in Request : txn'[q].gv = txn[q].gv
        BY <1>1 DEF WriteSelect, NoTxn, TypeOK, Txn, Numbered, NumberAt
    <2>2. QED
        BY <1>1, <2>1, OpenStays DEF WriteSelect, Goto
<1>2. ASSUME NEW r \in Embedders \cup Emitters, NEW p \in Path \cup {Nil}, ExtBegin(r, p)
      PROVE UNCHANGED <<seq, Open, events>>
    <2>1. \A q \in Request : txn'[q].gv = txn[q].gv
        BY <1>2 DEF ExtBegin, NoTxn, TypeOK, Txn, Numbered, NumberAt
    <2>2. QED
        BY <1>2, <2>1, OpenStays DEF ExtBegin, Goto
<1>3. ASSUME NEW r \in Request, NEW a, pc[r] # "done", End(r, a), UNCHANGED <<txn, seq, events>>
      PROVE Log!LogNext \/ UNCHANGED <<seq, Open, events>>
    <2>1. Open' = Open \ {txn[r].gv}
        BY <1>3, OpenEnds DEF End
    <2>2. CASE txn[r].gv \in Open
        BY <1>3, <2>1, <2>2 DEF Log!LogNext, Log!Discard
    <2>3. CASE txn[r].gv \notin Open
        BY <1>3, <2>1, <2>3
    <2>4. QED
        BY <2>2, <2>3
<1>4. ASSUME NEW d \in Deregs, NEW q \in Path \cup {Nil}, DropSnapshot(d, q)
      PROVE Log!LogNext \/ UNCHANGED <<seq, Open, events>>
    <2>1. CASE registered
        <3>1. PICK l \in {"delete", "commit"} : pc' = [pc EXCEPT ![d] = l]
            BY <1>4, <2>1 DEF DropSnapshot, Scan, Goto
        <3>2. pc[d] = "idle" /\ UNCHANGED <<seq, events>>
            BY <1>4 DEF DropSnapshot
        <3>3. \A r \in Request : txn'[r].gv = txn[r].gv
            BY <1>4, DropStep
        <3>4. Open' = Open
            BY <3>1, <3>2, <3>3, OpenStays
        <3>5. QED
            BY <3>2, <3>4
    <2>2. CASE ~registered
        BY <1>4, <2>2, <1>3 DEF DropSnapshot
    <2>3. QED
        BY <2>1, <2>2
<1>5. ASSUME NEW r \in Request, DrawVersion(r) PROVE Log!LogNext
    <2>1. /\ txn'[r].gv = seq + 1 /\ txn[r].gv = 0
          /\ \A q \in Request : q # r => txn'[q] = txn[q]
        BY <1>5 DEF DrawVersion, TypeOK, Txn, Numbered, NumberAt
    <2>2. pc'[r] # "done" /\ \A q \in Request : (pc'[q] = "done") = (pc[q] = "done")
        BY <1>5 DEF DrawVersion, TypeOK, Goto
    <2>3. Open' = Open \cup {seq + 1}
        BY <2>1, <2>2 DEF Open, TypeOK
    <2>4. QED
        BY <1>5, <2>3 DEF DrawVersion, Log!LogNext, Log!Draw
<1>6. ASSUME NEW r \in Request, EmbedLookup(r) PROVE UNCHANGED <<seq, Open, events>>
    <2>1. \A q \in Request : txn'[q].gv = txn[q].gv
        BY <1>6 DEF EmbedLookup, TypeOK, Txn
    <2>2. QED
        BY <1>6, <2>1, OpenStays DEF EmbedLookup, Goto
<1>7. ASSUME NEW r \in Request, Upsert(r) PROVE UNCHANGED <<seq, Open, events>>
    <2>1. \A q \in Request : txn'[q].gv = txn[q].gv
        BY <1>7 DEF Upsert, TypeOK, Txn
    <2>2. QED
        BY <1>7, <2>1, OpenStays DEF Upsert, Goto
<1>8. ASSUME NEW d \in Deregs, NEW q \in Path \cup {Nil}, DropRow(d, q)
      PROVE UNCHANGED <<seq, Open, events>>
    <2>1. PICK l \in {"delete", "commit"} : pc' = [pc EXCEPT ![d] = l]
        BY <1>8 DEF DropRow, Scan, Goto
    <2>2. pc[d] = "delete" /\ UNCHANGED <<seq, events>>
        BY <1>8 DEF DropRow
    <2>3. \A r \in Request : txn'[r].gv = txn[r].gv
        BY <1>8, DropStep
    <2>4. QED
        BY <2>1, <2>2, <2>3, OpenStays
<1>9. ASSUME NEW r \in Request, CommitWrite(r) PROVE Log!LogNext
    <2>1. PageChanged(txn[r].path, txn[r].gv, NewVersion(r)) \in Event
        BY <1>9 DEF CommitWrite, PageChanged, Event, EventTypes, TypeOK, Txn, NewVersion
    <2>2. PageChanged(txn[r].path, txn[r].gv, NewVersion(r)).gv = txn[r].gv
        BY DEF PageChanged
    <2>3. QED
        BY <1>9, <2>1, <2>2, CommitPublishes DEF CommitWrite, End
<1>10. ASSUME NEW r \in Request, CommitLog(r) PROVE Log!LogNext
    <2> DEFINE e == [type |-> "LogAppended", path |-> Nil, gv |-> txn[r].gv, version |-> 0]
    <2>1. e \in Event /\ e.gv = txn[r].gv
        BY DEF Event, EventTypes, TypeOK, Txn
    <2> HIDE DEF e
    <2>2. events' = Append(events, e)
        BY <1>10 DEF CommitLog, e
    <2>3. QED
        BY <1>10, <2>1, <2>2, CommitPublishes DEF CommitLog, End
<1>11. ASSUME NEW r \in Request, CommitEmit(r) PROVE Log!LogNext
    <2> DEFINE e == [type |-> "ExtEvent", path |-> txn[r].path, gv |-> txn[r].gv, version |-> 0]
    <2>1. e \in Event /\ e.gv = txn[r].gv
        BY DEF Event, EventTypes, TypeOK, Txn
    <2> HIDE DEF e
    <2>2. events' = Append(events, e)
        BY <1>11 DEF CommitEmit, e
    <2>3. QED
        BY <1>11, <2>1, <2>2, CommitPublishes DEF CommitEmit, End
<1>12. CASE UNCHANGED vars
    BY <1>12 DEF vars, Open
<1>13. QED
    BY <1>1, <1>2, <1>3, <1>4, <1>5, <1>6, <1>7, <1>8, <1>9, <1>10, <1>11, <1>12
    DEF Next, Advance, AdvanceDrop, Finished, ExtUnknown, Refuse, CommitEmbed, CommitDrop, Abort

(***************************************************************************)
(* Whatever writes, embeds, log appends, emitted events and rollbacks run  *)
(* together, the readers of events see an EventLog: what EventStream       *)
(* assumes of the store holds of it.                                       *)
(***************************************************************************)
THEOREM StoreImplementsEventLog == Spec => ImplementsEventLog
<1>1. Init => Log!LogInit
    BY InitLog
<1>2. TypeOK /\ Flow /\ Numbered /\ [Next]_vars => [Log!LogNext]_(Log!logVars)
    BY NextLog
<1>3. TypeOK /\ Flow /\ Numbered /\ [Next]_vars => Numbered'
    BY NextNumbered
<1>4. QED
    BY <1>1, <1>2, <1>3, InitNumbered, TypeCorrect, PTL
    DEF Spec, ImplementsEventLog, Log!LogSpec

-----------------------------------------------------------------------------
(* Wiki pages: what commits do to them, and the events they are told by.    *)

\* A row changes in the commit of a write, an embed or a deregistration, and
\* nowhere else; the event log grows in the commits of all but the last two.
LEMMA RowChanges ==
    ASSUME [Next]_vars
    PROVE  \/ \E r \in Writers : CommitWrite(r)
           \/ \E r \in Embedders : CommitEmbed(r)
           \/ \E d \in Deregs : CommitDrop(d)
           \/ \E r \in Request : CommitLog(r) \/ CommitEmit(r)
           \/ UNCHANGED <<pages, events>>
BY DEF Next, Advance, AdvanceDrop, Finished, vars, WriteSelect, ExtBegin, ExtUnknown, DropSnapshot,
       Refuse, DrawVersion, EmbedLookup, Upsert, CommitWrite, CommitEmbed, DropRow, CommitDrop, Abort

\* An embed works on a page of the extension.
EmbedsAreExt ==
    \A r \in Embedders :
        /\ txn[r].path \in ExtPath \cup {Nil}
        /\ pc[r] \notin {"idle", "done"} => txn[r].path \in ExtPath

\* No request has begun.
LEMMA InitEmbeds == Init => EmbedsAreExt
BY Kinds DEF Init, EmbedsAreExt, NoTxn

\* Every step keeps EmbedsAreExt.
LEMMA NextEmbeds == TypeOK /\ EmbedsAreExt /\ [Next]_vars => EmbedsAreExt'
<1> SUFFICES ASSUME TypeOK, EmbedsAreExt, [Next]_vars PROVE EmbedsAreExt'
    OBVIOUS
<1> USE Kinds
<1>1. ASSUME NEW r \in Writers, NEW p \in Path, NEW b \in Base, WriteSelect(r, p, b) PROVE EmbedsAreExt'
    BY <1>1 DEF WriteSelect, TypeOK, EmbedsAreExt, Goto
<1>2. ASSUME NEW r \in Embedders \cup Emitters, NEW p \in Path \cup {Nil}, ExtBegin(r, p)
      PROVE EmbedsAreExt'
    BY <1>2 DEF ExtBegin, TypeOK, EmbedsAreExt, Goto, NoTxn
<1>3. ASSUME NEW r \in Request, NEW a, End(r, a), UNCHANGED txn PROVE EmbedsAreExt'
    BY <1>3 DEF TypeOK, EmbedsAreExt, End
<1>4. ASSUME NEW r \in Request, DrawVersion(r) \/ EmbedLookup(r) \/ Upsert(r) PROVE EmbedsAreExt'
    <2>1. \A q \in Request : txn'[q].path = txn[q].path
        BY <1>4, SamePath
    <2>2. \A q \in Request : q # r => pc'[q] = pc[q]
        BY <1>4 DEF DrawVersion, EmbedLookup, Upsert, TypeOK, Goto
    <2>3. pc[r] \notin {"idle", "done"}
        BY <1>4 DEF DrawVersion, EmbedLookup, Upsert
    <2>4. QED
        BY <2>1, <2>2, <2>3 DEF EmbedsAreExt
<1>5. ASSUME NEW d \in Deregs, NEW q \in Path \cup {Nil}, DropSnapshot(d, q) \/ DropRow(d, q)
      PROVE EmbedsAreExt'
    BY <1>5, DropStep DEF EmbedsAreExt
<1>6. CASE UNCHANGED vars
    BY <1>6 DEF EmbedsAreExt, vars
<1>7. QED
    BY <1>1, <1>2, <1>3, <1>4, <1>5, <1>6
    DEF Next, Advance, AdvanceDrop, Finished, ExtUnknown, Refuse, CommitWrite, CommitLog, CommitEmbed,
        CommitEmit, CommitDrop, Abort

\* An event that is no PageChanged of a page leaves what the page is told by.
LEMMA OtherEvent ==
    ASSUME TypeOK, NEW e \in Event, events' = Append(events, e), NEW p \in Path \ ExtPath,
           e.type # "PageChanged" \/ e.path # p, pages'[p] = pages[p],
           LatestEventDescribesPage,
           NEW i \in DOMAIN events', events'[i].type = "PageChanged", events'[i].path = p,
           \A j \in DOMAIN events' : events'[j].type = "PageChanged" /\ events'[j].path = p => j <= i
    PROVE  events'[i].version = pages'[p].version /\ events'[i].gv = pages'[p].gv
<1>1. /\ events \in Seq(Event) /\ Len(events') = Len(events) + 1 /\ Len(events) \in Nat
      /\ \A j \in DOMAIN events : events'[j] = events[j]
      /\ events'[Len(events) + 1] = e
      /\ DOMAIN events = 1 .. Len(events) /\ DOMAIN events' = 1 .. Len(events) + 1
    BY DEF TypeOK
<1>2. i \in DOMAIN events
    BY <1>1
<1>3. QED
    BY <1>1, <1>2 DEF LatestEventDescribesPage

\* The step that commits a write, an embed, a deregistration or another event.
LEMMA NextLatest ==
    TypeOK /\ Flow /\ EmbedsAreExt /\ LatestEventDescribesPage /\ [Next]_vars => LatestEventDescribesPage'
<1> SUFFICES ASSUME TypeOK, Flow, EmbedsAreExt, LatestEventDescribesPage, [Next]_vars,
                    NEW p \in Path \ ExtPath,
                    NEW i \in DOMAIN events', events'[i].type = "PageChanged", events'[i].path = p,
                    \A j \in DOMAIN events' : events'[j].type = "PageChanged" /\ events'[j].path = p => j <= i
             PROVE  events'[i].version = pages'[p].version /\ events'[i].gv = pages'[p].gv
    BY DEF LatestEventDescribesPage
<1> USE Kinds, PathAssumption
<1>1. ASSUME NEW r \in Writers, CommitWrite(r)
      PROVE  events'[i].version = pages'[p].version /\ events'[i].gv = pages'[p].gv
    <2> DEFINE q == txn[r].path
               e == PageChanged(q, txn[r].gv, NewVersion(r))
    <2>1. /\ q \in Path /\ txn[r].gv \in Nat /\ NewVersion(r) \in Nat
          /\ events' = Append(events, e) /\ e \in Event /\ e.path = q /\ e.type = "PageChanged"
          /\ e.gv = txn[r].gv /\ e.version = NewVersion(r)
          /\ pages' = [pages EXCEPT ![q] = [version |-> NewVersion(r), gv |-> txn[r].gv, content |-> r]]
        <3>1. pc[r] = "commit" /\ txn[r] \in Txn
            BY <1>1 DEF CommitWrite, TypeOK
        <3>2. q \in Path
            BY <3>1 DEF Flow, FlowAt
        <3>3. txn[r].gv \in Nat /\ NewVersion(r) \in Nat
            BY <3>1 DEF Txn, NewVersion
        <3>4. e \in Event /\ e.path = q /\ e.type = "PageChanged" /\ e.gv = txn[r].gv /\ e.version = NewVersion(r)
            BY <3>2, <3>3 DEF PageChanged, Event, EventTypes
        <3>5. QED
            BY <1>1, <3>2, <3>3, <3>4 DEF CommitWrite, PutRow
    <2>2. CASE q = p
        <3>1. /\ events \in Seq(Event) /\ Len(events') = Len(events) + 1 /\ Len(events) \in Nat
              /\ events'[Len(events) + 1] = e
              /\ DOMAIN events' = 1 .. Len(events) + 1
            BY <2>1 DEF TypeOK
        <3>2. i = Len(events) + 1
            BY <2>1, <2>2, <3>1
        <3>3. QED
            BY <2>1, <2>2, <3>1, <3>2 DEF TypeOK
    <2>3. CASE q # p
        <3>1. pages'[p] = pages[p]
            BY <2>1, <2>3 DEF TypeOK
        <3>2. QED
            BY <2>1, <2>3, <3>1, OtherEvent
    <2>4. QED
        BY <2>2, <2>3
<1>2. ASSUME NEW r \in Embedders, CommitEmbed(r)
      PROVE  events'[i].version = pages'[p].version /\ events'[i].gv = pages'[p].gv
    <2>1. txn[r].path # p /\ UNCHANGED events
        BY <1>2 DEF EmbedsAreExt, CommitEmbed
    <2>2. pages'[p] = pages[p]
        BY <1>2, <2>1 DEF CommitEmbed, PutRow, TypeOK
    <2>3. QED
        BY <2>1, <2>2 DEF LatestEventDescribesPage
<1>3. ASSUME NEW d \in Deregs, CommitDrop(d)
      PROVE  events'[i].version = pages'[p].version /\ events'[i].gv = pages'[p].gv
    <2>1. pages'[p] = pages[p] /\ UNCHANGED events
        BY <1>3 DEF CommitDrop, TypeOK
    <2>2. QED
        BY <2>1 DEF LatestEventDescribesPage
<1>4. ASSUME NEW r \in Request, CommitLog(r) \/ CommitEmit(r)
      PROVE  events'[i].version = pages'[p].version /\ events'[i].gv = pages'[p].gv
    <2>1. PICK e \in Event : events' = Append(events, e) /\ e.type # "PageChanged"
        <3>1. txn[r].gv \in Nat /\ txn[r].path \in Path \cup {Nil}
            BY DEF TypeOK, Txn
        <3>2. QED
            BY <1>4, <3>1 DEF CommitLog, CommitEmit, Event, EventTypes
    <2>2. pages' = pages
        BY <1>4 DEF CommitLog, CommitEmit
    <2>3. QED
        BY <2>1, <2>2, OtherEvent
<1>5. CASE UNCHANGED <<pages, events>>
    BY <1>5 DEF LatestEventDescribesPage
<1>6. QED
    BY <1>1, <1>2, <1>3, <1>4, <1>5, RowChanges

(***************************************************************************)
(* Whoever reads a wiki page after the last PageChanged that announced it  *)
(* finds the version and the number of that event, creates that race       *)
(* included.  This is what lets EventStream name a page's content by the   *)
(* number of its last event.                                               *)
(***************************************************************************)
THEOREM EventsDescribePages == Spec => []LatestEventDescribesPage
<1>1. Init => LatestEventDescribesPage
    BY DEF Init, LatestEventDescribesPage
<1>2. TypeOK /\ EmbedsAreExt /\ [Next]_vars => EmbedsAreExt'
    BY NextEmbeds
<1>3. TypeOK /\ Flow /\ EmbedsAreExt /\ LatestEventDescribesPage /\ [Next]_vars => LatestEventDescribesPage'
    BY NextLatest
<1>4. QED
    BY <1>1, <1>2, <1>3, InitEmbeds, TypeCorrect, PTL DEF Spec

-----------------------------------------------------------------------------
(* Wiki pages that are in place before anybody writes them.                 *)

\* What a writer of a wiki page has read, and the number it drew afterwards.
AboveAt(w) ==
    pc[w] \notin {"idle", "done"} /\ txn[w].path \in Settled =>
        /\ txn[w].seen > 0
        /\ pc[w] \in {"upsert", "commit"} => txn[w].gv > pages[txn[w].path].gv

DrawnAbove ==
    /\ \A p \in Path : pages[p].gv <= seq
    /\ \A p \in Settled : pages[p].version > 0
    /\ \A w \in Writers : AboveAt(w)

\* The seeded pages carry no number.
LEMMA InitAbove == Init => DrawnAbove
<1> SUFFICES ASSUME Init PROVE DrawnAbove
    OBVIOUS
<1>1. seq = 0 /\ \A p \in Path : pages[p].gv = 0 /\ (p \in Seeded => pages[p].version = 1)
    BY DEF Init, NoRow
<1>2. ASSUME NEW p \in Path PROVE pages[p].gv <= seq
    <2>1. pages[p].gv = 0 /\ seq = 0
        BY <1>1
    <2>2. QED
        BY <2>1
<1>3. ASSUME NEW p \in Settled PROVE pages[p].version > 0
    <2>1. p \in Path /\ p \in Seeded
        BY PathAssumption DEF Settled
    <2>2. QED
        BY <1>1, <2>1
<1>4. \A w \in Writers : pc[w] = "idle"
    BY Kinds DEF Init
<1>5. QED
    BY <1>2, <1>3, <1>4 DEF DrawnAbove, AboveAt

\* A commit of a row changes that row only, to one with the number drawn for it.
LEMMA RowCommitAbove ==
    ASSUME TypeOK, Flow, PinnedRow, Numbered, EmbedsAreExt, DrawnAbove,
           NEW r \in Writers \cup Embedders, pc[r] = "commit", PutRow(r), pc' = [pc EXCEPT ![r] = "done"],
           UNCHANGED <<seq, txn>>
    PROVE  DrawnAbove'
<1> USE Kinds, PathAssumption
<1> DEFINE p == txn[r].path
<1>1. /\ p \in Path /\ holder[p] = r /\ NewVersion(r) \in Nat /\ NewVersion(r) > 0
      /\ txn[r].gv \in Nat /\ txn[r].gv <= seq
      /\ pages' = [pages EXCEPT ![p] = [version |-> NewVersion(r), gv |-> txn[r].gv, content |-> r]]
    BY DEF Flow, FlowAt, TypeOK, Txn, NewVersion, Numbered, NumberAt, PutRow
<1>2. \A q \in Path : pages'[q].gv <= seq'
    BY <1>1 DEF DrawnAbove, TypeOK
<1>3. \A q \in Settled : pages'[q].version > 0
    BY <1>1 DEF DrawnAbove, TypeOK
<1>4. ASSUME NEW w \in Writers PROVE AboveAt(w)'
    <2>1. CASE w = r
        BY <2>1 DEF AboveAt, TypeOK
    <2>2. CASE w # r /\ ~(pc[w] \notin {"idle", "done"} /\ txn[w].path \in Settled)
        BY <2>2 DEF AboveAt, TypeOK
    <2>3. CASE w # r /\ pc[w] \notin {"idle", "done"} /\ txn[w].path \in Settled
        <3>1. txn[w].seen > 0 /\ pc'[w] = pc[w] /\ txn'[w] = txn[w]
            BY <2>3 DEF DrawnAbove, AboveAt, TypeOK
        <3>2. ASSUME pc[w] \in {"upsert", "commit"} PROVE txn[w].path # p
            BY <1>1, <2>3, <3>1, <3>2 DEF PinnedRow
        <3>3. pc[w] \in {"upsert", "commit"} => txn[w].path \in Path
            BY DEF Flow, FlowAt
        <3>4. QED
            BY <1>1, <2>3, <3>1, <3>2, <3>3 DEF DrawnAbove, AboveAt, TypeOK
    <2>4. QED
        BY <2>1, <2>2, <2>3
<1>5. QED
    BY <1>2, <1>3, <1>4 DEF DrawnAbove

\* Every step keeps DrawnAbove.
LEMMA NextAbove ==
    TypeOK /\ Flow /\ PinnedRow /\ Numbered /\ EmbedsAreExt /\ DrawnAbove /\ [Next]_vars => DrawnAbove'
<1> SUFFICES ASSUME TypeOK, Flow, PinnedRow, Numbered, EmbedsAreExt, DrawnAbove, [Next]_vars
             PROVE  DrawnAbove'
    OBVIOUS
<1> USE Kinds, PathAssumption
<1>0. seq \in Nat /\ \A p \in Path : pages[p].gv \in Nat
    BY DEF TypeOK, Row
<1>1. ASSUME NEW r \in Writers, NEW p \in Path, NEW b \in Base, WriteSelect(r, p, b) PROVE DrawnAbove'
    <2>1. \A w \in Writers : AboveAt(w)'
        BY <1>1 DEF WriteSelect, TypeOK, DrawnAbove, AboveAt, Goto, NoTxn
    <2>2. QED
        BY <1>1, <2>1 DEF WriteSelect, DrawnAbove
<1>2. ASSUME NEW r \in Embedders \cup Emitters, NEW p \in Path \cup {Nil}, ExtBegin(r, p) PROVE DrawnAbove'
    <2>1. \A w \in Writers : AboveAt(w)'
        BY <1>2 DEF ExtBegin, TypeOK, DrawnAbove, AboveAt, Goto
    <2>2. QED
        BY <1>2, <2>1 DEF ExtBegin, DrawnAbove
<1>3. ASSUME NEW r \in Request, NEW a, End(r, a), UNCHANGED <<txn, pages, seq>> PROVE DrawnAbove'
    BY <1>3 DEF TypeOK, DrawnAbove, AboveAt, End
<1>4. ASSUME NEW r \in Request, DrawVersion(r) PROVE DrawnAbove'
    <2>1. /\ seq' = seq + 1 /\ txn' = [txn EXCEPT ![r].gv = seq + 1] /\ UNCHANGED pages
          /\ \A w \in Request : w # r => pc'[w] = pc[w] /\ txn'[w] = txn[w]
          /\ pc[r] = "draw" /\ txn'[r].path = txn[r].path /\ txn'[r].seen = txn[r].seen /\ txn'[r].gv = seq + 1
        BY <1>4 DEF DrawVersion, TypeOK, Goto, Txn
    <2>2. ASSUME NEW w \in Writers PROVE AboveAt(w)'
        <3>1. CASE w # r
            BY <2>1, <3>1 DEF DrawnAbove, AboveAt
        <3>2. CASE w = r
            <4>1. txn[w].path \in Path
                BY <2>1, <3>2 DEF Flow, FlowAt
            <4>2. pages[txn[w].path].gv < seq + 1
                BY <1>0, <4>1 DEF DrawnAbove
            <4>3. AboveAt(w)
                BY DEF DrawnAbove
            <4>4. QED
                BY <2>1, <3>2, <4>2, <4>3 DEF AboveAt
        <3>3. QED
            BY <3>1, <3>2
    <2>3. QED
        BY <1>0, <2>1, <2>2 DEF DrawnAbove
<1>5. ASSUME NEW r \in Request, EmbedLookup(r) PROVE DrawnAbove'
    <2>1. r \notin Writers
        BY <1>5 DEF EmbedLookup, Flow, FlowAt
    <2>2. \A w \in Writers : AboveAt(w)'
        BY <1>5, <2>1 DEF EmbedLookup, TypeOK, DrawnAbove, AboveAt, Goto
    <2>3. QED
        BY <1>5, <2>2 DEF EmbedLookup, DrawnAbove
<1>6. ASSUME NEW r \in Request, Upsert(r) PROVE DrawnAbove'
    <2>1. /\ \A w \in Request : txn'[w].path = txn[w].path /\ txn'[w].seen = txn[w].seen /\ txn'[w].gv = txn[w].gv
          /\ pc' = [pc EXCEPT ![r] = "commit"] /\ pc[r] = "upsert" /\ UNCHANGED <<pages, seq>>
        BY <1>6 DEF Upsert, TypeOK, Txn, Goto
    <2>2. \A w \in Writers : AboveAt(w)'
        BY <2>1 DEF TypeOK, DrawnAbove, AboveAt
    <2>3. QED
        BY <2>1, <2>2 DEF DrawnAbove
<1>7. ASSUME NEW r \in Writers \cup Embedders, CommitWrite(r) \/ CommitEmbed(r) PROVE DrawnAbove'
    BY <1>7, RowCommitAbove DEF CommitWrite, CommitEmbed, End
<1>9. ASSUME NEW d \in Deregs, CommitDrop(d) PROVE DrawnAbove'
    <2>1. /\ \A p \in Settled : pages'[p] = pages[p]
          /\ \A p \in Path : pages'[p].gv <= pages[p].gv
          /\ UNCHANGED <<seq, txn>> /\ pc' = [pc EXCEPT ![d] = "done"]
        BY <1>0, <1>9 DEF CommitDrop, TypeOK, End, NoRow, Settled
    <2>2. ASSUME NEW w \in Writers PROVE AboveAt(w)'
        <3>1. pc'[w] \in {"upsert", "commit"} => txn[w].path \in Path
            BY <2>1 DEF Flow, FlowAt, TypeOK
        <3>2. QED
            BY <2>1, <3>1 DEF TypeOK, DrawnAbove, AboveAt
    <2>3. \A p \in Path : pages'[p].gv \in Nat
        BY <1>0, <1>9 DEF CommitDrop, NoRow
    <2>4. QED
        BY <1>0, <2>1, <2>2, <2>3 DEF DrawnAbove
<1>10. CASE UNCHANGED vars
    BY <1>10 DEF DrawnAbove, AboveAt, vars
<1>13. ASSUME NEW d \in Deregs, NEW q \in Path \cup {Nil}, DropSnapshot(d, q) \/ DropRow(d, q)
       PROVE  DrawnAbove'
    <2>1. UNCHANGED <<pages, seq>> /\ \A r \in Writers : txn'[r] = txn[r] /\ pc'[r] = pc[r]
        BY <1>13, DropStep
    <2>2. QED
        BY <2>1 DEF DrawnAbove, AboveAt
<1>11. ASSUME NEW r \in Request, CommitWrite(r) \/ CommitEmbed(r) PROVE DrawnAbove'
    BY <1>7, <1>11 DEF CommitWrite, CommitEmbed
<1>12. QED
    BY <1>1, <1>2, <1>3, <1>4, <1>5, <1>6, <1>9, <1>10, <1>11, <1>13
    DEF Next, Advance, AdvanceDrop, Finished, ExtUnknown, Refuse, CommitLog, CommitEmit, Abort

\* The four invariants hold together.
LEMMA StoreInvariant == Spec => [](PinnedRow /\ Numbered /\ EmbedsAreExt /\ DrawnAbove)
<1>1. Init => PinnedRow /\ Numbered /\ EmbedsAreExt /\ DrawnAbove
    BY InitPinned, InitNumbered, InitEmbeds, InitAbove
<1>2. /\ TypeOK /\ Flow /\ PinnedRow /\ Numbered /\ EmbedsAreExt /\ DrawnAbove /\ [Next]_vars
      => (PinnedRow /\ Numbered /\ EmbedsAreExt /\ DrawnAbove)'
    BY NextPinned, NextNumbered, NextEmbeds, NextAbove
<1>3. QED
    BY <1>1, <1>2, TypeCorrect, PTL DEF Spec

(***************************************************************************)
(* The version and the global version of a wiki page that was there before *)
(* only grow, whatever happens on the other pages: a new row carries a     *)
(* number drawn while its writer held the old.                             *)
(***************************************************************************)
THEOREM VersionsRise == Spec => PageVersionsRise
<1>1. ASSUME TypeOK, Flow, PinnedRow, EmbedsAreExt, DrawnAbove, [Next]_vars,
             NEW p \in Settled, pages'[p] # pages[p]
      PROVE  pages'[p].version > pages[p].version /\ pages'[p].gv > pages[p].gv
    <2> USE Kinds, PathAssumption DEF Settled
    <2>1. ASSUME NEW r \in Embedders, CommitEmbed(r) PROVE FALSE
        BY <1>1, <2>1 DEF CommitEmbed, PutRow, EmbedsAreExt, TypeOK
    <2>2. ASSUME NEW d \in Deregs, CommitDrop(d) PROVE FALSE
        BY <1>1, <2>2 DEF CommitDrop, TypeOK
    <2>3. ASSUME NEW r \in Request, CommitLog(r) \/ CommitEmit(r) PROVE FALSE
        BY <1>1, <2>3 DEF CommitLog, CommitEmit
    <2>4. PICK r \in Writers : CommitWrite(r)
        BY <1>1, <2>1, <2>2, <2>3, RowChanges
    <2>5. /\ txn[r].path = p /\ pc[r] = "commit"
          /\ pages'[p].version = NewVersion(r) /\ pages'[p].gv = txn[r].gv
        BY <1>1, <2>4 DEF CommitWrite, PutRow, TypeOK
    <2>6. txn[r].seen > 0 /\ txn[r].gv > pages[p].gv
        BY <1>1, <2>5 DEF DrawnAbove, AboveAt
    <2>7. pages[p].version = txn[r].seen /\ txn[r].seen \in Nat
        BY <1>1, <2>5, <2>6 DEF PinnedRow, TypeOK, Txn
    <2>8. QED
        BY <2>5, <2>6, <2>7 DEF NewVersion
<1>2. TypeOK /\ Flow /\ PinnedRow /\ EmbedsAreExt /\ DrawnAbove /\ [Next]_vars
        => [\A p \in Settled :
               pages'[p] # pages[p] =>
                   /\ pages'[p].version > pages[p].version
                   /\ pages'[p].gv > pages[p].gv]_vars
    BY <1>1
<1>3. QED
    BY <1>2, StoreInvariant, TypeCorrect, PTL DEF Spec, PageVersionsRise

-----------------------------------------------------------------------------
(* On these pages write_page implements CasStore.                           *)

\* A step that changes neither these pages nor what their writers were told is none
\* of CasStore.
LEMMA OthersStutter ==
    ASSUME \A p \in Settled : pages'[p] = pages[p], \A w \in Writers : Told(w)' = Told(w)
    PROVE  UNCHANGED Cas!casVars
BY DEF Cas!casVars

\* At the start nobody has been told anything.
LEMMA InitCas == Init => Cas!CasInit
<1> SUFFICES ASSUME Init PROVE Cas!CasInit
    OBVIOUS
<1>1. \A r \in Writers : Told(r) = Cas!Unanswered
    BY Kinds DEF Init, Told, Pending, Cas!Unanswered
<1>2. \A p \in Settled : pages[p].version = 1 /\ pages[p].content = Nil
    BY PathAssumption DEF Init, Settled, NoRow
<1>3. QED
    BY <1>1, <1>2 DEF Cas!CasInit

\* Every step is a step of CasStore, or none.
LEMMA NextCas ==
    TypeOK /\ Flow /\ PinnedRow /\ EmbedsAreExt /\ DrawnAbove /\ [Next]_vars
        => [Cas!CasNext]_(Cas!casVars)
<1> SUFFICES ASSUME TypeOK, Flow, PinnedRow, EmbedsAreExt, DrawnAbove, [Next]_vars
             PROVE  [Cas!CasNext]_(Cas!casVars)
    OBVIOUS
<1> USE Kinds, PathAssumption
<1>0. Settled \subseteq Path /\ Settled \cap ExtPath = {}
    BY DEF Settled
<1>1. ASSUME NEW w \in Writers, pc[w] # "done" PROVE Told(w) = Pending
    BY <1>1 DEF Flow, FlowAt, Told
<1>2. ASSUME NEW r \in Request, NEW l, l # "done", Goto(r, l), UNCHANGED <<pages, reply>>,
             \A q \in Request : q # r => txn'[q] = txn[q],
             pc[r] # "done"
      PROVE  UNCHANGED Cas!casVars
    <2>1. ASSUME NEW w \in Writers PROVE Told(w)' = Told(w)
        <3>1. CASE w = r
            BY <1>2, <2>1, <3>1 DEF Flow, FlowAt, Told
        <3>2. CASE w # r
            BY <1>2, <3>2 DEF Told
        <3>3. QED
            BY <3>1, <3>2
    <2>2. QED
        BY <1>2, <2>1, OthersStutter
<1>3. ASSUME NEW r \in Request, r \notin Writers, NEW a, End(r, a), UNCHANGED txn,
             \A p \in Settled : pages'[p] = pages[p]
      PROVE  UNCHANGED Cas!casVars
    <2>1. \A w \in Writers : Told(w)' = Told(w)
        BY <1>3 DEF End, TypeOK, Told
    <2>2. QED
        BY <1>3, <2>1, OthersStutter
<1>4. ASSUME NEW w \in Writers, NEW a, End(w, a), UNCHANGED txn, txn[w].path \notin Settled,
             \A p \in Settled : pages'[p] = pages[p]
      PROVE  UNCHANGED Cas!casVars
    <2>1. \A v \in Writers : Told(v)' = Told(v)
        BY <1>4 DEF End, TypeOK, Told
    <2>2. QED
        BY <1>4, <2>1, OthersStutter
<1>5. ASSUME NEW w \in Writers, pc[w] \in {"refuse", "draw", "upsert", "commit"}, txn[w].path \in Settled
      PROVE /\ Told(w) = Cas!Unanswered
            /\ txn[w].base \in {Nil} \cup BaseVersion
            /\ txn[w].seen > 0
            /\ pages[txn[w].path].version = txn[w].seen
            /\ pages[txn[w].path].content = txn[w].body
    <2>1. Told(w) = Cas!Unanswered
        BY <1>1, <1>5 DEF Pending, Cas!Unanswered
    <2>2. txn[w].seen > 0
        BY <1>5 DEF DrawnAbove, AboveAt
    <2>3. QED
        BY <1>5, <2>1, <2>2 DEF PinnedRow, TypeOK, Txn, Base
<1>6. ASSUME NEW w \in Writers, NEW a, End(w, a), UNCHANGED txn, txn[w].path \in Settled
      PROVE  [v \in Writers |-> Told(v)'] = [[v \in Writers |-> Told(v)] EXCEPT ![w] = a]
    <2>1. Told(w)' = a
        BY <1>6 DEF End, TypeOK, Told
    <2>2. \A v \in Writers : v # w => Told(v)' = Told(v)
        BY <1>6 DEF End, TypeOK, Told
    <2>3. QED
        BY <2>1, <2>2
<1>7. ASSUME NEW w \in Writers, CommitWrite(w) PROVE Cas!CasNext \/ UNCHANGED Cas!casVars
    <2> DEFINE p == txn[w].path
    <2>1. /\ pc[w] = "commit" /\ p \in Path /\ txn[w].base = (IF txn[w].seen = 0 THEN Nil ELSE txn[w].seen)
          /\ pages' = [pages EXCEPT ![p] = [version |-> NewVersion(w), gv |-> txn[w].gv,
                                            content |-> w]]
          /\ End(w, Answer("ok", NewVersion(w), Nil)) /\ UNCHANGED txn
        BY <1>7 DEF CommitWrite, PutRow, Flow, FlowAt, Matches
    <2>2. CASE p \notin Settled
        <3>1. \A q \in Settled : pages'[q] = pages[q]
            BY <2>1, <2>2 DEF TypeOK
        <3>2. QED
            BY <1>4, <2>1, <2>2, <3>1
    <2>3. CASE p \in Settled
        <3>1. txn[w].base = Cas!Expected(p)
            BY <1>0, <1>5, <2>1, <2>3 DEF Cas!Expected
        <3>2. [q \in Settled |-> [version |-> pages'[q].version, content |-> pages'[q].content]]
                = [[q \in Settled |-> [version |-> pages[q].version, content |-> pages[q].content]]
                    EXCEPT ![p] = [version |-> pages[p].version + 1, content |-> w]]
            BY <1>0, <1>5, <2>1, <2>3 DEF NewVersion, TypeOK
        <3>3. Cas!Accept(w, p)
            BY <1>5, <1>6, <2>1, <2>3, <3>2 DEF Cas!Accept, NewVersion, Answer
        <3>4. Cas!Write(w, p, txn[w].base)
            BY <3>1, <3>3 DEF Cas!Write
        <3>5. txn[w].base \in {Nil} \cup BaseVersion
            BY <1>5, <2>1, <2>3
        <3>6. QED
            BY <2>3, <3>4, <3>5 DEF Cas!CasNext
    <2>4. QED
        BY <2>2, <2>3
<1>8. ASSUME NEW w \in Writers, Refuse(w) PROVE Cas!CasNext \/ UNCHANGED Cas!casVars
    <2> DEFINE p == txn[w].path
    <2>1. /\ pc[w] = "refuse" /\ p \in Path /\ txn[w].base # (IF txn[w].seen = 0 THEN Nil ELSE txn[w].seen)
          /\ End(w, Answer("conflict", txn[w].seen, txn[w].body)) /\ UNCHANGED <<txn, pages>>
        BY <1>8 DEF Refuse, Flow, FlowAt, Matches
    <2>2. CASE p \notin Settled
        BY <1>4, <2>1, <2>2
    <2>3. CASE p \in Settled
        <3>1. txn[w].base # Cas!Expected(p)
            BY <1>5, <2>1, <2>3 DEF Cas!Expected
        <3>2. Cas!Reject(w, p)
            BY <1>5, <1>6, <2>1, <2>3 DEF Cas!Reject, Answer
        <3>3. Cas!Write(w, p, txn[w].base)
            BY <3>1, <3>2 DEF Cas!Write
        <3>4. txn[w].base \in {Nil} \cup BaseVersion
            BY <1>5, <2>1, <2>3
        <3>5. QED
            BY <2>3, <3>3, <3>4 DEF Cas!CasNext
    <2>4. QED
        BY <2>2, <2>3
<1>9. ASSUME NEW w \in Writers, Abort(w) PROVE Cas!CasNext \/ UNCHANGED Cas!casVars
    <2>1. pc[w] # "done" /\ End(w, Answer("failed", 0, Nil)) /\ UNCHANGED <<txn, pages>>
        BY <1>9 DEF Abort
    <2>2. CASE txn[w].path \notin Settled
        BY <1>4, <2>1, <2>2
    <2>3. CASE txn[w].path \in Settled
        <3>1. Told(w) = Cas!Unanswered
            BY <1>1, <2>1 DEF Pending, Cas!Unanswered
        <3>2. Cas!Fail(w)
            BY <1>6, <2>1, <2>3, <3>1 DEF Answer, Cas!Fail
        <3>3. QED
            BY <3>2 DEF Cas!CasNext
    <2>4. QED
        BY <2>2, <2>3
<1>10. ASSUME NEW r \in Embedders, CommitEmbed(r) PROVE UNCHANGED Cas!casVars
    <2>1. txn[r].path \notin Settled
        BY <1>0, <1>10 DEF CommitEmbed, EmbedsAreExt
    <2>2. \A p \in Settled : pages'[p] = pages[p]
        BY <1>0, <1>10, <2>1 DEF CommitEmbed, PutRow, TypeOK
    <2>3. QED
        BY <1>3, <1>10, <2>2 DEF CommitEmbed
<1>11. ASSUME NEW d \in Deregs, CommitDrop(d) PROVE UNCHANGED Cas!casVars
    <2>1. \A p \in Settled : pages'[p] = pages[p]
        BY <1>0, <1>11 DEF CommitDrop, TypeOK
    <2>2. QED
        BY <1>3, <1>11, <2>1 DEF CommitDrop
<1>12. ASSUME NEW r \in Writers, NEW p \in Path, NEW b \in Base, WriteSelect(r, p, b)
       PROVE  UNCHANGED Cas!casVars
    BY <1>2, <1>12 DEF WriteSelect, TypeOK
<1>13. ASSUME NEW r \in Embedders \cup Emitters, NEW p \in Path \cup {Nil}, ExtBegin(r, p)
       PROVE  UNCHANGED Cas!casVars
    BY <1>2, <1>13 DEF ExtBegin, TypeOK
<1>14. ASSUME NEW r \in Request, DrawVersion(r) \/ EmbedLookup(r) \/ Upsert(r)
       PROVE  UNCHANGED Cas!casVars
    BY <1>2, <1>14 DEF DrawVersion, EmbedLookup, Upsert, TypeOK
<1>15. ASSUME NEW d \in Deregs, NEW q \in Path \cup {Nil}, DropSnapshot(d, q) \/ DropRow(d, q)
      PROVE UNCHANGED Cas!casVars
    <2>1. UNCHANGED pages /\ \A w \in Writers : txn'[w] = txn[w] /\ reply'[w] = reply[w]
        BY <1>15, DropStep
    <2>2. \A w \in Writers : Told(w)' = Told(w)
        BY <2>1 DEF Told
    <2>3. QED
        BY <2>1, <2>2, OthersStutter
<1>16. ASSUME NEW r \in Request, r \notin Writers, Abort(r) PROVE UNCHANGED Cas!casVars
    BY <1>3, <1>16 DEF Abort
<1>17. ASSUME NEW r \in Embedders \cup Emitters, ExtUnknown(r) PROVE UNCHANGED Cas!casVars
    BY <1>3, <1>17 DEF ExtUnknown
<1>18. ASSUME NEW r \in Request, CommitLog(r) \/ CommitEmit(r) PROVE UNCHANGED Cas!casVars
    BY <1>3, <1>18 DEF CommitLog, CommitEmit
<1>19. CASE UNCHANGED vars
    BY <1>19 DEF vars, Cas!casVars, Told
<1>20. ASSUME NEW r \in Request, CommitWrite(r) \/ Refuse(r) PROVE r \in Writers
    BY <1>20 DEF CommitWrite, Refuse, Flow, FlowAt
<1>21. ASSUME NEW r \in Request, CommitEmbed(r) PROVE r \in Embedders
    BY <1>21 DEF CommitEmbed
<1>22. QED
    BY <1>7, <1>8, <1>9, <1>10, <1>11, <1>12, <1>13, <1>14, <1>15, <1>16, <1>17, <1>18, <1>19, <1>20, <1>21
    DEF Next, Advance, AdvanceDrop, Finished

(***************************************************************************)
(* Updates of the wiki pages that were in place are atomic                 *)
(* compare-and-swaps, for any number of pages and concurrent writers, with *)
(* creates, embeds, deregistrations, log appends and emitted events around *)
(* them and any transaction rolling back (write_page).                     *)
(***************************************************************************)
THEOREM UpdatesImplementCasStore == Spec => ImplementsCasStore
<1>1. Init => Cas!CasInit
    BY InitCas
<1>2. TypeOK /\ Flow /\ PinnedRow /\ EmbedsAreExt /\ DrawnAbove /\ [Next]_vars
          => [Cas!CasNext]_(Cas!casVars)
    BY NextCas
<1>3. QED
    BY <1>1, <1>2, StoreInvariant, TypeCorrect, PTL DEF Spec, ImplementsCasStore, Cas!CasSpec

-----------------------------------------------------------------------------
(* Who wins.                                                                *)

\* Whom a write of one of these pages was acknowledged to, and as what version.
WonAt(r) ==
    r \in Writers /\ reply[r].status = "ok" =>
        /\ pc[r] = "done" /\ reply[r].version = NewVersion(r)
        /\ txn[r].path \in Settled => reply[r].version <= pages[txn[r].path].version

OneWinnerOn(p) ==
    \A r, s \in Writers :
        (r # s /\ reply[r].status = "ok" /\ reply[s].status = "ok"
            /\ txn[r].path = txn[s].path /\ txn[r].path = p) => reply[r].version # reply[s].version

Winners == (\A r \in Request : WonAt(r)) /\ \A p \in Settled : OneWinnerOn(p)

\* Every step keeps it: the version of the next acknowledgement is above the
\* version the page has, and that is at least the version of each before.
LEMMA NextWinners ==
    TypeOK /\ Flow /\ PinnedRow /\ EmbedsAreExt /\ DrawnAbove /\ Winners /\ [Next]_vars => Winners'
<1> SUFFICES ASSUME TypeOK, Flow, PinnedRow, EmbedsAreExt, DrawnAbove, Winners, [Next]_vars
             PROVE  Winners'
    OBVIOUS
<1> USE Kinds, PathAssumption
<1>0. Settled \subseteq Path /\ Settled \cap ExtPath = {}
    BY DEF Settled
<1>1. ASSUME \A p \in Settled : pages'[p] = pages[p],
             \A w \in Writers : \/ pc'[w] = pc[w] /\ txn'[w] = txn[w] /\ reply'[w] = reply[w]
                                \/ reply'[w].status # "ok"
      PROVE  Winners'
    <2>1. \A w \in Writers : reply'[w].status = "ok" =>
              pc'[w] = pc[w] /\ txn'[w] = txn[w] /\ reply'[w] = reply[w]
        BY <1>1
    <2>2. \A r \in Request : WonAt(r)'
        BY <1>1, <2>1 DEF Winners, WonAt, NewVersion
    <2>3. ASSUME NEW p \in Settled PROVE OneWinnerOn(p)'
        <3>1. ASSUME NEW r \in Writers, NEW q \in Writers, r # q, reply'[r].status = "ok", reply'[q].status = "ok",
                     txn'[r].path = txn'[q].path, txn'[r].path = p
              PROVE  reply'[r].version # reply'[q].version
            <4>1. txn'[r] = txn[r] /\ reply'[r] = reply[r] /\ txn'[q] = txn[q] /\ reply'[q] = reply[q]
                BY <2>1, <3>1
            <4>2. OneWinnerOn(p)
                BY DEF Winners
            <4>3. QED
                BY <3>1, <4>1, <4>2 DEF OneWinnerOn
        <3>2. QED
            BY <3>1 DEF OneWinnerOn
    <2>4. QED
        BY <2>2, <2>3 DEF Winners
<1>2. ASSUME NEW w \in Writers, CommitWrite(w) PROVE Winners'
    <2> DEFINE p == txn[w].path
    <2>1. /\ pc[w] = "commit" /\ p \in Path
          /\ pages' = [pages EXCEPT ![p] = [version |-> NewVersion(w), gv |-> txn[w].gv,
                                            content |-> w]]
          /\ pc' = [pc EXCEPT ![w] = "done"]
          /\ reply' = [reply EXCEPT ![w] = Answer("ok", NewVersion(w), Nil)]
          /\ txn' = txn
        BY <1>2 DEF CommitWrite, PutRow, Flow, FlowAt, End
    <2>2. p \in Settled => pages[p].version = txn[w].seen /\ txn[w].seen \in Nat
        BY <2>1 DEF DrawnAbove, AboveAt, PinnedRow, TypeOK, Txn
    <2>3. /\ pc'[w] = "done" /\ reply'[w].version = NewVersion(w) /\ pages'[p].version = NewVersion(w)
          /\ \A q \in Path : q # p => pages'[q] = pages[q]
          /\ \A r \in Request : r # w => reply'[r] = reply[r] /\ pc'[r] = pc[r]
        BY <2>1 DEF TypeOK, Answer
    <2>4. p \in Settled => NewVersion(w) = pages[p].version + 1 /\ pages[p].version \in Nat
        BY <2>2 DEF NewVersion
    <2>5. \A r \in Writers : reply[r].version \in Nat
        BY DEF TypeOK, Reply
    <2>6. ASSUME NEW r \in Request PROVE WonAt(r)'
        <3>1. CASE r = w
            BY <2>1, <2>3, <2>4, <3>1 DEF WonAt, NewVersion
        <3>2. CASE r # w /\ txn[r].path = p
            BY <2>1, <2>3, <2>4, <2>5, <3>2 DEF Winners, WonAt, NewVersion
        <3>3. CASE r # w /\ txn[r].path # p
            BY <1>0, <2>1, <2>3, <3>3 DEF Winners, WonAt, NewVersion
        <3>4. QED
            BY <3>1, <3>2, <3>3
    <2>7. ASSUME NEW q \in Settled PROVE OneWinnerOn(q)'
        <3>1. ASSUME NEW r \in Writers, r # w, reply[r].status = "ok", txn[r].path = p, p \in Settled
              PROVE  reply[r].version < NewVersion(w)
            BY <2>4, <2>5, <3>1 DEF Winners, WonAt
        <3>2. \A r \in Writers : (r # w /\ reply[r].status = "ok" /\ txn[r].path = p /\ p \in Settled)
                  => reply[r].version # NewVersion(w)
            BY <2>4, <2>5, <3>1
        <3>3. ASSUME NEW r \in Writers, NEW v \in Writers, r # v, reply'[r].status = "ok", reply'[v].status = "ok",
                     txn'[r].path = txn'[v].path, txn'[r].path = q
              PROVE  reply'[r].version # reply'[v].version
            <4>1. CASE r # w /\ v # w
                <5>1. reply'[r] = reply[r] /\ reply'[v] = reply[v] /\ OneWinnerOn(q)
                    BY <2>3, <4>1 DEF Winners
                <5>2. QED
                    BY <2>1, <3>3, <4>1, <5>1 DEF OneWinnerOn
            <4>2. CASE r = w
                <5>1. p \in Settled /\ txn[v].path = p
                    BY <2>1, <3>3, <4>2
                <5>2. v # w /\ reply'[v] = reply[v]
                    BY <2>3, <3>3, <4>2
                <5>3. reply[v].version # NewVersion(w)
                    BY <3>2, <3>3, <5>1, <5>2
                <5>4. QED
                    BY <2>3, <4>2, <5>2, <5>3
            <4>3. CASE v = w
                <5>1. p \in Settled /\ txn[r].path = p
                    BY <2>1, <3>3, <4>3
                <5>2. r # w /\ reply'[r] = reply[r]
                    BY <2>3, <3>3, <4>3
                <5>3. reply[r].version # NewVersion(w)
                    BY <3>2, <3>3, <5>1, <5>2
                <5>4. QED
                    BY <2>3, <4>3, <5>2, <5>3
            <4>4. QED
                BY <4>1, <4>2, <4>3
        <3>4. QED
            BY <3>3 DEF OneWinnerOn
    <2>8. QED
        BY <2>6, <2>7 DEF Winners
<1>3. ASSUME NEW r \in Request, Goto(r, "draw") \/ Goto(r, "refuse") \/ Goto(r, "upsert") \/ Goto(r, "look") \/ Goto(r, "commit") \/ Goto(r, "delete"),
             UNCHANGED <<pages, reply>>, pc[r] # "done", \A q \in Request : q # r => txn'[q] = txn[q]
      PROVE  Winners'
    <2>1. ASSUME NEW w \in Writers PROVE \/ pc'[w] = pc[w] /\ txn'[w] = txn[w] /\ reply'[w] = reply[w]
                                         \/ reply'[w].status # "ok"
        <3>1. CASE w = r
            BY <1>3, <3>1 DEF Flow, FlowAt, Pending
        <3>2. CASE w # r
            BY <1>3, <3>2 DEF Goto, TypeOK
        <3>3. QED
            BY <3>1, <3>2
    <2>2. QED
        BY <1>1, <1>3, <2>1
<1>4. ASSUME NEW r \in Request, NEW a, End(r, a), a.status # "ok" \/ r \notin Writers, UNCHANGED txn,
             \A p \in Settled : pages'[p] = pages[p]
      PROVE  Winners'
    <2>1. ASSUME NEW w \in Writers PROVE \/ pc'[w] = pc[w] /\ txn'[w] = txn[w] /\ reply'[w] = reply[w]
                                         \/ reply'[w].status # "ok"
        BY <1>4 DEF End, TypeOK
    <2>2. QED
        BY <1>1, <1>4, <2>1
<1>5. ASSUME NEW r \in Embedders, CommitEmbed(r) PROVE Winners'
    <2>1. txn[r].path \notin Settled
        BY <1>0, <1>5 DEF CommitEmbed, EmbedsAreExt
    <2>2. \A p \in Settled : pages'[p] = pages[p]
        BY <1>0, <1>5, <2>1 DEF CommitEmbed, PutRow, TypeOK
    <2>3. QED
        BY <1>4, <1>5, <2>2 DEF CommitEmbed
<1>6. ASSUME NEW d \in Deregs, CommitDrop(d) PROVE Winners'
    <2>1. \A p \in Settled : pages'[p] = pages[p]
        BY <1>0, <1>6 DEF CommitDrop, TypeOK
    <2>2. QED
        BY <1>4, <1>6, <2>1 DEF CommitDrop
<1>7. ASSUME NEW r \in Writers, NEW p \in Path, NEW b \in Base, WriteSelect(r, p, b) PROVE Winners'
    BY <1>3, <1>7 DEF WriteSelect, TypeOK
<1>8. ASSUME NEW r \in Embedders \cup Emitters, NEW p \in Path \cup {Nil}, ExtBegin(r, p) PROVE Winners'
    BY <1>3, <1>8 DEF ExtBegin, TypeOK
<1>9. ASSUME NEW r \in Request, DrawVersion(r) \/ EmbedLookup(r) \/ Upsert(r) PROVE Winners'
    BY <1>3, <1>9 DEF DrawVersion, EmbedLookup, Upsert, TypeOK
<1>10. ASSUME NEW d \in Deregs, NEW q \in Path \cup {Nil}, DropSnapshot(d, q) \/ DropRow(d, q)
      PROVE Winners'
    <2>1. /\ UNCHANGED pages
          /\ \A w \in Writers : pc'[w] = pc[w] /\ txn'[w] = txn[w] /\ reply'[w] = reply[w]
        BY <1>10, DropStep
    <2>2. QED
        BY <1>1, <2>1
<1>11. ASSUME NEW r \in Request, Abort(r) \/ Refuse(r) PROVE Winners'
    BY <1>4, <1>11 DEF Abort, Refuse, Answer
<1>12. ASSUME NEW r \in Embedders \cup Emitters, ExtUnknown(r) PROVE Winners'
    BY <1>4, <1>12 DEF ExtUnknown
<1>13. ASSUME NEW r \in Request, CommitLog(r) \/ CommitEmit(r) PROVE Winners'
    BY <1>4, <1>13 DEF CommitLog, CommitEmit
<1>14. CASE UNCHANGED vars
    BY <1>1, <1>14 DEF vars
<1>15. ASSUME NEW r \in Request, CommitWrite(r) PROVE r \in Writers
    BY <1>15 DEF CommitWrite
<1>16. ASSUME NEW r \in Request, CommitEmbed(r) PROVE r \in Embedders
    BY <1>16 DEF CommitEmbed
<1>17. QED
    BY <1>2, <1>5, <1>6, <1>7, <1>8, <1>9, <1>10, <1>11, <1>12, <1>13, <1>14, <1>15, <1>16
    DEF Next, Advance, AdvanceDrop, Finished

\* Of the writes of a wiki page that was in place at most one is told it made a
\* version: only creates can both win (write_page).
THEOREM SettledHaveOneWinner == Spec => [](\A p \in Settled : OneWinnerOn(p))
<1>1. Init => Winners
    BY Kinds DEF Init, Winners, WonAt, OneWinnerOn, Pending
<1>2. TypeOK /\ Flow /\ PinnedRow /\ EmbedsAreExt /\ DrawnAbove /\ Winners /\ [Next]_vars => Winners'
    BY NextWinners
<1>3. Winners => \A p \in Settled : OneWinnerOn(p)
    BY DEF Winners
<1>4. QED
    BY <1>1, <1>2, <1>3, StoreInvariant, TypeCorrect, PTL DEF Spec

================================================================================
