--------------------------- MODULE ExtRegistryProofs ---------------------------
(***************************************************************************)
(* Theorems about ExtRegistry for every set of extensions, prefixes,       *)
(* tables and calls.                                                       *)
(***************************************************************************)
EXTENDS ExtRegistry, TLAPS

Steps == {"idle", "run", "check", "role", "pages", "list", "drop", "done"}
Answers == {Nil, "ok", "nothing", "invalid", "notfound", "failed"}

\* A call under way has an extension and the row that ext_get returned.
Underway(c) ==
    IF at[c] \in {"idle", "done"} THEN my[c] = NoLocal
    ELSE my[c] \in Local /\ my[c].row \in Ext

CallsOK == \A c \in Calls : Underway(c)

\* The types in two parts.
CallTypes ==
    /\ at \in [Calls -> Steps] /\ my \in [Calls -> Local \cup {NoLocal}] /\ reply \in [Calls -> Answers]
    /\ CallsOK

\* The registrations, and Nil for a statement without a grant.
Writers == (Name \X Nat) \cup {Nil}

DataTypes ==
    /\ extensions \in [Name -> Ext \cup {NoExt}]
    /\ roles \subseteq Name
    /\ core \in [Name -> SUBSET CoreTables]
    /\ tables \in [Table -> Columns \cup {Nil}]
    /\ acl \subseteq roles \X Existing
    /\ rows \in [Table -> SUBSET Writers]
    /\ spaces \subseteq Name
    /\ count \in [Name -> Nat]
    /\ used \in [Name -> SUBSET Prefix]
    /\ promised \subseteq (Name \X Nat) \X Table \X Columns
    /\ stray \subseteq Stray

\* The types, of the data and of the calls.
LEMMA TypeParts == RegistryTypeOK /\ CallsOK <=> DataTypes /\ CallTypes
BY DEF RegistryTypeOK, DataTypes, CallTypes, Steps, Answers, Writers

-----------------------------------------------------------------------------
(* Types.                                                                   *)

\* A policy grants privileges on the core tables.
LEMMA GrantsType == ASSUME NEW q PROVE Grants(q) \subseteq CoreTables
BY DEF Grants, CoreTables

\* Rows are told from no row by their prefix.
LEMMA ExtIsRow == ASSUME NEW e \in Ext PROVE e # NoExt /\ e.prefix # Nil
<1>1. e.prefix \in Prefix
    BY DEF Ext
<1>2. NoExt.prefix = Nil
    BY DEF NoExt
<1>3. QED
    BY <1>1, <1>2, NamesAssumption

\* The tables of the start are tables of registered extensions.
LEMMA GrantedType == Granted \subseteq Seeded \X Table
<1>1. ASSUME NEW g \in Granted PROVE g \in Seeded \X Table
    <2>1. PICK n \in Seeded : g \in {<<n, Full[Default[n], s]>> : s \in Declared[n]}
        BY DEF Granted
    <2>2. PICK s \in Declared[n] : g = <<n, Full[Default[n], s]>>
        BY <2>1
    <2>3. s \in Short /\ Default[n] \in Prefix
        BY NamesAssumption, SeedAssumption
    <2>4. Full[Default[n], s] \in Table
        BY <2>3, NamesAssumption
    <2>5. QED
        BY <2>2, <2>4
<1>2. QED
    BY <1>1

\* The seeded extensions.
LEMMA InitRegistry == RegistryInit => RegistryTypeOK /\ CallsOK
<1> SUFFICES ASSUME RegistryInit PROVE RegistryTypeOK /\ CallsOK
    OBVIOUS
<1>1. Seeded \subseteq Name /\ {} \in Policy /\ SeedColumns \in Columns /\ Nil \notin Columns
    BY SeedAssumption
<1>2. extensions \in [Name -> Ext \cup {NoExt}]
    <2>1. ASSUME NEW n \in Seeded PROVE [prefix |-> Default[n], policy |-> {}, id |-> 1] \in Ext
        <3>1. Default[n] \in Prefix
            BY NamesAssumption, <1>1
        <3>2. QED
            BY <3>1, <1>1 DEF Ext
    <2>2. QED
        BY <2>1 DEF RegistryInit
<1>3. core \in [Name -> SUBSET CoreTables]
    BY GrantsType DEF RegistryInit
<1>4. tables \in [Table -> Columns \cup {Nil}] /\ acl \subseteq roles \X Existing
    <2>1. tables \in [Table -> Columns \cup {Nil}]
        BY <1>1 DEF RegistryInit
    <2>2. ASSUME NEW g \in Granted PROVE g \in roles \X Existing
        <3>1. g[1] \in Seeded /\ g[2] \in Table /\ g = <<g[1], g[2]>>
            BY GrantedType
        <3>2. tables[g[2]] = SeedColumns
            BY <3>1 DEF RegistryInit
        <3>3. QED
            BY <1>1, <3>1, <3>2 DEF RegistryInit, Existing
    <2>3. QED
        BY <2>1, <2>2 DEF RegistryInit
<1>5. rows \in [Table -> SUBSET (Name \X Nat)]
    <2>1. ASSUME NEW t \in Table
          PROVE  {<<n, 1>> : n \in {m \in Name : <<m, t>> \in Granted}} \subseteq Name \X Nat
        <3>1. ASSUME NEW n \in {m \in Name : <<m, t>> \in Granted} PROVE <<n, 1>> \in Name \X Nat
            OBVIOUS
        <3>2. QED
            BY <3>1
    <2>2. QED
        BY <2>1 DEF RegistryInit
<1>6. promised \subseteq (Name \X Nat) \X Table \X Columns
    <2>1. ASSUME NEW g \in Granted PROVE << <<g[1], 1>>, g[2], SeedColumns>> \in (Name \X Nat) \X Table \X Columns
        BY <1>1, GrantedType
    <2>2. QED
        BY <2>1 DEF RegistryInit
<1>7. count \in [Name -> Nat] /\ used \in [Name -> SUBSET Prefix]
    BY <1>1, NamesAssumption DEF RegistryInit
<1>8. CallsOK
    BY DEF RegistryInit, CallsOK, Underway
<1>9. /\ at \in [Calls -> Steps] /\ my \in [Calls -> Local \cup {NoLocal}] /\ reply \in [Calls -> Answers]
      /\ roles \subseteq Name /\ spaces \subseteq Name /\ stray \subseteq Stray
    BY <1>1 DEF RegistryInit, Steps, Answers
<1>10. QED
    BY <1>2, <1>3, <1>4, <1>5, <1>6, <1>7, <1>8, <1>9 DEF RegistryTypeOK, Steps, Answers

\* A call that ends leaves well-typed calls.
LEMMA ReturnType ==
    ASSUME CallTypes, NEW c \in Calls, NEW answer \in Answers, Return(c, answer)
    PROVE  CallTypes'
BY DEF CallTypes, CallsOK, Underway, Return, Steps, Answers

\* So does one that goes on to its next step.
LEMMA GotoType ==
    ASSUME CallTypes, NEW c \in Calls, at[c] \notin {"idle", "done"},
           NEW step \in Steps \ {"idle", "done"}, Goto(c, step), UNCHANGED reply,
           NEW mine \in Local, mine.row \in Ext, my' = [my EXCEPT ![c] = mine]
    PROVE  CallTypes'
BY DEF CallTypes, CallsOK, Underway, Goto, Steps, Answers

\* The registration of an extension, or of none, has a number.
LEMMA IdType == ASSUME NEW e \in Ext \cup {NoExt} PROVE e.id \in Nat
<1>1. ASSUME e \in Ext PROVE e.id \in Nat
    BY <1>1 DEF Ext
<1>2. NoExt.id = 0
    BY DEF NoExt
<1>3. QED
    BY <1>1, <1>2

\* One step of any call keeps the types.
LEMMA NextRegistry == RegistryTypeOK /\ CallsOK /\ [RegistryNext]_registryVars => RegistryTypeOK' /\ CallsOK'
<1> SUFFICES ASSUME DataTypes, CallTypes, [RegistryNext]_registryVars PROVE DataTypes' /\ CallTypes'
    BY TypeParts, PTL
<1>1. ASSUME NEW c \in Calls, at[c] \notin {"idle", "done"}
      PROVE  /\ my[c] \in Local /\ my[c].row \in Ext /\ my[c].row.prefix \in Prefix /\ my[c].name \in Name
             /\ my[c].doomed \subseteq Table /\ my[c].gone \subseteq Name
    BY <1>1 DEF CallTypes, CallsOK, Underway, Local, Ext
<1>2. ASSUME CallTypes', UNCHANGED <<extVars, dataVars, ghosts>> PROVE DataTypes' /\ CallTypes'
    BY <1>2 DEF DataTypes, extVars, dataVars, ghosts, Existing
<1>3. ASSUME NEW c \in Calls, NEW answer \in Answers, Return(c, answer), UNCHANGED <<extVars, dataVars, ghosts>>
      PROVE  DataTypes' /\ CallTypes'
    BY <1>2, <1>3, ReturnType
<1>4. ASSUME NEW c \in Calls, NEW n \in Name, NEW tool \in Tools, Lookup(c, tool, n)
      PROVE  DataTypes' /\ CallTypes'
    <2>1. CASE Registered(n)
        <3> DEFINE mine == [NoLocal EXCEPT !.tool = tool, !.name = n, !.row = extensions[n]]
        <3>1. extensions[n] \in Ext
            BY <2>1 DEF DataTypes, CallTypes, Registered
        <3>2. mine \in Local /\ mine.row \in Ext
            BY <3>1 DEF NoLocal, Local
        <3>3. my' = [my EXCEPT ![c] = mine] /\ UNCHANGED <<reply, extVars, dataVars, ghosts>>
            BY <1>4, <2>1 DEF Lookup
        <3>4. at'[c] \in {"check", "run"} /\ at' = [at EXCEPT ![c] = at'[c]]
            BY <1>4, <2>1 DEF Lookup, DataTypes, CallTypes
        <3> HIDE DEF mine
        <3>5. CallTypes'
            BY <3>2, <3>3, <3>4 DEF CallTypes, CallsOK, Underway, Steps, Answers
        <3>6. QED
            BY <1>2, <3>3, <3>5
    <2>2. CASE ~Registered(n)
        BY <1>3, <1>4, <2>2 DEF Lookup, Answers
    <2>3. QED
        BY <2>1, <2>2
<1>5. ASSUME NEW c \in Calls, Invalid(c) \/ Fails(c) PROVE DataTypes' /\ CallTypes'
    BY <1>3, <1>5 DEF Invalid, Fails, Answers
<1>6. ASSUME NEW c \in Calls, NEW n \in Name, NEW p \in Prefix, NEW q \in Policy, Register(c, n, p, q)
      PROVE  DataTypes' /\ CallTypes'
    <2>1. CASE UNCHANGED extVars
        BY <1>3, <1>6, <2>1 DEF Register, Answers
    <2>2. CASE Return(c, "ok") /\ Provision(n, p, q)
        <3>1. CallTypes'
            BY <2>2, ReturnType DEF Answers
        <3>2. count[n] + 1 \in Nat \ {0}
            BY DEF DataTypes, CallTypes
        <3>3. [prefix |-> p, policy |-> q, id |-> count[n] + 1] \in Ext
            BY <3>2 DEF Ext
        <3>4. extensions' \in [Name -> Ext \cup {NoExt}] /\ roles' = roles \cup {n} /\ count' \in [Name -> Nat]
            BY <2>2, <3>2, <3>3 DEF Provision, DataTypes, CallTypes
        <3>5. core' \in [Name -> SUBSET CoreTables] /\ used' \in [Name -> SUBSET Prefix]
            BY <2>2, GrantsType DEF Provision, DataTypes, CallTypes
        <3>6. UNCHANGED <<dataVars, ghosts>>
            BY <1>6 DEF Register
        <3>7. QED
            BY <3>1, <3>4, <3>5, <3>6 DEF DataTypes, dataVars, ghosts, Existing
    <2>3. QED
        BY <1>6, <2>1, <2>2 DEF Register
<1>7. ASSUME NEW c \in Calls, NEW s \in Short, NEW cols \in Columns, Declare(c, s, cols)
      PROVE  DataTypes' /\ CallTypes'
    <2> DEFINE n == my[c].name
               t == Full[my[c].row.prefix, s]
    <2>1. CallTypes'
        BY <1>7, ReturnType DEF Declare, Answers
    <2>2. n \in roles /\ n \in Name /\ t \in Table
        <3>1. n \in roles /\ n \in Name /\ my[c].row.prefix \in Prefix
            BY <1>1, <1>7 DEF Declare
        <3>2. QED
            BY <3>1, NamesAssumption
    <2>3. /\ tables' = [tables EXCEPT ![t] = IF @ = Nil THEN cols ELSE @]
          /\ acl' = acl \cup {<<n, t>>}
          /\ promised' = promised \cup {<< <<n, extensions[n].id>>, t, cols>>}
          /\ UNCHANGED <<extVars, rows, spaces>>
        BY <1>7 DEF Declare
    <2>4. stray' = stray \/ stray' = stray \cup {<<"table", t>>}
        BY <1>7 DEF Declare
    <2>5. <<"table", t>> \in Stray
        BY <2>2 DEF Stray
    <2>6. extensions[n].id \in Nat
        BY <2>2, IdType DEF DataTypes
    <2>7. << <<n, extensions[n].id>>, t, cols>> \in (Name \X Nat) \X Table \X Columns
        BY <2>2, <2>6
    <2> HIDE DEF n, t
    <2>8. /\ tables' \in [Table -> Columns \cup {Nil}] /\ t \in Existing'
          /\ \A u \in Existing : u \in Existing'
        BY <2>2, <2>3, SeedAssumption DEF DataTypes, Existing
    <2>9. acl' \subseteq roles \X Existing'
        BY <2>2, <2>3, <2>8 DEF DataTypes
    <2>10. promised' \subseteq (Name \X Nat) \X Table \X Columns /\ stray' \subseteq Stray
        BY <2>3, <2>4, <2>5, <2>7 DEF DataTypes
    <2>11. QED
        BY <2>1, <2>3, <2>8, <2>9, <2>10 DEF DataTypes, extVars
<1>8. ASSUME NEW c \in Calls, NEW t \in Table, Exec(c, t) PROVE DataTypes' /\ CallTypes'
    <2> DEFINE n == my[c].name
    <2>1. CallTypes'
        BY <1>8, ReturnType DEF Exec, Answers
    <2>2. n \in Name
        BY <1>1, <1>8 DEF Exec
    <2>3. extensions[n].id \in Nat
        BY <2>2, IdType DEF DataTypes
    <2> DEFINE writer == IF <<n, t>> \in acl THEN <<n, extensions[n].id>> ELSE Nil
    <2>4. rows' = [rows EXCEPT ![t] = @ \cup {writer}] /\ UNCHANGED <<extVars, tables, acl, spaces, ghosts>>
        BY <1>8 DEF Exec
    <2>5. writer \in Writers
        BY <2>2, <2>3 DEF Writers
    <2> HIDE DEF n, writer
    <2>6. rows' \in [Table -> SUBSET Writers]
        BY <2>4, <2>5 DEF DataTypes, CallTypes
    <2>7. QED
        BY <2>1, <2>4, <2>6 DEF DataTypes, Existing, extVars, ghosts
<1>9. ASSUME NEW c \in Calls, Emit(c) \/ Query(c) PROVE DataTypes' /\ CallTypes'
    BY <1>3, <1>9 DEF Emit, Query, Answers
<1>10. ASSUME NEW c \in Calls, Embed(c) PROVE DataTypes' /\ CallTypes'
    <2> DEFINE n == my[c].name
    <2>1. n \in Name
        BY <1>1, <1>10 DEF Embed
    <2>2. ASSUME NEW d \in Calls
          PROVE  /\ at[d] \in {"idle", "done"} \/ d = c => my'[d] = NoLocal
                 /\ at[d] \notin {"idle", "done"} /\ d # c => my'[d] \in Local /\ my'[d].row \in Ext
        <3>1. CASE d = c
            BY <1>10, <3>1 DEF Embed
        <3>2. CASE d # c /\ at[d] \in {"idle", "done"}
            <4>1. my[d] = NoLocal /\ my'[d] = [my[d] EXCEPT !.gone = @ \ {n}]
                BY <1>10, <3>2 DEF Embed, CallTypes, CallsOK, Underway
            <4>2. NoLocal.gone \ {n} = NoLocal.gone
                BY DEF NoLocal
            <4>3. [NoLocal EXCEPT !.gone = NoLocal.gone] = NoLocal
                BY DEF NoLocal
            <4>4. QED
                BY <3>2, <4>1, <4>2, <4>3
        <3>3. CASE d # c /\ at[d] \notin {"idle", "done"}
            <4>1. my'[d] = [my[d] EXCEPT !.gone = @ \ {n}]
                BY <1>10, <3>3 DEF Embed
            <4>2. QED
                BY <1>1, <3>3, <4>1 DEF Local
        <3>4. QED
            BY <3>1, <3>2, <3>3
    <2>3. at' = [at EXCEPT ![c] = "done"] /\ reply' = [reply EXCEPT ![c] = "ok"] /\ DOMAIN my' = Calls
        BY <1>10 DEF Embed
    <2>4. my' \in [Calls -> Local \cup {NoLocal}]
        <3>1. my' = [d \in Calls |-> my'[d]]
            BY <1>10 DEF Embed
        <3>2. \A d \in Calls : my'[d] \in Local \cup {NoLocal}
            BY <2>2
        <3>3. QED
            BY <3>1, <3>2
    <2>5. CallTypes'
        BY <2>2, <2>3, <2>4 DEF CallTypes, CallsOK, Underway, Steps, Answers
    <2>6. spaces' \subseteq Name /\ stray' \subseteq Stray
        <3>1. <<"pages", n>> \in Stray
            BY <2>1 DEF Stray
        <3>2. stray' = stray \/ stray' = stray \cup {<<"pages", n>>}
            BY <1>10 DEF Embed
        <3>3. QED
            BY <1>10, <2>1, <3>1, <3>2 DEF Embed, DataTypes, CallTypes
    <2>7. UNCHANGED <<extVars, tables, acl, rows, promised>>
        BY <1>10 DEF Embed
    <2>8. QED
        BY <2>5, <2>6, <2>7 DEF DataTypes, Existing, extVars
<1>11. ASSUME NEW c \in Calls, at[c] \notin {"idle", "done"},
              NEW step \in Steps \ {"idle", "done"}, Goto(c, step), UNCHANGED reply,
              NEW mine \in Local, mine.row \in Ext, my' = [my EXCEPT ![c] = mine]
       PROVE  CallTypes'
    BY <1>11, GotoType
<1>12. ASSUME NEW c \in Calls, DropCheck(c) PROVE DataTypes' /\ CallTypes'
    <2>1. CASE Registered(my[c].name)
        <3>1. my' = [my EXCEPT ![c] = my[c]] /\ my[c] \in Local /\ my[c].row \in Ext /\ at[c] \notin {"idle", "done"}
            BY <1>1, <1>12, <2>1 DEF DropCheck, DataTypes, CallTypes
        <3>2. Goto(c, "role") /\ "role" \in Steps \ {"idle", "done"} /\ UNCHANGED reply
            BY <1>12, <2>1 DEF DropCheck, Steps
        <3>3. CallTypes'
            BY <1>11, <3>1, <3>2
        <3>4. QED
            BY <1>2, <1>12, <3>3 DEF DropCheck
    <2>2. CASE ~Registered(my[c].name)
        BY <1>3, <1>12, <2>2 DEF DropCheck, Answers
    <2>3. QED
        BY <2>1, <2>2
<1>13. ASSUME NEW c \in Calls, DropRole(c) PROVE DataTypes' /\ CallTypes'
    <2> DEFINE role == my[c].name \in roles
               mine == [my[c] EXCEPT !.role = role]
    <2>1. my[c] \in Local /\ my[c].row \in Ext /\ at[c] \notin {"idle", "done"}
        BY <1>1, <1>13 DEF DropRole
    <2>2. role \in BOOLEAN
        OBVIOUS
    <2>3. /\ my' = [my EXCEPT ![c] = mine] /\ Goto(c, "pages") /\ "pages" \in Steps \ {"idle", "done"}
          /\ UNCHANGED <<reply, extVars, dataVars, ghosts>>
        BY <1>13 DEF DropRole, Steps
    <2> HIDE DEF role
    <2>4. mine \in Local /\ mine.row \in Ext
        BY <2>1, <2>2 DEF Local
    <2> HIDE DEF mine
    <2>5. QED
        BY <1>2, <1>11, <2>1, <2>3, <2>4
<1>14. ASSUME NEW c \in Calls, DropPages(c) PROVE DataTypes' /\ CallTypes'
    <2> DEFINE gone == spaces \cap PageLike[my[c].name]
               mine == [my[c] EXCEPT !.gone = gone]
    <2>1. gone \subseteq Name /\ my[c] \in Local /\ my[c].row \in Ext /\ at[c] \notin {"idle", "done"}
        BY <1>1, <1>14 DEF DropPages, DataTypes, CallTypes
    <2>2. /\ my' = [my EXCEPT ![c] = mine] /\ Goto(c, "list") /\ "list" \in Steps \ {"idle", "done"}
          /\ UNCHANGED <<reply, extVars, dataVars, ghosts>>
        BY <1>14 DEF DropPages, Steps
    <2> HIDE DEF gone
    <2>3. mine \in Local /\ mine.row \in Ext
        BY <2>1 DEF Local
    <2> HIDE DEF mine
    <2>4. QED
        BY <1>2, <1>11, <2>1, <2>2, <2>3
<1>15. ASSUME NEW c \in Calls, DropList(c) PROVE DataTypes' /\ CallTypes'
    <2> DEFINE doomed == Existing \cap Like[my[c].row.prefix]
               mine == [my[c] EXCEPT !.doomed = doomed]
    <2>1. doomed \subseteq Table /\ my[c] \in Local /\ my[c].row \in Ext /\ at[c] \notin {"idle", "done"}
        BY <1>1, <1>15 DEF DropList, Existing
    <2>2. /\ my' = [my EXCEPT ![c] = mine] /\ Goto(c, "drop") /\ "drop" \in Steps \ {"idle", "done"}
          /\ UNCHANGED <<reply, extVars, dataVars, promised>>
        BY <1>15 DEF DropList, Steps
    <2> HIDE DEF doomed
    <2>3. mine \in Local /\ mine.row \in Ext
        BY <2>1 DEF Local
    <2> HIDE DEF mine
    <2>4. CallTypes'
        BY <1>11, <2>1, <2>2, <2>3
    <2>5. stray' \subseteq Stray
        <3> DEFINE left == {<<"table", t>> : t \in {u \in Table : <<my[c].name, u>> \in acl}}
        <3>1. left \subseteq Stray
            <4>1. ASSUME NEW t \in {u \in Table : <<my[c].name, u>> \in acl} PROVE <<"table", t>> \in Stray
                BY DEF Stray
            <4>2. QED
                BY <4>1
        <3>2. stray' = stray \/ stray' = stray \cup left
            BY <1>15 DEF DropList
        <3>3. QED
            BY <3>1, <3>2 DEF DataTypes
    <2>6. QED
        BY <2>2, <2>4, <2>5 DEF DataTypes, Existing, extVars, dataVars
<1>16. ASSUME NEW c \in Calls, DropCommit(c) PROVE DataTypes' /\ CallTypes'
    <2> DEFINE n == my[c].name
    <2>1. CallTypes'
        BY <1>16, ReturnType DEF DropCommit, Answers
    <2>2. n \in Name /\ my[c].doomed \subseteq Table
        BY <1>1, <1>16 DEF DropCommit
    <2>3. /\ tables' = [t \in Table |-> IF t \in my[c].doomed THEN Nil ELSE tables[t]]
          /\ acl' = {g \in acl : g[2] \notin my[c].doomed /\ (my[c].role => g[1] # n)}
          /\ rows' = [t \in Table |-> IF t \in my[c].doomed THEN {} ELSE rows[t]]
          /\ spaces' = spaces \ my[c].gone
          /\ roles' = IF my[c].role THEN roles \ {n} ELSE roles
          /\ core' = IF my[c].role THEN [core EXCEPT ![n] = {}] ELSE core
          /\ extensions' = [extensions EXCEPT ![n] = NoExt]
          /\ UNCHANGED <<count, used, promised>>
        BY <1>16 DEF DropCommit
    <2>4. stray' \subseteq Stray
        <3>1. <<"role", n>> \in Stray
            BY <2>2 DEF Stray
        <3>2. stray' \subseteq stray \cup {<<"role", n>>}
            BY <1>16 DEF DropCommit
        <3>3. QED
            BY <3>1, <3>2 DEF DataTypes, CallTypes
    <2> HIDE DEF n
    <2>5. tables' \in [Table -> Columns \cup {Nil}] /\ rows' \in [Table -> SUBSET Writers]
        BY <2>2, <2>3 DEF DataTypes, CallTypes
    <2>6. acl' \subseteq roles' \X Existing'
        BY <2>2, <2>3 DEF DataTypes, CallTypes, Existing
    <2>7. extensions' \in [Name -> Ext \cup {NoExt}] /\ core' \in [Name -> SUBSET CoreTables] /\ roles' \subseteq Name
        BY <2>2, <2>3 DEF DataTypes, CallTypes
    <2>8. QED
        BY <2>1, <2>3, <2>4, <2>5, <2>6, <2>7 DEF DataTypes
<1>17. CASE UNCHANGED registryVars
    BY <1>17 DEF registryVars, extVars, dataVars, ghosts, callVars, DataTypes, CallTypes, CallsOK, Underway, Existing
<1>18. QED
    BY <1>4, <1>5, <1>6, <1>7, <1>8, <1>9, <1>10, <1>12, <1>13, <1>14, <1>15, <1>16, <1>17
    DEF RegistryNext, Work, Deregister

\* The invariant of the types holds in every reachable state.
LEMMA RegistryAlways == RegistrySpec => [](RegistryTypeOK /\ CallsOK)
BY InitRegistry, NextRegistry, PTL DEF RegistrySpec

\* The variables keep their types however calls interleave and fail.
THEOREM RegistryTypeCorrect == RegistrySpec => []RegistryTypeOK
BY RegistryAlways, PTL

-----------------------------------------------------------------------------
(* Roles.                                                                   *)

RolesInv == RoleMatchesRow /\ \A n \in Name : n \notin roles => core[n] = {}

\* Every step but a registration and the commit of a deregistration leaves the
\* registry as it is, and the notes about roles.
LEMMA OtherSteps ==
    ASSUME NEW c \in Calls,
           \/ \E n \in Name, tool \in Tools : Lookup(c, tool, n)
           \/ Invalid(c) \/ Fails(c) \/ Work(c)
           \/ DropCheck(c) \/ DropRole(c) \/ DropPages(c) \/ DropList(c)
    PROVE  UNCHANGED extVars /\ \A n \in Name : <<"role", n>> \in stray' <=> <<"role", n>> \in stray
<1>1. CASE UNCHANGED ghosts
    BY <1>1 DEF ghosts, Lookup, Invalid, Fails, Work, Declare, Exec, Query, Emit, Embed,
                DropCheck, DropRole, DropPages, DropList
<1>2. ASSUME NEW s \in Short, NEW cols \in Columns, Declare(c, s, cols)
      PROVE  UNCHANGED extVars /\ \A n \in Name : <<"role", n>> \in stray' <=> <<"role", n>> \in stray
    BY <1>2 DEF Declare
<1>3. ASSUME Embed(c) \/ DropList(c)
      PROVE  UNCHANGED extVars /\ \A n \in Name : <<"role", n>> \in stray' <=> <<"role", n>> \in stray
    BY <1>3 DEF Embed, DropList
<1>4. QED
    BY <1>1, <1>2, <1>3 DEF Lookup, Invalid, Fails, Work, Exec, Query, Emit, DropCheck, DropRole, DropPages

\* Every step keeps RolesInv.
LEMMA NextRoles == RegistryTypeOK /\ CallsOK /\ RolesInv /\ [RegistryNext]_registryVars => RolesInv'
<1> SUFFICES ASSUME RegistryTypeOK, CallsOK, RolesInv, [RegistryNext]_registryVars PROVE RolesInv'
    OBVIOUS
<1>1. ASSUME NEW c \in Calls, NEW n \in Name, NEW p \in Prefix, NEW q \in Policy, Register(c, n, p, q)
      PROVE  RolesInv'
    <2>1. UNCHANGED stray
        BY <1>1 DEF Register, ghosts
    <2>2. CASE UNCHANGED extVars
        BY <2>1, <2>2 DEF RolesInv, RoleMatchesRow, Registered, extVars
    <2>3. CASE Provision(n, p, q) /\ ~Registered(n)
        <3> DEFINE e == [prefix |-> p, policy |-> q, id |-> count[n] + 1]
        <3>1. e \in Ext
            BY DEF RegistryTypeOK, Ext
        <3>2. e # NoExt /\ e.policy = q
            BY <3>1, ExtIsRow
        <3> HIDE DEF e
        <3>3. /\ extensions' = [extensions EXCEPT ![n] = e] /\ roles' = roles \cup {n}
              /\ core' = [core EXCEPT ![n] = @ \cup Grants(q)]
            BY <2>3 DEF Provision, e
        <3>4. <<"role", n>> \notin stray => core[n] = {}
            BY <2>3 DEF RolesInv, RoleMatchesRow
        <3>5. ASSUME NEW m \in Name, m # n
              PROVE  extensions'[m] = extensions[m] /\ core'[m] = core[m] /\ (m \in roles' <=> m \in roles)
            BY <3>3, <3>5 DEF RegistryTypeOK
        <3>6. extensions'[n] = e /\ core'[n] = core[n] \cup Grants(q) /\ n \in roles'
            BY <3>3 DEF RegistryTypeOK
        <3>7. QED
            BY <2>1, <3>2, <3>4, <3>5, <3>6 DEF RolesInv, RoleMatchesRow, Registered
    <2>4. QED
        BY <1>1, <2>2, <2>3 DEF Register
<1>2. ASSUME NEW c \in Calls, DropCommit(c) PROVE RolesInv'
    <2> DEFINE n == my[c].name
    <2>1. n \in Name
        BY <1>2 DEF DropCommit, CallsOK, Underway, Local
    <2>2. /\ extensions' = [extensions EXCEPT ![n] = NoExt]
          /\ roles' = IF my[c].role THEN roles \ {n} ELSE roles
          /\ core' = IF my[c].role THEN [core EXCEPT ![n] = {}] ELSE core
        BY <1>2 DEF DropCommit
    <2>3. /\ n \in roles' => <<"role", n>> \in stray'
          /\ \A m \in Name \ {n} : <<"role", m>> \in stray' <=> <<"role", m>> \in stray
        BY <1>2 DEF DropCommit
    <2> HIDE DEF n
    <2>4. ASSUME NEW m \in Name, m # n
          PROVE  extensions'[m] = extensions[m] /\ core'[m] = core[m] /\ (m \in roles' <=> m \in roles)
        BY <2>1, <2>2, <2>4 DEF RegistryTypeOK
    <2>5. extensions'[n] = NoExt /\ (n \notin roles' => core'[n] = {})
        BY <2>1, <2>2 DEF RegistryTypeOK, RolesInv
    <2>6. QED
        BY <2>3, <2>4, <2>5 DEF RolesInv, RoleMatchesRow, Registered
<1>3. ASSUME UNCHANGED extVars, \A n \in Name : <<"role", n>> \in stray' <=> <<"role", n>> \in stray
      PROVE  RolesInv'
    BY <1>3 DEF RolesInv, RoleMatchesRow, Registered, extVars
<1>4. QED
    BY <1>1, <1>2, <1>3, OtherSteps DEF RegistryNext, Deregister, registryVars, ghosts

(***************************************************************************)
(* A registered extension has its role with exactly the privileges of its  *)
(* policy, and no role outlives its extension, for any number of           *)
(* extensions and calls (ext_register and ext_deregister of db.py).        *)
(***************************************************************************)
THEOREM RolesMatchRows == RegistrySpec => []RoleMatchesRow
<1>1. RegistryInit => RolesInv
    <2> SUFFICES ASSUME RegistryInit PROVE RolesInv
        OBVIOUS
    <2>1. ASSUME NEW n \in Seeded
          PROVE  n \in Name /\ extensions[n] = [prefix |-> Default[n], policy |-> {}, id |-> 1]
                 /\ core[n] = Grants({})
        BY SeedAssumption DEF RegistryInit
    <2>2. ASSUME NEW n \in Seeded PROVE Registered(n) /\ extensions[n].policy = {}
        <3> DEFINE e == [prefix |-> Default[n], policy |-> {}, id |-> 1]
        <3>1. Default[n] \in Prefix /\ {} \in Policy
            BY SeedAssumption, NamesAssumption
        <3>2. e \in Ext /\ e.policy = {}
            BY <3>1 DEF Ext
        <3>3. extensions[n] = e
            BY <2>1
        <3> HIDE DEF e
        <3>4. QED
            BY <3>2, <3>3, ExtIsRow DEF Registered
    <2>3. \A n \in Name \ Seeded : extensions[n] = NoExt /\ core[n] = {}
        BY DEF RegistryInit
    <2>4. roles = Seeded
        BY DEF RegistryInit
    <2>5. QED
        BY <2>1, <2>2, <2>3, <2>4 DEF RolesInv, RoleMatchesRow, Registered
<1>2. RolesInv => RoleMatchesRow
    BY DEF RolesInv
<1>3. QED
    BY <1>1, <1>2, NextRoles, RegistryAlways, PTL DEF RegistrySpec

-----------------------------------------------------------------------------
(* Leftovers.                                                               *)

Stained(t) == <<"table", t>> \in stray

\* The grants of a table that is no leftover are of the present registration, by
\* whose prefix a deregistration will find it; and one that has made its list
\* has it there.
GrantsInv ==
    /\ \A n \in Name, t \in Table :
          <<n, t>> \in acl => Stained(t) \/ (Registered(n) /\ t \in Like[extensions[n].prefix])
    /\ \A c \in Calls, t \in Table :
          at[c] = "drop" /\ <<my[c].name, t>> \in acl => Stained(t) \/ t \in my[c].doomed

TablesInv == \A t \in Existing : Stained(t) \/ \E n \in Name : Registered(n) /\ <<n, t>> \in acl

\* A deregistration that is past its DELETE has every page of its extension, or
\* the page is a leftover.
PagesInv ==
    /\ \A n \in spaces : Registered(n) \/ <<"pages", n>> \in stray
    /\ \A c \in Calls : /\ at[c] \in {"check", "role", "pages", "list", "drop"} => my[c].tool = "deregister"
                        /\ at[c] \in {"list", "drop"} /\ my[c].name \in spaces =>
                              my[c].name \in my[c].gone \/ <<"pages", my[c].name>> \in stray

LeftInv == GrantsInv /\ TablesInv /\ PagesInv

\* A call that ends and changes no data.
LEMMA LeftReturn ==
    ASSUME RegistryTypeOK, LeftInv, NEW c \in Calls, NEW answer, Return(c, answer),
           UNCHANGED <<dataVars, stray, extensions>>
    PROVE  LeftInv'
BY DEF LeftInv, GrantsInv, TablesInv, PagesInv, Return, Stained, Registered, Existing, dataVars, RegistryTypeOK

\* A call that goes on to a step before the list of its tables, and changes no data.
LEMMA LeftGoto ==
    ASSUME RegistryTypeOK, LeftInv, NEW c \in Calls, NEW step \in {"run", "check", "role", "pages"}, Goto(c, step),
           UNCHANGED <<dataVars, stray, extensions>>, NEW mine, my' = [my EXCEPT ![c] = mine],
           step # "run" => mine.tool = "deregister"
    PROVE  LeftInv'
BY DEF LeftInv, GrantsInv, TablesInv, PagesInv, Goto, Stained, Registered, Existing, dataVars, RegistryTypeOK

\* The declaration of table t, spelled by prefix p, for extension n.
LEMMA LeftDeclare ==
    ASSUME RegistryTypeOK, LeftInv, NEW c \in Calls, NEW n \in Name, NEW p \in Prefix, NEW t \in Like[p], t \in Table,
           NEW cols \in Columns, tables' = [tables EXCEPT ![t] = IF @ = Nil THEN cols ELSE @],
           acl' = acl \cup {<<n, t>>}, Return(c, "ok"), UNCHANGED <<extensions, spaces>>,
           stray' = stray \/ stray' = stray \cup {<<"table", t>>},
           Past(n, {"drop"}) \/ extensions[n].prefix # p => <<"table", t>> \in stray'
    PROVE  LeftInv'
<1>1. extensions[n].prefix = p => Registered(n)
    <2>1. NoExt.prefix = Nil
        BY DEF NoExt
    <2>2. QED
        BY <2>1, NamesAssumption DEF Registered
<1>2. \A u \in Table : Stained(u) => Stained(u)'
    BY DEF Stained
<1>3. Stained(t)' \/ (Registered(n)' /\ t \in Like[extensions'[n].prefix])
    BY <1>1 DEF Stained, Registered
<1>4. \A d \in Calls : at'[d] \in {"idle", "done"} \/ (at'[d] = at[d] /\ my'[d] = my[d])
    BY DEF Return, RegistryTypeOK
<1>5. ASSUME NEW d \in Calls, at'[d] = "drop", my'[d].name = n PROVE Stained(t)'
    <2>1. at[d] = "drop" /\ my[d].name = n
        BY <1>4, <1>5
    <2>2. my[d].tool = "deregister"
        BY <2>1 DEF LeftInv, PagesInv
    <2>3. QED
        BY <2>1, <2>2 DEF Past, Stained
<1>6. GrantsInv'
    <2>1. ASSUME NEW m \in Name, NEW u \in Table, <<m, u>> \in acl'
          PROVE  Stained(u)' \/ (Registered(m)' /\ u \in Like[extensions'[m].prefix])
        <3>1. CASE m = n /\ u = t
            BY <1>3, <3>1
        <3>2. CASE <<m, u>> \in acl
            BY <1>2, <3>2 DEF LeftInv, GrantsInv, Registered
        <3>3. QED
            BY <2>1, <3>1, <3>2
    <2>2. ASSUME NEW d \in Calls, NEW u \in Table, at'[d] = "drop", <<my'[d].name, u>> \in acl'
          PROVE  Stained(u)' \/ u \in my'[d].doomed
        <3>1. at[d] = "drop" /\ my'[d] = my[d]
            BY <1>4, <2>2
        <3>2. CASE my'[d].name = n /\ u = t
            BY <1>5, <2>2, <3>2
        <3>3. CASE <<my'[d].name, u>> \in acl
            BY <1>2, <3>1, <3>3 DEF LeftInv, GrantsInv
        <3>4. QED
            BY <2>2, <3>2, <3>3
    <2>3. QED
        BY <2>1, <2>2 DEF GrantsInv
<1>7. TablesInv'
    <2>1. ASSUME NEW u \in Existing' PROVE Stained(u)' \/ \E m \in Name : Registered(m)' /\ <<m, u>> \in acl'
        <3>1. CASE u = t
            BY <1>3, <3>1
        <3>2. CASE u # t
            <4>1. u \in Existing /\ u \in Table
                BY <2>1, <3>2 DEF Existing, RegistryTypeOK
            <4>2. QED
                BY <1>2, <4>1 DEF LeftInv, TablesInv, Registered
        <3>3. QED
            BY <3>1, <3>2
    <2>2. QED
        BY <2>1 DEF TablesInv
<1>8. PagesInv'
    <2>1. \A m : <<"pages", m>> \in stray => <<"pages", m>> \in stray'
        OBVIOUS
    <2>2. QED
        BY <1>4, <2>1 DEF LeftInv, PagesInv, Registered
<1>9. QED
    BY <1>6, <1>7, <1>8 DEF LeftInv

\* The DELETE of a deregistration: its extension's pages are among those it sees.
LEMMA LeftPages ==
    ASSUME RegistryTypeOK, LeftInv, NEW c \in Calls, NEW n \in Name,
           at[c] = "pages", my[c].name = n, at' = [at EXCEPT ![c] = "list"],
           NEW mine, my' = [my EXCEPT ![c] = mine], mine.name = n, mine.tool = "deregister",
           mine.gone = spaces \cap PageLike[n], UNCHANGED <<dataVars, stray, extensions>>
    PROVE  LeftInv'
<1>1. n \in PageLike[n]
    BY NamesAssumption
<1>2. at'[c] = "list" /\ my'[c] = mine /\ \A d \in Calls \ {c} : at'[d] = at[d] /\ my'[d] = my[d]
    BY DEF RegistryTypeOK
<1>3. GrantsInv'
    BY <1>2 DEF LeftInv, GrantsInv, Stained, Registered, dataVars
<1>4. TablesInv'
    BY DEF LeftInv, TablesInv, Stained, Registered, Existing, dataVars
<1>5. PagesInv'
    BY <1>1, <1>2 DEF LeftInv, PagesInv, Registered, dataVars
<1>6. QED
    BY <1>3, <1>4, <1>5 DEF LeftInv

\* Its list of tables: those of the present registration, or else all are leftovers.
LEMMA LeftList ==
    ASSUME RegistryTypeOK, LeftInv, NEW c \in Calls, NEW n \in Name, NEW p \in Prefix,
           at[c] = "list", my[c].name = n, at' = [at EXCEPT ![c] = "drop"],
           NEW mine, my' = [my EXCEPT ![c] = mine], mine.name = n, mine.tool = "deregister",
           mine.gone = my[c].gone, mine.doomed = Existing \cap Like[p],
           stray' = IF extensions[n].prefix # p
                    THEN stray \cup {<<"table", t>> : t \in {u \in Table : <<n, u>> \in acl}} ELSE stray,
           UNCHANGED <<dataVars, extensions>>
    PROVE  LeftInv'
<1>1. at'[c] = "drop" /\ my'[c] = mine /\ \A d \in Calls \ {c} : at'[d] = at[d] /\ my'[d] = my[d]
    BY DEF RegistryTypeOK
<1>2. (\A u \in Table : Stained(u) => Stained(u)') /\ \A m : <<"pages", m>> \in stray => <<"pages", m>> \in stray'
    BY DEF Stained
<1>3. ASSUME NEW t \in Table, <<n, t>> \in acl PROVE Stained(t)' \/ t \in mine.doomed
    <2>1. CASE extensions[n].prefix # p
        BY <1>3, <2>1 DEF Stained
    <2>2. CASE extensions[n].prefix = p
        <3>1. t \in Existing
            BY <1>3 DEF RegistryTypeOK
        <3>2. Stained(t) \/ t \in Like[p]
            BY <1>3, <2>2 DEF LeftInv, GrantsInv
        <3>3. QED
            BY <1>2, <3>1, <3>2
    <2>3. QED
        BY <2>1, <2>2
<1>4. GrantsInv'
    BY <1>1, <1>2, <1>3 DEF LeftInv, GrantsInv, Registered, dataVars
<1>5. TablesInv'
    BY <1>2 DEF LeftInv, TablesInv, Registered, Existing, dataVars
<1>6. PagesInv'
    BY <1>1, <1>2 DEF LeftInv, PagesInv, Registered, dataVars
<1>7. QED
    BY <1>4, <1>5, <1>6 DEF LeftInv

\* Its commit: what it leaves to its extension is a leftover already.
LEMMA LeftCommit ==
    ASSUME RegistryTypeOK, LeftInv, NEW c \in Calls, NEW n \in Name, NEW doomed, NEW gone, NEW role \in BOOLEAN,
           at[c] = "drop", my[c].name = n, my[c].doomed = doomed, my[c].gone = gone, Return(c, "ok"),
           tables' = [t \in Table |-> IF t \in doomed THEN Nil ELSE tables[t]],
           acl' = {g \in acl : g[2] \notin doomed /\ (role => g[1] # n)},
           spaces' = spaces \ gone, extensions' = [extensions EXCEPT ![n] = NoExt],
           \A t \in Table : t \notin doomed /\ Stained(t) => Stained(t)',
           \A m \in Name : m \notin gone /\ <<"pages", m>> \in stray => <<"pages", m>> \in stray'
    PROVE  LeftInv'
<1>1. \A d \in Calls : at'[d] \in {"idle", "done"} \/ (at'[d] = at[d] /\ my'[d] = my[d])
    BY DEF Return, RegistryTypeOK
<1>2. \A m \in Name \ {n} : extensions'[m] = extensions[m]
    BY DEF RegistryTypeOK
<1>3. \A m \in Name, t \in Table : <<m, t>> \in acl' <=> <<m, t>> \in acl /\ t \notin doomed /\ (role => m # n)
    BY DEF RegistryTypeOK
<1>4. \A t \in Table : <<n, t>> \in acl => Stained(t) \/ t \in doomed
    BY DEF LeftInv, GrantsInv
<1>5. ASSUME NEW m \in Name, NEW t \in Table, <<m, t>> \in acl'
      PROVE  Stained(t)' \/ (Registered(m)' /\ t \in Like[extensions'[m].prefix])
    <2>1. <<m, t>> \in acl /\ t \notin doomed
        BY <1>3, <1>5
    <2>2. Stained(t) \/ (Registered(m) /\ t \in Like[extensions[m].prefix])
        BY <2>1 DEF LeftInv, GrantsInv
    <2>3. QED
        BY <1>2, <1>4, <2>1, <2>2 DEF Registered
<1>6. ASSUME NEW d \in Calls, NEW t \in Table, at'[d] = "drop", <<my'[d].name, t>> \in acl'
      PROVE  Stained(t)' \/ t \in my'[d].doomed
    <2>1. at[d] = "drop" /\ my'[d] = my[d]
        BY <1>1, <1>6
    <2>2. <<my[d].name, t>> \in acl /\ t \notin doomed
        BY <1>6, <2>1
    <2>3. Stained(t) \/ t \in my[d].doomed
        BY <2>1, <2>2 DEF LeftInv, GrantsInv
    <2>4. QED
        BY <2>1, <2>2, <2>3
<1>7. ASSUME NEW t \in Existing' PROVE Stained(t)' \/ \E m \in Name : Registered(m)' /\ <<m, t>> \in acl'
    <2>1. t \in Existing /\ t \in Table /\ t \notin doomed
        BY <1>7 DEF Existing
    <2>2. Stained(t) \/ \E m \in Name \ {n} : Registered(m) /\ <<m, t>> \in acl
        BY <1>4, <2>1 DEF LeftInv, TablesInv
    <2>3. QED
        BY <1>2, <1>3, <2>1, <2>2 DEF Registered
<1>8. ASSUME NEW m \in spaces' PROVE Registered(m)' \/ <<"pages", m>> \in stray'
    <2>1. m \in Name /\ m \in spaces /\ m \notin gone
        BY DEF RegistryTypeOK
    <2>2. CASE m = n
        BY <2>1, <2>2 DEF LeftInv, PagesInv
    <2>3. CASE m # n
        BY <1>2, <2>1, <2>3 DEF LeftInv, PagesInv, Registered
    <2>4. QED
        BY <2>2, <2>3
<1>9. ASSUME NEW d \in Calls, at'[d] \in {"list", "drop"}, my'[d].name \in spaces'
      PROVE  my'[d].name \in my'[d].gone \/ <<"pages", my'[d].name>> \in stray'
    <2>1. at[d] \in {"list", "drop"} /\ my'[d] = my[d]
        BY <1>1, <1>9
    <2>2. my[d].name \in spaces /\ my[d].name \in Name /\ my[d].name \notin gone
        BY <1>9, <2>1 DEF RegistryTypeOK
    <2>3. QED
        BY <2>1, <2>2 DEF LeftInv, PagesInv
<1>10. \A d \in Calls : at'[d] \in {"check", "role", "pages", "list", "drop"} => my'[d].tool = "deregister"
    BY <1>1 DEF LeftInv, PagesInv
<1>11. QED
    BY <1>5, <1>6, <1>7, <1>8, <1>9, <1>10 DEF LeftInv, GrantsInv, TablesInv, PagesInv

\* Every step keeps LeftInv.
LEMMA NextLeft == RegistryTypeOK /\ CallsOK /\ LeftInv /\ [RegistryNext]_registryVars => LeftInv'
<1> SUFFICES ASSUME RegistryTypeOK, CallsOK, LeftInv, [RegistryNext]_registryVars PROVE LeftInv'
    OBVIOUS
<1>1. ASSUME NEW c \in Calls, at[c] \notin {"idle", "done"}
      PROVE  my[c] \in Local /\ my[c].row.prefix \in Prefix /\ my[c].name \in Name
    BY <1>1 DEF CallsOK, Underway, Local, Ext
<1>2. ASSUME NEW c \in Calls, NEW n \in Name, NEW tool \in Tools, Lookup(c, tool, n) PROVE LeftInv'
    <2>1. UNCHANGED <<dataVars, stray, extensions>>
        BY <1>2 DEF Lookup, ghosts, extVars
    <2>2. CASE Registered(n)
        <3> DEFINE mine == [NoLocal EXCEPT !.tool = tool, !.name = n, !.row = extensions[n]]
                   step == IF tool = "deregister" THEN "check" ELSE "run"
        <3>1. Goto(c, step) /\ my' = [my EXCEPT ![c] = mine]
            BY <1>2, <2>2 DEF Lookup, Goto
        <3>2. mine.tool = tool
            BY DEF NoLocal
        <3>3. step \in {"run", "check", "role", "pages"} /\ (step # "run" => mine.tool = "deregister")
            BY <3>2
        <3> HIDE DEF step, mine
        <3>4. QED
            BY <2>1, <3>1, <3>3, LeftGoto
    <2>3. CASE ~Registered(n)
        BY <1>2, <2>1, <2>3, LeftReturn DEF Lookup
    <2>4. QED
        BY <2>2, <2>3
<1>3. ASSUME NEW c \in Calls, Invalid(c) \/ Fails(c) \/ Emit(c) \/ Query(c) PROVE LeftInv'
    BY <1>3, LeftReturn DEF Invalid, Fails, Emit, Query, ghosts, extVars
<1>4. ASSUME NEW c \in Calls, NEW t \in Table, Exec(c, t) PROVE LeftInv'
    <2>1. UNCHANGED <<extensions, tables, acl, spaces, stray>> /\ Return(c, "ok")
        BY <1>4 DEF Exec, extVars, ghosts
    <2>2. QED
        BY <2>1 DEF LeftInv, GrantsInv, TablesInv, PagesInv, Return, Stained, Registered, Existing, RegistryTypeOK
<1>5. ASSUME NEW c \in Calls, NEW n \in Name, NEW p \in Prefix, NEW q \in Policy, Register(c, n, p, q)
      PROVE  LeftInv'
    <2>1. CASE UNCHANGED extVars
        BY <1>5, <2>1, LeftReturn DEF Register, extVars, ghosts
    <2>2. CASE Provision(n, p, q) /\ ~Registered(n)
        <3> DEFINE e == [prefix |-> p, policy |-> q, id |-> count[n] + 1]
        <3>1. e \in Ext
            BY DEF RegistryTypeOK, Ext
        <3>2. e # NoExt
            BY <3>1, ExtIsRow
        <3> HIDE DEF e
        <3>3. extensions' = [extensions EXCEPT ![n] = e]
            BY <2>2 DEF Provision, e
        <3>4. extensions'[n] = e /\ \A m \in Name \ {n} : extensions'[m] = extensions[m]
            BY <3>3 DEF RegistryTypeOK
        <3>5. \A m \in Name : Registered(m) => Registered(m)' /\ extensions'[m] = extensions[m]
            BY <2>2, <3>2, <3>4 DEF Registered
        <3>6. UNCHANGED <<dataVars, ghosts>> /\ \E answer : Return(c, answer)
            BY <1>5 DEF Register
        <3>7. GrantsInv'
            BY <3>5, <3>6 DEF LeftInv, GrantsInv, Stained, Return, dataVars, ghosts, RegistryTypeOK
        <3>8. TablesInv'
            BY <3>5, <3>6 DEF LeftInv, TablesInv, Stained, Existing, dataVars, ghosts
        <3>9. PagesInv'
            BY <3>5, <3>6 DEF LeftInv, PagesInv, Return, dataVars, ghosts, RegistryTypeOK
        <3>10. QED
            BY <3>7, <3>8, <3>9 DEF LeftInv
    <2>3. QED
        BY <1>5, <2>1, <2>2 DEF Register
<1>6. ASSUME NEW c \in Calls, NEW s \in Short, NEW cols \in Columns, Declare(c, s, cols) PROVE LeftInv'
    <2> DEFINE n == my[c].name
               p == my[c].row.prefix
               t == Full[my[c].row.prefix, s]
    <2>1. n \in Name /\ p \in Prefix
        BY <1>1, <1>6 DEF Declare
    <2>2. t \in Table /\ t \in Like[p]
        BY <2>1, NamesAssumption
    <2>3. /\ tables' = [tables EXCEPT ![t] = IF @ = Nil THEN cols ELSE @]
          /\ acl' = acl \cup {<<n, t>>} /\ Return(c, "ok") /\ UNCHANGED <<extensions, spaces>>
          /\ stray' = stray \/ stray' = stray \cup {<<"table", t>>}
          /\ Past(n, {"drop"}) \/ extensions[n].prefix # p => <<"table", t>> \in stray'
        BY <1>6 DEF Declare, extVars
    <2> HIDE DEF n, p, t
    <2>4. QED
        BY <2>1, <2>2, <2>3, LeftDeclare
<1>7. ASSUME NEW c \in Calls, Embed(c) PROVE LeftInv'
    <2> DEFINE n == my[c].name
    <2>1. n \in Name
        BY <1>1, <1>7 DEF Embed
    <2>2. /\ spaces' = spaces \cup {n} /\ UNCHANGED <<extensions, tables, acl>>
          /\ stray' = stray \/ stray' = stray \cup {<<"pages", n>>}
          /\ ~Registered(n) \/ Past(n, {"list", "drop"}) => <<"pages", n>> \in stray'
          /\ at' = [at EXCEPT ![c] = "done"]
        BY <1>7 DEF Embed, extVars
    <2>3. ASSUME NEW d \in Calls, d # c
          PROVE  /\ my'[d].tool = my[d].tool /\ my'[d].name = my[d].name /\ my'[d].doomed = my[d].doomed
                 /\ my'[d].gone = my[d].gone \ {n} /\ at'[d] = at[d]
        <3>1. my'[d] = [my[d] EXCEPT !.gone = @ \ {n}] /\ at'[d] = at[d]
            BY <1>7, <2>3 DEF Embed, RegistryTypeOK
        <3>2. my[d] \in Local \/ my[d] = NoLocal
            BY DEF RegistryTypeOK
        <3>3. QED
            BY <3>1, <3>2 DEF Local, NoLocal
    <2> HIDE DEF n
    <2>4. at'[c] = "done"
        BY <2>2 DEF RegistryTypeOK
    <2>5. \A t \in Table : Stained(t)' <=> Stained(t)
        BY <2>2 DEF Stained
    <2>6. GrantsInv'
        BY <2>2, <2>3, <2>4, <2>5 DEF LeftInv, GrantsInv, Registered
    <2>7. TablesInv'
        BY <2>2, <2>5 DEF LeftInv, TablesInv, Registered, Existing
    <2>8. ASSUME NEW m \in spaces' PROVE Registered(m)' \/ <<"pages", m>> \in stray'
        BY <2>2 DEF LeftInv, PagesInv, Registered
    <2>9. ASSUME NEW d \in Calls, at'[d] \in {"check", "role", "pages", "list", "drop"}
          PROVE  my'[d].tool = "deregister"
        BY <2>3, <2>4, <2>9 DEF LeftInv, PagesInv
    <2>10. ASSUME NEW d \in Calls, at'[d] \in {"list", "drop"}, my'[d].name \in spaces'
           PROVE  my'[d].name \in my'[d].gone \/ <<"pages", my'[d].name>> \in stray'
        <3>1. d # c /\ at[d] \in {"list", "drop"} /\ my[d].tool = "deregister"
            BY <2>3, <2>4, <2>10 DEF LeftInv, PagesInv
        <3>2. CASE my[d].name = n
            BY <2>2, <2>3, <3>1, <3>2 DEF Past
        <3>3. CASE my[d].name # n
            BY <2>2, <2>3, <2>10, <3>1, <3>3 DEF LeftInv, PagesInv
        <3>4. QED
            BY <3>2, <3>3
    <2>11. PagesInv'
        BY <2>8, <2>9, <2>10 DEF PagesInv
    <2>12. QED
        BY <2>6, <2>7, <2>11 DEF LeftInv
<1>8. ASSUME NEW c \in Calls, DropCheck(c) \/ DropRole(c) PROVE LeftInv'
    <2>1. UNCHANGED <<dataVars, stray, extensions>>
        BY <1>8 DEF DropCheck, DropRole, ghosts, extVars
    <2>2. at[c] \in {"check", "role"} /\ my[c] \in Local /\ my[c].tool = "deregister"
        BY <1>1, <1>8 DEF DropCheck, DropRole, LeftInv, PagesInv
    <2>3. ASSUME DropCheck(c), Registered(my[c].name) PROVE LeftInv'
        <3>1. Goto(c, "role") /\ my' = [my EXCEPT ![c] = my[c]]
            BY <2>3 DEF DropCheck, RegistryTypeOK
        <3>2. QED
            BY <2>1, <2>2, <3>1, LeftGoto
    <2>4. ASSUME DropCheck(c), ~Registered(my[c].name) PROVE LeftInv'
        BY <2>1, <2>4, LeftReturn DEF DropCheck
    <2>5. ASSUME DropRole(c) PROVE LeftInv'
        <3> DEFINE role == my[c].name \in roles
                   mine == [my[c] EXCEPT !.role = role]
        <3>1. Goto(c, "pages") /\ my' = [my EXCEPT ![c] = mine]
            BY <2>5 DEF DropRole
        <3> HIDE DEF role
        <3>2. mine.tool = "deregister"
            BY <2>2 DEF Local
        <3> HIDE DEF mine
        <3>3. QED
            BY <2>1, <3>1, <3>2, LeftGoto
    <2>6. QED
        BY <1>8, <2>3, <2>4, <2>5
<1>9. ASSUME NEW c \in Calls, DropPages(c) PROVE LeftInv'
    <2> DEFINE n == my[c].name
               gone == spaces \cap PageLike[my[c].name]
               mine == [my[c] EXCEPT !.gone = gone]
    <2>1. at[c] = "pages" /\ my[c] \in Local /\ n \in Name /\ my[c].tool = "deregister"
        BY <1>1, <1>9 DEF DropPages, LeftInv, PagesInv
    <2>2. at' = [at EXCEPT ![c] = "list"] /\ my' = [my EXCEPT ![c] = mine] /\ UNCHANGED <<dataVars, stray, extensions>>
        BY <1>9 DEF DropPages, Goto, ghosts, extVars
    <2>3. mine.name = n /\ mine.tool = "deregister" /\ mine.gone = spaces \cap PageLike[n]
        BY <2>1 DEF Local
    <2>4. my[c].name = n
        OBVIOUS
    <2> HIDE DEF n, mine
    <2>5. QED
        BY <2>1, <2>2, <2>3, <2>4, LeftPages
<1>10. ASSUME NEW c \in Calls, DropList(c) PROVE LeftInv'
    <2> DEFINE n == my[c].name
               p == my[c].row.prefix
               doomed == Existing \cap Like[my[c].row.prefix]
               mine == [my[c] EXCEPT !.doomed = doomed]
    <2>1. at[c] = "list" /\ my[c] \in Local /\ n \in Name /\ p \in Prefix /\ my[c].tool = "deregister"
        BY <1>1, <1>10 DEF DropList, LeftInv, PagesInv
    <2>2. /\ at' = [at EXCEPT ![c] = "drop"] /\ my' = [my EXCEPT ![c] = mine] /\ UNCHANGED <<dataVars, extensions>>
          /\ stray' = IF extensions[n].prefix # p
                      THEN stray \cup {<<"table", t>> : t \in {u \in Table : <<n, u>> \in acl}} ELSE stray
        BY <1>10 DEF DropList, Goto, extVars
    <2>3. /\ mine.name = n /\ mine.tool = "deregister"
          /\ mine.gone = my[c].gone /\ mine.doomed = Existing \cap Like[p]
        BY <2>1 DEF Local
    <2>4. my[c].name = n
        OBVIOUS
    <2> HIDE DEF n, p, mine
    <2>5. QED
        BY <2>1, <2>2, <2>3, <2>4, LeftList
<1>11. ASSUME NEW c \in Calls, DropCommit(c) PROVE LeftInv'
    <2> DEFINE n == my[c].name
               doomed == my[c].doomed
               gone == my[c].gone
               role == my[c].role
    <2>1. at[c] = "drop" /\ n \in Name /\ role \in BOOLEAN
        BY <1>1, <1>11 DEF DropCommit, Local
    <2>2. /\ tables' = [t \in Table |-> IF t \in doomed THEN Nil ELSE tables[t]]
          /\ acl' = {g \in acl : g[2] \notin doomed /\ (role => g[1] # n)}
          /\ spaces' = spaces \ gone /\ extensions' = [extensions EXCEPT ![n] = NoExt] /\ Return(c, "ok")
        BY <1>11 DEF DropCommit
    <2>3. /\ \A t \in Table : t \notin doomed /\ Stained(t) => Stained(t)'
          /\ \A m \in Name : m \notin gone /\ <<"pages", m>> \in stray => <<"pages", m>> \in stray'
        BY <1>11 DEF DropCommit, Stained
    <2>4. my[c].name = n /\ my[c].doomed = doomed /\ my[c].gone = gone
        OBVIOUS
    <2> HIDE DEF n, doomed, gone, role
    <2>5. QED
        BY <2>1, <2>2, <2>3, <2>4, LeftCommit
<1>12. CASE UNCHANGED registryVars
    BY <1>12 DEF registryVars, extVars, dataVars, ghosts, callVars, LeftInv, GrantsInv, TablesInv, PagesInv,
                 Stained, Registered, Existing
<1>13. QED
    BY <1>2, <1>3, <1>4, <1>5, <1>6, <1>7, <1>8, <1>9, <1>10, <1>11, <1>12 DEF RegistryNext, Work, Deregister

\* Nothing is left over at the start.
LEMMA InitLeft == RegistryInit => LeftInv
<1> SUFFICES ASSUME RegistryInit PROVE LeftInv
    OBVIOUS
<1>1. ASSUME NEW n \in Seeded PROVE n \in Name /\ Registered(n) /\ extensions[n].prefix = Default[n]
    <2> DEFINE e == [prefix |-> Default[n], policy |-> {}, id |-> 1]
    <2>1. Default[n] \in Prefix /\ {} \in Policy /\ n \in Name
        BY SeedAssumption, NamesAssumption
    <2>2. e \in Ext /\ e.prefix = Default[n]
        BY <2>1 DEF Ext
    <2>3. extensions[n] = e
        BY <2>1 DEF RegistryInit
    <2> HIDE DEF e
    <2>4. QED
        BY <2>1, <2>2, <2>3, ExtIsRow DEF Registered
<1>2. ASSUME NEW n \in Name, NEW t \in Table, <<n, t>> \in Granted
      PROVE  Registered(n) /\ t \in Like[extensions[n].prefix]
    <2>1. PICK m \in Seeded : <<n, t>> \in {<<m, Full[Default[m], s]>> : s \in Declared[m]}
        BY <1>2 DEF Granted
    <2>2. PICK s \in Declared[m] : n = m /\ t = Full[Default[m], s]
        BY <2>1
    <2>3. s \in Short /\ Default[m] \in Prefix
        BY <2>2, SeedAssumption, NamesAssumption
    <2>4. QED
        BY <1>1, <2>2, <2>3, NamesAssumption
<1>3. acl = Granted /\ spaces = {} /\ \A c \in Calls : at[c] = "idle"
    BY DEF RegistryInit
<1>4. GrantsInv /\ PagesInv
    BY <1>2, <1>3 DEF GrantsInv, PagesInv
<1>5. ASSUME NEW t \in Existing PROVE \E n \in Name : Registered(n) /\ <<n, t>> \in acl
    <2>1. PICK g \in Granted : g[2] = t
        BY <1>5 DEF RegistryInit, Existing
    <2>2. g[1] \in Name /\ g = <<g[1], t>>
        BY <2>1, GrantedType, SeedAssumption
    <2>3. t \in Table
        BY DEF Existing
    <2>4. QED
        BY <1>2, <1>3, <2>1, <2>2, <2>3
<1>6. QED
    BY <1>4, <1>5 DEF LeftInv, TablesInv

\* LeftInv holds in every reachable state.
LEMMA LeftAlways == RegistrySpec => []LeftInv
BY InitLeft, NextLeft, RegistryAlways, PTL DEF RegistrySpec

(***************************************************************************)
(* Nothing of an extension is left behind but what slipped in behind a     *)
(* deregistration, for any number of extensions and calls (ext_deregister  *)
(* of db.py with what runs beside it).                                     *)
(***************************************************************************)
THEOREM OnlyStraysAreLeft == RegistrySpec => []LeftoversAreStray
<1>1. RegistryTypeOK /\ LeftInv => LeftoversAreStray
    BY DEF LeftInv, TablesInv, PagesInv, Stained, LeftoversAreStray, Existing
<1>2. QED
    BY <1>1, LeftAlways, RegistryAlways, PTL

-----------------------------------------------------------------------------
(* What an extension was promised, and what is in its tables.               *)

\* A prefix that the extension was registered with matches the table.
Matched(n, t) == \E p \in used[n] : t \in Like[p]

Mine(n, t) == {x \in promised : x[1] = <<n, extensions[n].id>> /\ x[2] = t}

\* Prefixes are on record, those a call works with included, and so are the
\* numbers of registrations.
UsedInv ==
    /\ \A n \in Name : extensions[n].id <= count[n] /\ (Registered(n) => extensions[n].prefix \in used[n])
    /\ \A x \in promised : x[1][2] <= count[x[1][1]]
    /\ \A n \in Name, t \in Table : <<n, t>> \in acl => Matched(n, t)

CallInv ==
    \A c \in Calls :
        /\ at[c] \notin {"idle", "done"} => my[c].row.prefix \in used[my[c].name]
        /\ at[c] = "drop" => my[c].doomed \subseteq Like[my[c].row.prefix]

\* Who wrote to a table under a grant has or had it in its own prefix.
WritersInv ==
    \A t \in Table :
        /\ rows[t] # {} => t \in Existing
        /\ \A x \in rows[t] \ {Nil} : Matched(x[1], t)

\* DeclaredStays, and that no table is granted without a promise.
PromiseAt(n, t) ==
    Registered(n) /\ (Mine(n, t) # {} \/ <<n, t>> \in acl) =>
        \/ <<n, t>> \in acl /\ (Stained(t) \/ \E x \in Mine(n, t) : tables[t] = x[3])
        \/ Contested(n, t)

RowsAt(n, t) ==
    Registered(n) /\ <<n, t>> \in acl =>
        rows[t] \subseteq {<<n, extensions[n].id>>, Nil} \/ Stained(t) \/ Contested(n, t)

OwnInv ==
    /\ UsedInv /\ CallInv /\ WritersInv
    /\ \A n \in Name, t \in Table : PromiseAt(n, t) /\ RowsAt(n, t)

\* What another extension has been granted, or has written to, is contested.
LEMMA MatchedByOther ==
    ASSUME NEW n \in Name, NEW m \in Name \ {n}, NEW t, Matched(m, t)
    PROVE  Contested(n, t)
BY DEF Matched, Contested

\* A step that changes neither the registry nor the tables, and keeps the notes
\* about leftovers.
LEMMA OwnKept ==
    ASSUME OwnInv, UNCHANGED <<extVars, tables, acl, rows, promised>>, stray \subseteq stray', CallInv'
    PROVE  OwnInv'
<1>1. UsedInv' /\ WritersInv'
    BY DEF OwnInv, UsedInv, WritersInv, Matched, Registered, Existing, extVars
<1>2. ASSUME NEW n \in Name, NEW t \in Table PROVE PromiseAt(n, t)' /\ RowsAt(n, t)'
    <2>1. PromiseAt(n, t) /\ RowsAt(n, t)
        BY DEF OwnInv
    <2>2. Stained(t) => Stained(t)'
        BY DEF Stained
    <2>3. Mine(n, t)' = Mine(n, t) /\ (Registered(n)' <=> Registered(n)) /\ (Contested(n, t)' <=> Contested(n, t))
        BY DEF Mine, Registered, Contested, extVars
    <2>4. QED
        BY <2>1, <2>2, <2>3 DEF PromiseAt, RowsAt, extVars
<1>3. QED
    BY <1>1, <1>2 DEF OwnInv

\* Calls that end or go on to another step of the same work.
LEMMA CallKept ==
    ASSUME CallInv, \A n \in Name : used[n] \subseteq used'[n],
           \A c \in Calls : at[c] \notin {"idle", "done"} => my[c].name \in Name,
           \A c \in Calls : \/ at'[c] \in {"idle", "done"}
                            \/ /\ at[c] \notin {"idle", "done"}
                               /\ my'[c].name = my[c].name /\ my'[c].row = my[c].row
                               /\ at'[c] = "drop" => at[c] = "drop" /\ my'[c].doomed = my[c].doomed
    PROVE  CallInv'
BY DEF CallInv

\* A new registration of n: what it is granted already is left over.
LEMMA OwnRegister ==
    ASSUME RegistryTypeOK, LeftInv, OwnInv, NEW n \in Name, NEW p \in Prefix, NEW q \in Policy,
           Provision(n, p, q), ~Registered(n), UNCHANGED <<dataVars, ghosts>>, CallInv'
    PROVE  OwnInv'
<1> DEFINE e == [prefix |-> p, policy |-> q, id |-> count[n] + 1]
<1>1. count[n] \in Nat /\ e \in Ext
    BY DEF RegistryTypeOK, Ext
<1>2. e # NoExt /\ e.prefix = p /\ e.id = count[n] + 1
    BY <1>1, ExtIsRow
<1> HIDE DEF e
<1>3. extensions' = [extensions EXCEPT ![n] = e] /\ count' = [count EXCEPT ![n] = @ + 1] /\ used' = [used EXCEPT ![n] = @ \cup {p}]
    BY DEF Provision, e
<1>4. /\ extensions'[n] = e /\ count'[n] = count[n] + 1 /\ used'[n] = used[n] \cup {p}
      /\ \A m \in Name \ {n} : extensions'[m] = extensions[m] /\ count'[m] = count[m] /\ used'[m] = used[m]
    BY <1>3 DEF RegistryTypeOK
<1>5. \A m \in Name, t \in Table : Matched(m, t) => Matched(m, t)'
    BY <1>4 DEF Matched
<1>6. \A m \in Name, t \in Table : Contested(m, t) => Contested(m, t)'
    BY <1>4 DEF Contested
<1>7. UsedInv'
    <2>1. ASSUME NEW m \in Name PROVE extensions'[m].id <= count'[m] /\ (Registered(m)' => extensions'[m].prefix \in used'[m])
        <3>1. CASE m = n
            BY <1>1, <1>2, <1>4, <3>1
        <3>2. CASE m # n
            BY <1>4, <3>2 DEF OwnInv, UsedInv, Registered
        <3>3. QED
            BY <3>1, <3>2
    <2>2. ASSUME NEW x \in promised PROVE x[1][2] <= count'[x[1][1]]
        <3>1. x[1][1] \in Name /\ x[1][2] \in Nat
            BY DEF RegistryTypeOK
        <3>2. x[1][2] <= count[x[1][1]]
            BY DEF OwnInv, UsedInv
        <3>3. CASE x[1][1] = n
            BY <1>1, <1>4, <3>1, <3>2, <3>3
        <3>4. CASE x[1][1] # n
            BY <1>4, <3>1, <3>2, <3>4
        <3>5. QED
            BY <3>3, <3>4
    <2>3. QED
        BY <1>5, <2>1, <2>2 DEF UsedInv, OwnInv, dataVars, ghosts
<1>8. WritersInv'
    <2>1. \A t \in Table : \A x \in rows[t] \ {Nil} : x[1] \in Name
        BY DEF RegistryTypeOK
    <2>2. QED
        BY <1>5, <2>1 DEF OwnInv, WritersInv, Existing, dataVars
<1>9. ASSUME NEW m \in Name, NEW t \in Table PROVE PromiseAt(m, t)' /\ RowsAt(m, t)'
    <2>1. Stained(t)' <=> Stained(t)
        BY DEF Stained, ghosts
    <2>2. CASE m = n
        <3>1. Mine(m, t)' = {}
            <4>1. ASSUME NEW x \in promised, x[1] = <<n, e.id>> PROVE FALSE
                <5>1. x[1][2] <= count[n]
                    BY <4>1 DEF OwnInv, UsedInv
                <5>2. QED
                    BY <1>1, <1>2, <4>1, <5>1
            <4>2. QED
                BY <1>4, <2>2, <4>1 DEF Mine, ghosts
        <3>2. <<m, t>> \in acl => Stained(t)
            BY <2>2 DEF LeftInv, GrantsInv
        <3>3. QED
            BY <2>1, <3>1, <3>2 DEF PromiseAt, RowsAt, dataVars
    <2>3. CASE m # n
        <3>1. Mine(m, t)' = Mine(m, t) /\ (Registered(m)' <=> Registered(m)) /\ extensions'[m] = extensions[m]
            BY <1>4, <2>3 DEF Mine, Registered, ghosts
        <3>2. PromiseAt(m, t) /\ RowsAt(m, t)
            BY DEF OwnInv
        <3>3. QED
            BY <1>6, <2>1, <3>1, <3>2 DEF PromiseAt, RowsAt, dataVars
    <2>4. QED
        BY <2>2, <2>3
<1>10. QED
    BY <1>7, <1>8, <1>9 DEF OwnInv

\* A declaration: a table that is there already is in use by the extension itself, by
\* another one, or is left over.
LEMMA OwnDeclare ==
    ASSUME RegistryTypeOK, LeftInv, OwnInv, NEW c \in Calls, NEW n \in Name, NEW p \in used[n], NEW t \in Like[p], t \in Table,
           NEW cols \in Columns, tables' = [tables EXCEPT ![t] = IF @ = Nil THEN cols ELSE @],
           acl' = acl \cup {<<n, t>>}, promised' = promised \cup {<< <<n, extensions[n].id>>, t, cols>>},
           UNCHANGED <<extVars, rows>>, stray \subseteq stray', CallInv'
    PROVE  OwnInv'
<1> DEFINE new == << <<n, extensions[n].id>>, t, cols>>
<1>1. extensions[n].id <= count[n] /\ Matched(n, t)
    BY DEF OwnInv, UsedInv, Matched
<1>2. \A u \in Table : Stained(u) => Stained(u)'
    BY DEF Stained
<1>3. \A u \in Table : tables[u] # Nil => tables'[u] = tables[u]
    BY DEF RegistryTypeOK
<1>4. UsedInv'
    <2>1. \A x \in promised' : x[1][2] <= count[x[1][1]]
        BY <1>1 DEF OwnInv, UsedInv
    <2>2. QED
        BY <1>1, <2>1 DEF OwnInv, UsedInv, Matched, Registered, extVars
<1>5. WritersInv'
    BY <1>3 DEF OwnInv, WritersInv, Existing, Matched, extVars
<1>6. ASSUME NEW m \in Name, NEW u \in Table PROVE PromiseAt(m, u)' /\ RowsAt(m, u)'
    <2>1. PromiseAt(m, u) /\ RowsAt(m, u)
        BY DEF OwnInv
    <2>2. (Contested(m, u)' <=> Contested(m, u)) /\ (Registered(m)' <=> Registered(m))
        BY DEF Contested, Registered, extVars
    <2>3. Mine(m, u) \subseteq Mine(m, u)'
        BY DEF Mine, extVars
    <2>4. CASE m = n /\ u = t
        <3>1. new \in Mine(n, t)' /\ new[3] = cols
            BY DEF Mine, extVars
        <3>2. CASE tables[t] = Nil
            <4>1. tables'[t] = cols /\ rows[t] = {}
                BY <3>2 DEF OwnInv, WritersInv, Existing, RegistryTypeOK
            <4>2. QED
                BY <2>4, <3>1, <4>1 DEF PromiseAt, RowsAt
        <3>3. CASE tables[t] # Nil
            <4>1. Stained(t) \/ \E k \in Name : Registered(k) /\ <<k, t>> \in acl
                BY <3>3 DEF LeftInv, TablesInv, Existing
            <4>2. CASE Stained(t)
                BY <1>2, <2>4, <4>2 DEF PromiseAt, RowsAt
            <4>3. ASSUME NEW k \in Name \ {n}, <<k, t>> \in acl PROVE Contested(n, t)
                BY <4>3, MatchedByOther DEF OwnInv, UsedInv
            <4>4. CASE Registered(n) /\ <<n, t>> \in acl
                BY <1>2, <1>3, <2>1, <2>2, <2>3, <2>4, <3>3, <4>4 DEF PromiseAt, RowsAt, extVars
            <4>5. QED
                BY <2>2, <2>4, <4>1, <4>2, <4>3, <4>4 DEF PromiseAt, RowsAt
        <3>4. QED
            BY <3>2, <3>3
    <2>5. CASE ~(m = n /\ u = t)
        <3>1. Mine(m, u)' = Mine(m, u)
            BY <2>5 DEF Mine, extVars
        <3>2. <<m, u>> \in acl' <=> <<m, u>> \in acl
            BY <2>5
        <3>3. <<m, u>> \in acl => tables[u] # Nil
            BY DEF RegistryTypeOK, Existing
        <3>4. QED
            BY <1>2, <1>3, <2>1, <2>2, <3>1, <3>2, <3>3 DEF PromiseAt, RowsAt, extVars
    <2>6. QED
        BY <2>4, <2>5
<1>7. QED
    BY <1>4, <1>5, <1>6 DEF OwnInv

\* A statement of n that writes to t, with a grant or without.
LEMMA OwnExec ==
    ASSUME RegistryTypeOK, LeftInv, OwnInv, NEW n \in Name, NEW t \in Table, t \in Existing, NEW writer,
           writer = Nil \/ (writer = <<n, extensions[n].id>> /\ <<n, t>> \in acl),
           rows' = [rows EXCEPT ![t] = @ \cup {writer}],
           UNCHANGED <<extVars, tables, acl, ghosts>>, CallInv'
    PROVE  OwnInv'
<1>1. writer # Nil => Matched(n, t)
    BY DEF OwnInv, UsedInv
<1>2. rows'[t] = rows[t] \cup {writer} /\ \A u \in Table \ {t} : rows'[u] = rows[u]
    BY DEF RegistryTypeOK
<1>3. UsedInv'
    BY DEF OwnInv, UsedInv, Matched, Registered, extVars, ghosts
<1>4. WritersInv'
    <2>1. \A x \in rows'[t] \ {Nil} : Matched(x[1], t)
        BY <1>1, <1>2 DEF OwnInv, WritersInv
    <2>2. QED
        BY <1>2, <2>1 DEF OwnInv, WritersInv, Matched, Existing, extVars
<1>5. ASSUME NEW m \in Name, NEW u \in Table PROVE PromiseAt(m, u)' /\ RowsAt(m, u)'
    <2>1. PromiseAt(m, u) /\ RowsAt(m, u)
        BY DEF OwnInv
    <2>2. /\ (Contested(m, u)' <=> Contested(m, u)) /\ (Registered(m)' <=> Registered(m))
          /\ (Stained(u)' <=> Stained(u)) /\ Mine(m, u)' = Mine(m, u)
        BY DEF Contested, Registered, Stained, Mine, extVars, ghosts
    <2>3. u = t /\ m # n /\ writer # Nil => Contested(m, u)
        BY <1>1, MatchedByOther
    <2>4. QED
        BY <1>2, <2>1, <2>2, <2>3 DEF PromiseAt, RowsAt, extVars
<1>6. QED
    BY <1>3, <1>4, <1>5 DEF OwnInv

\* The commit of a deregistration of n: the tables it drops had a prefix of n.
LEMMA OwnCommit ==
    ASSUME RegistryTypeOK, OwnInv, NEW n \in Name, NEW p \in used[n], NEW doomed, doomed \subseteq Like[p], NEW role \in BOOLEAN,
           extensions' = [extensions EXCEPT ![n] = NoExt],
           tables' = [t \in Table |-> IF t \in doomed THEN Nil ELSE tables[t]],
           rows' = [t \in Table |-> IF t \in doomed THEN {} ELSE rows[t]],
           acl' = {g \in acl : g[2] \notin doomed /\ (role => g[1] # n)},
           \A t \in Table : t \notin doomed /\ Stained(t) => Stained(t)',
           UNCHANGED <<count, used, promised>>, CallInv'
    PROVE  OwnInv'
<1>1. extensions'[n] = NoExt /\ \A m \in Name \ {n} : extensions'[m] = extensions[m]
    BY DEF RegistryTypeOK
<1>2. \A m \in Name, t \in Table : <<m, t>> \in acl' <=> <<m, t>> \in acl /\ t \notin doomed /\ (role => m # n)
    BY DEF RegistryTypeOK
<1>3. UsedInv'
    <2>1. NoExt.id = 0 /\ \A m \in Name : count[m] \in Nat
        BY DEF NoExt, RegistryTypeOK
    <2>2. ASSUME NEW m \in Name PROVE extensions'[m].id <= count[m] /\ (Registered(m)' => extensions'[m].prefix \in used[m])
        <3>1. CASE m = n
            BY <1>1, <2>1, <3>1 DEF Registered
        <3>2. CASE m # n
            BY <1>1, <3>2 DEF OwnInv, UsedInv, Registered
        <3>3. QED
            BY <3>1, <3>2
    <2>3. QED
        BY <1>2, <2>2 DEF OwnInv, UsedInv, Matched
<1>4. WritersInv'
    BY DEF OwnInv, WritersInv, Existing, Matched
<1>5. ASSUME NEW m \in Name, NEW t \in Table PROVE PromiseAt(m, t)' /\ RowsAt(m, t)'
    <2>1. PromiseAt(m, t) /\ RowsAt(m, t)
        BY DEF OwnInv
    <2>2. CASE m = n
        BY <1>1, <2>2 DEF PromiseAt, RowsAt, Registered
    <2>3. CASE m # n
        <3>1. Contested(m, t)' <=> Contested(m, t)
            BY DEF Contested
        <3>2. (Registered(m)' <=> Registered(m)) /\ Mine(m, t)' = Mine(m, t) /\ extensions'[m] = extensions[m]
            BY <1>1, <2>3 DEF Registered, Mine
        <3>3. CASE t \in doomed
            <4>1. Contested(m, t)
                BY <2>3, <3>3, MatchedByOther DEF Matched
            <4>2. QED
                BY <3>1, <4>1 DEF PromiseAt, RowsAt
        <3>4. CASE t \notin doomed
            <4>1. tables'[t] = tables[t] /\ rows'[t] = rows[t] /\ (<<m, t>> \in acl' <=> <<m, t>> \in acl)
                BY <1>2, <2>3, <3>4
            <4>2. QED
                BY <2>1, <3>1, <3>2, <3>4, <4>1 DEF PromiseAt, RowsAt
        <3>5. QED
            BY <3>3, <3>4
    <2>4. QED
        BY <2>2, <2>3
<1>6. QED
    BY <1>3, <1>4, <1>5 DEF OwnInv

\* Every step keeps CallInv.
LEMMA NextCalls == RegistryTypeOK /\ CallsOK /\ OwnInv /\ [RegistryNext]_registryVars => CallInv'
<1> SUFFICES ASSUME RegistryTypeOK, CallsOK, OwnInv, [RegistryNext]_registryVars PROVE CallInv'
    OBVIOUS
<1>1. ASSUME NEW c \in Calls, at[c] \notin {"idle", "done"}
      PROVE  my[c] \in Local /\ my[c].row.prefix \in Prefix /\ my[c].name \in Name
    BY <1>1 DEF CallsOK, Underway, Local, Ext
<1>2. CallInv
    BY DEF OwnInv
<1>3. ASSUME NEW c \in Calls, NEW answer, Return(c, answer), \A n \in Name : used[n] \subseteq used'[n] PROVE CallInv'
    <2>1. \A d \in Calls : at'[d] = "done" \/ (at'[d] = at[d] /\ my'[d] = my[d])
        BY <1>3 DEF Return, RegistryTypeOK
    <2>2. at' \in [Calls -> Steps]
        BY <1>3 DEF Return, RegistryTypeOK, Steps
    <2>3. QED
        BY <1>1, <1>2, <1>3, <2>1, CallKept
<1>4. ASSUME NEW c \in Calls, NEW n \in Name, NEW tool \in Tools, Lookup(c, tool, n) PROVE CallInv'
    <2>1. UNCHANGED used
        BY <1>4 DEF Lookup, extVars
    <2>2. CASE Registered(n)
        <3> DEFINE mine == [NoLocal EXCEPT !.tool = tool, !.name = n, !.row = extensions[n]]
        <3>1. mine.name = n /\ mine.row = extensions[n]
            BY DEF NoLocal
        <3>2. my' = [my EXCEPT ![c] = mine] /\ at' = [at EXCEPT ![c] = IF tool = "deregister" THEN "check" ELSE "run"]
            BY <1>4, <2>2 DEF Lookup
        <3> HIDE DEF mine
        <3>3. extensions[n].prefix \in used[n]
            BY <2>2 DEF OwnInv, UsedInv
        <3>4. my'[c] = mine /\ at'[c] # "drop" /\ \A d \in Calls \ {c} : my'[d] = my[d] /\ at'[d] = at[d]
            BY <3>2 DEF RegistryTypeOK
        <3>5. QED
            BY <1>2, <2>1, <3>1, <3>3, <3>4 DEF CallInv
    <2>3. CASE ~Registered(n)
        BY <1>3, <1>4, <2>1, <2>3 DEF Lookup
    <2>4. QED
        BY <2>2, <2>3
<1>5. ASSUME NEW c \in Calls, Invalid(c) \/ Fails(c) PROVE CallInv'
    BY <1>3, <1>5 DEF Invalid, Fails, extVars
<1>6. ASSUME NEW c \in Calls, NEW n \in Name, NEW p \in Prefix, NEW q \in Policy, Register(c, n, p, q)
      PROVE  CallInv'
    <2>1. \A m \in Name : used[m] \subseteq used'[m]
        BY <1>6 DEF Register, Provision, extVars, RegistryTypeOK
    <2>2. QED
        BY <1>3, <1>6, <2>1 DEF Register
<1>7. ASSUME NEW c \in Calls, \/ \E s \in Short, cols \in Columns : Declare(c, s, cols)
                              \/ Emit(c) \/ Query(c) \/ \E t \in Table : Exec(c, t)
      PROVE  CallInv'
    BY <1>3, <1>7 DEF Declare, Exec, Query, Emit, extVars
<1>8. ASSUME NEW c \in Calls, Embed(c) PROVE CallInv'
    <2>1. ASSUME NEW d \in Calls
          PROVE  at'[d] = "done" \/ (at'[d] = at[d] /\ my'[d].name = my[d].name /\ my'[d].row = my[d].row /\ my'[d].doomed = my[d].doomed)
        <3>1. CASE d = c
            BY <1>8, <3>1 DEF Embed, RegistryTypeOK
        <3>2. CASE d # c
            <4>1. my'[d] = [my[d] EXCEPT !.gone = @ \ {my[c].name}] /\ at'[d] = at[d]
                BY <1>8, <3>2 DEF Embed, RegistryTypeOK
            <4>2. my[d] \in Local \/ my[d] = NoLocal
                BY DEF RegistryTypeOK
            <4>3. QED
                BY <4>1, <4>2 DEF Local, NoLocal
        <3>3. QED
            BY <3>1, <3>2
    <2>2. UNCHANGED used
        BY <1>8 DEF Embed, extVars
    <2>3. QED
        BY <1>1, <1>2, <2>1, <2>2, CallKept
<1>9. ASSUME NEW c \in Calls, DropCheck(c) PROVE CallInv'
    <2>1. UNCHANGED used
        BY <1>9 DEF DropCheck, extVars
    <2>2. CASE Registered(my[c].name)
        <3>1. \A d \in Calls : my'[d] = my[d] /\ (at'[d] = at[d] \/ (d = c /\ at[d] = "check" /\ at'[d] = "role"))
            BY <1>9, <2>2 DEF DropCheck, Goto, RegistryTypeOK
        <3>2. QED
            BY <1>1, <1>2, <2>1, <3>1, CallKept
    <2>3. QED
        BY <1>3, <1>9, <2>1, <2>2 DEF DropCheck
<1>10. ASSUME NEW c \in Calls, DropRole(c) \/ DropPages(c) PROVE CallInv'
    <2>1. ASSUME NEW d \in Calls
          PROVE  \/ at'[d] = at[d] /\ my'[d] = my[d]
                 \/ at[d] \in {"role", "pages"} /\ at'[d] \in {"pages", "list"} /\ my'[d].name = my[d].name /\ my'[d].row = my[d].row
        <3>1. CASE d # c
            BY <1>10, <3>1 DEF DropRole, DropPages, Goto, RegistryTypeOK
        <3>2. CASE d = c
            BY <1>1, <1>10, <3>2 DEF DropRole, DropPages, Goto, RegistryTypeOK, Local
        <3>3. QED
            BY <3>1, <3>2
    <2>2. UNCHANGED used
        BY <1>10 DEF DropRole, DropPages, extVars
    <2>3. QED
        BY <1>1, <1>2, <2>1, <2>2, CallKept
<1>11. ASSUME NEW c \in Calls, DropList(c) PROVE CallInv'
    <2> DEFINE doomed == Existing \cap Like[my[c].row.prefix]
               mine == [my[c] EXCEPT !.doomed = doomed]
    <2>1. at[c] = "list" /\ my' = [my EXCEPT ![c] = mine] /\ at' = [at EXCEPT ![c] = "drop"] /\ UNCHANGED used
        BY <1>11 DEF DropList, Goto, extVars
    <2>2. mine.name = my[c].name /\ mine.row = my[c].row /\ mine.doomed \subseteq Like[my[c].row.prefix]
        BY <1>1, <2>1 DEF Local
    <2>3. my'[c] = mine /\ at'[c] = "drop" /\ \A d \in Calls \ {c} : my'[d] = my[d] /\ at'[d] = at[d]
        BY <2>1 DEF RegistryTypeOK
    <2> HIDE DEF mine
    <2>4. QED
        BY <1>2, <2>1, <2>2, <2>3 DEF CallInv
<1>12. ASSUME NEW c \in Calls, DropCommit(c) PROVE CallInv'
    BY <1>3, <1>12 DEF DropCommit
<1>13. CASE UNCHANGED registryVars
    BY <1>2, <1>13 DEF CallInv, registryVars, extVars, callVars
<1>14. QED
    BY <1>4, <1>5, <1>6, <1>7, <1>8, <1>9, <1>10, <1>11, <1>12, <1>13 DEF RegistryNext, Work, Deregister

\* Every step keeps OwnInv.
LEMMA NextOwn == RegistryTypeOK /\ CallsOK /\ LeftInv /\ OwnInv /\ [RegistryNext]_registryVars => OwnInv'
<1> SUFFICES ASSUME RegistryTypeOK, CallsOK, LeftInv, OwnInv, [RegistryNext]_registryVars PROVE OwnInv'
    OBVIOUS
<1>1. ASSUME NEW c \in Calls, at[c] \notin {"idle", "done"}
      PROVE  my[c] \in Local /\ my[c].name \in Name /\ my[c].row.prefix \in used[my[c].name]
    BY <1>1 DEF CallsOK, Underway, Local, OwnInv, CallInv
<1>2. CallInv'
    BY NextCalls
<1>3. ASSUME NEW c \in Calls,
             \/ \E n \in Name, tool \in Tools : Lookup(c, tool, n)
             \/ Invalid(c) \/ Fails(c) \/ Emit(c) \/ Embed(c) \/ Query(c)
             \/ DropCheck(c) \/ DropRole(c) \/ DropPages(c) \/ DropList(c)
      PROVE  OwnInv'
    <2>1. UNCHANGED <<extVars, tables, acl, rows, promised>> /\ stray \subseteq stray'
        BY <1>3 DEF Lookup, Invalid, Fails, Emit, Embed, Query, DropCheck, DropRole, DropPages, DropList, dataVars, ghosts
    <2>2. QED
        BY <1>2, <2>1, OwnKept
<1>4. ASSUME NEW c \in Calls, NEW n \in Name, NEW p \in Prefix, NEW q \in Policy, Register(c, n, p, q)
      PROVE  OwnInv'
    <2>1. UNCHANGED <<dataVars, ghosts>>
        BY <1>4 DEF Register
    <2>2. CASE UNCHANGED extVars
        BY <1>2, <2>1, <2>2, OwnKept DEF dataVars, ghosts
    <2>3. CASE Provision(n, p, q) /\ ~Registered(n)
        BY <1>2, <2>1, <2>3, OwnRegister
    <2>4. QED
        BY <1>4, <2>2, <2>3 DEF Register
<1>5. ASSUME NEW c \in Calls, NEW s \in Short, NEW cols \in Columns, Declare(c, s, cols) PROVE OwnInv'
    <2> DEFINE n == my[c].name
               p == my[c].row.prefix
               t == Full[my[c].row.prefix, s]
    <2>1. n \in Name /\ p \in used[n] /\ p \in Prefix
        BY <1>1, <1>5 DEF Declare, RegistryTypeOK
    <2>2. t \in Table /\ t \in Like[p]
        BY <2>1, NamesAssumption
    <2>3. /\ tables' = [tables EXCEPT ![t] = IF @ = Nil THEN cols ELSE @]
          /\ acl' = acl \cup {<<n, t>>} /\ UNCHANGED <<extVars, rows>>
          /\ promised' = promised \cup {<< <<n, extensions[n].id>>, t, cols>>} /\ stray \subseteq stray'
        BY <1>5 DEF Declare
    <2> HIDE DEF n, p, t
    <2>4. QED
        BY <1>2, <2>1, <2>2, <2>3, OwnDeclare
<1>6. ASSUME NEW c \in Calls, NEW t \in Table, Exec(c, t) PROVE OwnInv'
    <2> DEFINE n == my[c].name
    <2>1. n \in Name
        BY <1>1, <1>6 DEF Exec
    <2> DEFINE writer == IF <<n, t>> \in acl THEN <<n, extensions[n].id>> ELSE Nil
    <2>2. /\ t \in Existing /\ rows' = [rows EXCEPT ![t] = @ \cup {writer}]
          /\ UNCHANGED <<extVars, tables, acl, ghosts>>
          /\ writer = Nil \/ (writer = <<n, extensions[n].id>> /\ <<n, t>> \in acl)
        BY <1>6 DEF Exec
    <2> HIDE DEF n, writer
    <2>3. QED
        BY <1>2, <2>1, <2>2, OwnExec
<1>7. ASSUME NEW c \in Calls, DropCommit(c) PROVE OwnInv'
    <2> DEFINE n == my[c].name
               p == my[c].row.prefix
               doomed == my[c].doomed
               role == my[c].role
    <2>1. n \in Name /\ p \in used[n] /\ doomed \subseteq Like[p] /\ role \in BOOLEAN
        BY <1>1, <1>7 DEF DropCommit, Local, OwnInv, CallInv
    <2>2. /\ extensions' = [extensions EXCEPT ![n] = NoExt]
          /\ tables' = [t \in Table |-> IF t \in doomed THEN Nil ELSE tables[t]]
          /\ rows' = [t \in Table |-> IF t \in doomed THEN {} ELSE rows[t]]
          /\ acl' = {g \in acl : g[2] \notin doomed /\ (role => g[1] # n)}
          /\ UNCHANGED <<count, used, promised>>
        BY <1>7 DEF DropCommit
    <2>3. \A t \in Table : t \notin doomed /\ Stained(t) => Stained(t)'
        BY <1>7 DEF DropCommit, Stained
    <2> HIDE DEF n, p, doomed, role
    <2>4. QED
        BY <1>2, <2>1, <2>2, <2>3, OwnCommit
<1>8. CASE UNCHANGED registryVars
    BY <1>2, <1>8, OwnKept DEF registryVars, dataVars, ghosts
<1>9. QED
    BY <1>3, <1>4, <1>5, <1>6, <1>7, <1>8 DEF RegistryNext, Work, Deregister

\* The seeded extensions have declared and filled their tables.
LEMMA InitOwn == RegistryInit => OwnInv
<1> SUFFICES ASSUME RegistryInit PROVE OwnInv
    OBVIOUS
<1>1. ASSUME NEW n \in Seeded
      PROVE  n \in Name /\ Default[n] \in Prefix /\ extensions[n].prefix = Default[n] /\ extensions[n].id = 1
             /\ count[n] = 1 /\ used[n] = {Default[n]}
    BY <1>1, SeedAssumption, NamesAssumption DEF RegistryInit
<1>2. ASSUME NEW n \in Name \ Seeded
      PROVE  ~Registered(n) /\ extensions[n].id = 0 /\ count[n] = 0
    BY <1>2 DEF RegistryInit, Registered, NoExt
<1>3. ASSUME NEW g \in Granted PROVE g[1] \in Seeded /\ g[2] \in Table /\ g = <<g[1], g[2]>> /\ Matched(g[1], g[2])
    <2>1. PICK m \in Seeded : g \in {<<m, Full[Default[m], s]>> : s \in Declared[m]}
        BY <1>3 DEF Granted
    <2>2. PICK s \in Declared[m] : g = <<m, Full[Default[m], s]>>
        BY <2>1
    <2>3. s \in Short /\ Default[m] \in Prefix
        BY SeedAssumption, NamesAssumption
    <2>4. Full[Default[m], s] \in Like[Default[m]] /\ Full[Default[m], s] \in Table
        BY <2>3, NamesAssumption
    <2>5. QED
        BY <1>1, <2>2, <2>4 DEF Matched
<1>4. /\ acl = Granted /\ promised = {<< <<g[1], 1>>, g[2], SeedColumns>> : g \in Granted}
      /\ tables = [t \in Table |-> IF \E g \in Granted : g[2] = t THEN SeedColumns ELSE Nil]
      /\ rows = [t \in Table |-> {<<n, 1>> : n \in {m \in Name : <<m, t>> \in Granted}}]
      /\ \A c \in Calls : at[c] = "idle"
    BY DEF RegistryInit
<1>5. UsedInv
    <2>1. ASSUME NEW n \in Name PROVE extensions[n].id <= count[n] /\ (Registered(n) => extensions[n].prefix \in used[n])
        BY <1>1, <1>2
    <2>2. ASSUME NEW x \in promised PROVE x[1][2] <= count[x[1][1]]
        BY <1>1, <1>3, <1>4
    <2>3. QED
        BY <1>3, <1>4, <2>1, <2>2 DEF UsedInv
<1>6. CallInv
    BY <1>4 DEF CallInv
<1>7. WritersInv
    <2>1. ASSUME NEW t \in Table, NEW x \in rows[t] PROVE Matched(x[1], t) /\ t \in Existing
        <3>1. PICK n \in Name : x = <<n, 1>> /\ <<n, t>> \in Granted
            BY <1>4, <2>1
        <3>2. tables[t] # Nil
            BY <1>4, <3>1, SeedAssumption
        <3>3. QED
            BY <1>3, <3>1, <3>2 DEF Existing
    <2>2. QED
        BY <2>1 DEF WritersInv
<1>8. ASSUME NEW n \in Name, NEW t \in Table PROVE PromiseAt(n, t) /\ RowsAt(n, t)
    <2>1. CASE n \notin Seeded
        BY <1>2, <2>1 DEF PromiseAt, RowsAt
    <2>2. CASE n \in Seeded
        <3>1. Mine(n, t) # {} => <<n, t>> \in acl
            BY <1>1, <1>3, <1>4, <2>2 DEF Mine
        <3>2. ASSUME <<n, t>> \in acl PROVE tables[t] = SeedColumns /\ << <<n, 1>>, t, SeedColumns>> \in Mine(n, t)
            BY <1>1, <1>4, <2>2, <3>2 DEF Mine
        <3>3. PromiseAt(n, t)
            <4>1. \A x : x = << <<n, 1>>, t, SeedColumns>> => x[3] = SeedColumns
                OBVIOUS
            <4>2. QED
                BY <3>1, <3>2, <4>1 DEF PromiseAt
        <3>4. ASSUME NEW m \in Name \ {n}, <<m, t>> \in Granted PROVE Contested(n, t)
            BY <1>3, <3>4, MatchedByOther
        <3>5. RowsAt(n, t)
            BY <1>1, <1>4, <2>2, <3>4 DEF RowsAt
        <3>6. QED
            BY <3>3, <3>5
    <2>3. QED
        BY <2>1, <2>2
<1>9. QED
    BY <1>5, <1>6, <1>7, <1>8 DEF OwnInv

\* OwnInv holds in every reachable state.
LEMMA OwnAlways == RegistrySpec => []OwnInv
BY InitOwn, NextOwn, LeftAlways, RegistryAlways, PTL DEF RegistrySpec

(***************************************************************************)
(* A declared table stays granted, with columns that were declared, as     *)
(* long as the registration lasts, against any interleaving of calls of    *)
(* any extensions whose prefixes do not match it (ext_create_table,        *)
(* ext_register and ext_deregister of db.py).                              *)
(***************************************************************************)
THEOREM PromisesAreKept == RegistrySpec => []DeclaredStays
<1>1. OwnInv => DeclaredStays
    BY DEF OwnInv, PromiseAt, Mine, Stained, DeclaredStays
<1>2. QED
    BY <1>1, OwnAlways, PTL

(***************************************************************************)
(* What an extension reads in its tables was written under its present     *)
(* registration or by a statement of ext.exec without a grant on the       *)
(* table, unless the table is a leftover or matched by a prefix of another *)
(* extension: no former registration shows through (ext_exec_as_role,      *)
(* ext_create_table and what ext_deregister drops).                        *)
(***************************************************************************)
THEOREM RowsStayApart == RegistrySpec => []RowsAreOwn
<1>1. OwnInv => RowsAreOwn
    BY DEF OwnInv, RowsAt, Stained, RowsAreOwn
<1>2. QED
    BY <1>1, OwnAlways, PTL

-----------------------------------------------------------------------------
(* Calls one after the other.                                               *)

Running(c) == at[c] \notin {"idle", "done"}

\* A call takes a step only while no other is under way.
Undisturbed == \A c \in Calls : at'[c] # at[c] => \A d \in Calls \ {c} : ~Running(d)

\* Nothing went astray, and the one call under way knows the registry as it is.
SerialInv ==
    /\ stray = {}
    /\ \A c, d \in Calls : Running(c) /\ Running(d) => c = d
    /\ \A c \in Calls : Running(c) =>
          /\ Registered(my[c].name) /\ my[c].row = extensions[my[c].name]
          /\ at[c] \in {"pages", "list", "drop"} => my[c].role

\* Every step changes where its call is, and no other.
LEMMA StepsMove ==
    ASSUME RegistryTypeOK, NEW c \in Calls,
           \/ \E n \in Name, tool \in Tools : Lookup(c, tool, n)
           \/ \E n \in Name, p \in Prefix, q \in Policy : Register(c, n, p, q)
           \/ Invalid(c) \/ Fails(c) \/ Work(c) \/ Deregister(c)
    PROVE  at'[c] # at[c] /\ \A d \in Calls \ {c} : at'[d] = at[d]
<1>1. at \in [Calls -> Steps]
    BY TypeParts DEF RegistryTypeOK, Steps
<1>2. ASSUME NEW answer, Return(c, answer), at[c] # "done" PROVE at'[c] # at[c] /\ \A d \in Calls \ {c} : at'[d] = at[d]
    BY <1>1, <1>2 DEF Return
<1>3. ASSUME NEW n \in Name, NEW tool \in Tools, Lookup(c, tool, n) PROVE at'[c] # at[c] /\ \A d \in Calls \ {c} : at'[d] = at[d]
    BY <1>1, <1>2, <1>3 DEF Lookup
<1>4. ASSUME NEW n \in Name, NEW p \in Prefix, NEW q \in Policy, Register(c, n, p, q)
      PROVE  at'[c] # at[c] /\ \A d \in Calls \ {c} : at'[d] = at[d]
    BY <1>2, <1>4 DEF Register
<1>5. CASE Invalid(c) \/ Fails(c)
    BY <1>2, <1>5 DEF Invalid, Fails
<1>6. CASE Work(c)
    <2>1. CASE Embed(c)
        BY <1>1, <2>1 DEF Embed
    <2>2. CASE Emit(c) \/ Query(c) \/ (\E t \in Table : Exec(c, t)) \/ \E s \in Short, cols \in Columns : Declare(c, s, cols)
        BY <1>2, <2>2 DEF Emit, Exec, Query, Declare
    <2>3. QED
        BY <1>6, <2>1, <2>2 DEF Work
<1>7. CASE DropCheck(c) \/ DropRole(c) \/ DropPages(c) \/ DropList(c) \/ DropCommit(c)
    BY <1>1, <1>2, <1>7 DEF DropCheck, DropRole, DropPages, DropList, DropCommit, Goto
<1>8. QED
    BY <1>3, <1>4, <1>5, <1>6, <1>7 DEF Deregister

\* Every undisturbed step keeps SerialInv.
LEMMA NextSerial ==
    ASSUME RegistryTypeOK, CallsOK, LeftInv, RoleMatchesRow, SerialInv, RegistryNext, Undisturbed
    PROVE  SerialInv'
<1>1. PICK c \in Calls :
           \/ \E n \in Name, tool \in Tools : Lookup(c, tool, n)
           \/ \E n \in Name, p \in Prefix, q \in Policy : Register(c, n, p, q)
           \/ Invalid(c) \/ Fails(c) \/ Work(c) \/ Deregister(c)
    BY DEF RegistryNext
<1>2. \A d \in Calls \ {c} : ~Running(d) /\ ~Running(d)'
    BY <1>1, StepsMove DEF Undisturbed, Running
<1>3. ASSUME /\ stray' = {}
             /\ Running(c)' => /\ Registered(my[c].name)' /\ my'[c].row = extensions'[my'[c].name]
                               /\ at'[c] \in {"pages", "list", "drop"} => my'[c].role
      PROVE  SerialInv'
    BY <1>2, <1>3 DEF SerialInv
<1>4. /\ at \in [Calls -> Steps] /\ my \in [Calls -> Local \cup {NoLocal}] /\ stray = {}
      /\ \A n : ~Past(n, {"drop"}) \/ at[c] = "drop"
      /\ \A n : ~Past(n, {"list", "drop"}) \/ at[c] \in {"list", "drop"}
    BY <1>2 DEF RegistryTypeOK, Steps, SerialInv, Past, Running
<1>5. Running(c) => /\ my[c] \in Local /\ my[c].name \in Name
                    /\ Registered(my[c].name) /\ my[c].row = extensions[my[c].name]
                    /\ at[c] \in {"pages", "list", "drop"} => my[c].role
    BY DEF CallsOK, Underway, Running, SerialInv, Local
<1>6. ASSUME NEW answer, Return(c, answer), UNCHANGED ghosts
      PROVE  stray' = {} /\ ~Running(c)'
    BY <1>4, <1>6 DEF Return, ghosts, Running
<1>7. ASSUME NEW n \in Name, NEW tool \in Tools, Lookup(c, tool, n) PROVE SerialInv'
    <2>1. CASE Registered(n)
        <3>1. /\ my'[c] = [NoLocal EXCEPT !.tool = tool, !.name = n, !.row = extensions[n]]
              /\ at'[c] \in {"check", "run"} /\ UNCHANGED <<stray, extensions>>
            BY <1>4, <1>7, <2>1 DEF Lookup, extVars, ghosts
        <3>2. my'[c].name = n /\ my'[c].row = extensions[n]
            BY <3>1 DEF NoLocal
        <3>3. QED
            BY <1>3, <1>4, <2>1, <3>1, <3>2 DEF Registered
    <2>2. CASE ~Registered(n)
        BY <1>3, <1>6, <1>7, <2>2 DEF Lookup
    <2>3. QED
        BY <2>1, <2>2
<1>8. ASSUME NEW n \in Name, NEW p \in Prefix, NEW q \in Policy, Register(c, n, p, q) PROVE SerialInv'
    BY <1>3, <1>6, <1>8 DEF Register
<1>9. CASE Invalid(c) \/ Fails(c) \/ Emit(c) \/ Query(c) \/ \E t \in Table : Exec(c, t)
    BY <1>3, <1>6, <1>9 DEF Invalid, Fails, Emit, Exec, Query
<1>10. ASSUME NEW s \in Short, NEW cols \in Columns, Declare(c, s, cols) PROVE SerialInv'
    <2>1. at[c] = "run" /\ ~Past(my[c].name, {"drop"}) /\ extensions[my[c].name].prefix = my[c].row.prefix
        BY <1>4, <1>5, <1>10 DEF Declare, Running
    <2>2. stray' = stray /\ at'[c] = "done"
        BY <1>4, <1>10, <2>1 DEF Declare, Return
    <2>3. QED
        BY <1>3, <1>4, <2>2 DEF Running
<1>11. CASE Embed(c)
    <2>1. at[c] = "run" /\ ~Past(my[c].name, {"list", "drop"}) /\ Registered(my[c].name)
        BY <1>4, <1>5, <1>11 DEF Embed, Running
    <2>2. stray' = stray /\ at'[c] = "done"
        BY <1>4, <1>11, <2>1 DEF Embed
    <2>3. QED
        BY <1>3, <1>4, <2>2 DEF Running
<1>12. CASE DropCheck(c)
    <2>1. Running(c)
        BY <1>12 DEF DropCheck, Running
    <2>2. at'[c] = "role" /\ UNCHANGED <<my, extensions, stray>>
        BY <1>4, <1>5, <1>12, <2>1 DEF DropCheck, Goto, extVars, ghosts
    <2>3. QED
        BY <1>3, <1>4, <1>5, <2>1, <2>2 DEF Registered
<1>13. CASE DropRole(c)
    <2>1. Running(c) /\ my' = [my EXCEPT ![c].role = my[c].name \in roles] /\ UNCHANGED <<extensions, stray>>
        BY <1>13 DEF DropRole, Running, extVars, ghosts
    <2>2. my[c].name \in roles
        BY <1>5, <2>1 DEF RoleMatchesRow
    <2>3. my'[c] = [my[c] EXCEPT !.role = TRUE]
        BY <1>4, <2>1, <2>2
    <2>4. my'[c].name = my[c].name /\ my'[c].row = my[c].row /\ my'[c].role
        BY <1>5, <2>1, <2>3 DEF Local
    <2>5. QED
        BY <1>3, <1>4, <1>5, <2>1, <2>4 DEF Registered
<1>14. CASE DropPages(c)
    <2>1. /\ Running(c) /\ at[c] = "pages" /\ UNCHANGED <<extensions, stray>>
          /\ my' = [my EXCEPT ![c].gone = spaces \cap PageLike[my[c].name]]
        BY <1>14 DEF DropPages, Running, extVars, ghosts
    <2>2. my'[c].name = my[c].name /\ my'[c].row = my[c].row /\ my'[c].role = my[c].role
        BY <1>4, <1>5, <2>1 DEF Local
    <2>3. QED
        BY <1>3, <1>4, <1>5, <2>1, <2>2 DEF Registered
<1>15. CASE DropList(c)
    <2>1. /\ Running(c) /\ at[c] = "list" /\ UNCHANGED extensions
          /\ my' = [my EXCEPT ![c].doomed = Existing \cap Like[my[c].row.prefix]]
        BY <1>15 DEF DropList, Running, extVars
    <2>2. stray' = stray
        BY <1>5, <1>15, <2>1 DEF DropList
    <2>3. my'[c].name = my[c].name /\ my'[c].row = my[c].row /\ my'[c].role = my[c].role
        BY <1>4, <1>5, <2>1 DEF Local
    <2>4. QED
        BY <1>3, <1>4, <1>5, <2>1, <2>2, <2>3 DEF Registered
<1>16. CASE DropCommit(c)
    <2>1. Running(c) /\ my[c].role
        BY <1>5, <1>16 DEF DropCommit, Running
    <2>2. my[c].name \notin roles'
        BY <1>16, <2>1 DEF DropCommit
    <2>3. stray' = {} /\ at'[c] = "done"
        BY <1>4, <1>16, <2>2 DEF DropCommit, Return
    <2>4. QED
        BY <1>3, <2>3 DEF Running
<1>17. QED
    BY <1>1, <1>7, <1>8, <1>9, <1>10, <1>11, <1>12, <1>13, <1>14, <1>15, <1>16 DEF Work, Deregister

\* What belongs to an extension is there exactly as long as its registration.
NothingLeft ==
    /\ \A t \in Existing : \E n \in Name : Registered(n) /\ <<n, t>> \in acl
    /\ \A n \in spaces : Registered(n)
    /\ \A n \in Name : n \in roles <=> Registered(n)

(***************************************************************************)
(* Every leftover of the registry comes from calls that overlap: if each   *)
(* call is over before the next one starts, tables, pages and roles are    *)
(* those of registered extensions, whatever is registered, declared,       *)
(* embedded, refused, failed and deregistered in whatever order            *)
(* (ext_deregister of db.py leaves nothing behind by itself).              *)
(***************************************************************************)
THEOREM SerialCallsLeaveNothing == RegistrySpec /\ [][Undisturbed]_registryVars => []NothingLeft
<1>1. RegistryInit => SerialInv
    BY DEF RegistryInit, SerialInv, Running
<1>2. RegistryTypeOK /\ CallsOK /\ LeftInv /\ RoleMatchesRow /\ SerialInv /\
      [RegistryNext]_registryVars /\ [Undisturbed]_registryVars => SerialInv'
    <2> SUFFICES ASSUME RegistryTypeOK, CallsOK, LeftInv, RoleMatchesRow, SerialInv,
                        [RegistryNext]_registryVars, [Undisturbed]_registryVars
                 PROVE  SerialInv'
        OBVIOUS
    <2>1. CASE UNCHANGED registryVars
        <3>1. UNCHANGED <<extensions, stray, at, my>>
            BY <2>1 DEF registryVars, extVars, ghosts, callVars
        <3>2. QED
            BY <3>1 DEF SerialInv, Running, Registered
    <2>2. CASE RegistryNext /\ Undisturbed
        BY <2>2, NextSerial
    <2>3. QED
        BY <2>1, <2>2
<1>3. SerialInv /\ LeftoversAreStray /\ RoleMatchesRow => NothingLeft
    BY DEF SerialInv, LeftoversAreStray, RoleMatchesRow, NothingLeft
<1>4. QED
    BY <1>1, <1>2, <1>3, RegistryAlways, LeftAlways, RolesMatchRows, OnlyStraysAreLeft, PTL DEF RegistrySpec

================================================================================
