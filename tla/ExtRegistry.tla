------------------------------ MODULE ExtRegistry ------------------------------
(***************************************************************************)
(* The extension registry of the master: the ext.* handlers of             *)
(* src/vaultmcp/master/tools.py and the methods of db.py behind them.      *)
(*                                                                         *)
(* A call looks its extension up on one connection and then works on       *)
(* another, in one transaction.  A registration, the declaration of a      *)
(* table and a statement run under an extension's role take effect at      *)
(* their commit.  A deregistration goes statement by statement, because    *)
(* each of them sees what others have committed by then (READ COMMITTED).  *)
(*                                                                         *)
(* A role is named by its extension (role_name_for is injective).  What    *)
(* the names of tables and pages are matters only to LIKE patterns, in     *)
(* which the "_" of a name is a wildcard: Full, Like and PageLike say      *)
(* which names are spelled and matched.  The text of ext.exec is modelled  *)
(* as a write to some table of an extension; text that changes tables,     *)
(* grants or roles is not an input of the model.                           *)
(***************************************************************************)
EXTENDS Naturals, Sequences

CONSTANTS
    Name,     \* extension names
    Prefix,   \* what a client may send as schema_prefix
    Reserved, \* those that start with "ext_" and end with "_"
    Default,  \* the prefix ext_<name>_ of each name
    Short,    \* table names as declared
    Table,    \* full table names
    Full,     \* the full name that a prefix and a short name spell
    Like,     \* the tables that LIKE '<prefix>%' matches
    PageLike, \* the names whose pages LIKE 'ext/<name>/%' matches
    Policy,   \* policies: the sets of flags that are on
    Columns,  \* column lists as declared
    Seeded,   \* the extensions registered at the start, by default prefix
    Declared, \* the tables each of them has declared and written to, by short name
    SeedColumns, \* with these columns
    Calls,    \* tool calls
    Nil

ASSUME NamesAssumption ==
    /\ Reserved \subseteq Prefix /\ Nil \notin Prefix
    /\ Default \in [Name -> Reserved]
    /\ Full \in [Prefix \X Short -> Table]
    /\ Like \in [Prefix -> SUBSET Table]
    /\ PageLike \in [Name -> SUBSET Name]
    /\ \A p \in Prefix, s \in Short : Full[p, s] \in Like[p]
    /\ \A n \in Name : n \in PageLike[n]

ASSUME SeedAssumption ==
    /\ Seeded \subseteq Name /\ {} \in Policy
    /\ Declared \in [Seeded -> SUBSET Short] /\ SeedColumns \in Columns /\ Nil \notin Columns
    /\ \A m, n \in Seeded : Default[m] = Default[n] => m = n

(***************************************************************************)
(* grants_for_policy: the core tables a role may use.                       *)
(***************************************************************************)
Grants(q) ==
    {"extensions"}
    \cup (IF "can_read_pages" \in q THEN {"pages"} ELSE {})
    \cup (IF "can_read_audit" \in q THEN {"audit"} ELSE {})
    \cup (IF "can_use_embeddings" \in q THEN {"embeddings", "embedding_jobs"} ELSE {})
    \cup (IF "can_subscribe_events" \in q THEN {"events"} ELSE {})

CoreTables == {"extensions", "pages", "audit", "embeddings", "embedding_jobs", "events"}

\* EXT_COLUMN_TYPES, of which the model needs no more than a few.
ColumnTypes == {"text", "int", "timestamptz"}

\* What build_create_table_sql asks of a column list.  refs tells whether there
\* is a REFERENCES clause and whether it has the form table(column).
ValidColumns(cols) ==
    /\ cols # <<>>
    /\ \A i, j \in DOMAIN cols :
          cols[i].name = cols[j].name \/ (cols[i].key /\ cols[j].key) => i = j
    /\ \A i \in DOMAIN cols : cols[i].type \in ColumnTypes /\ cols[i].refs \in {"none", "formed"}

VARIABLES
    extensions, \* the rows of extensions
    roles,      \* the extensions that have a role in pg_roles
    core,       \* the privileges of each role on the core tables
    tables,     \* the tables of extensions, each with its columns
    acl,        \* <<extension, table>>: full DML granted to its role
    rows,       \* the registrations whose statements wrote to a table, Nil for
                \* statements that had no grant on it
    spaces,     \* the extensions that have pages under ext/<name>/
    count,      \* history: how often each extension was registered
    used,       \* history: the prefixes it was registered with
    promised,   \* history: <<registration, table, columns>> declared while it lasted
    stray,      \* history: what was made or kept behind a deregistration
    at,         \* where each call is
    my,         \* its arguments and local values
    reply       \* what its caller was told

extVars == <<extensions, roles, core, count, used>>
dataVars == <<tables, acl, rows, spaces>>
ghosts == <<promised, stray>>
callVars == <<at, my, reply>>
registryVars == <<extVars, dataVars, ghosts, callVars>>

NoExt == [prefix |-> Nil, policy |-> {}, id |-> 0]

Ext == [prefix : Prefix, policy : Policy, id : Nat \ {0}]

Registered(n) == extensions[n] # NoExt

Existing == {t \in Table : tables[t] # Nil}

Tools == {"declare", "exec", "query", "emit", "embed", "deregister"}

\* row is what ext_get returned, role whether pg_roles had the role, gone and
\* doomed are the pages and tables a deregistration deletes.
Local == [tool : Tools, name : Name, row : Ext \cup {NoExt}, role : BOOLEAN,
          gone : SUBSET Name, doomed : SUBSET Table]

NoLocal == [tool |-> Nil, name |-> Nil, row |-> NoExt, role |-> FALSE, gone |-> {}, doomed |-> {}]

Stray == ({"table"} \X Table) \cup ({"pages", "role"} \X Name)

RegistryTypeOK ==
    /\ extensions \in [Name -> Ext \cup {NoExt}]
    /\ roles \subseteq Name
    /\ core \in [Name -> SUBSET CoreTables]
    /\ tables \in [Table -> Columns \cup {Nil}]
    /\ acl \subseteq roles \X Existing
    /\ rows \in [Table -> SUBSET ((Name \X Nat) \cup {Nil})]
    /\ spaces \subseteq Name
    /\ count \in [Name -> Nat]
    /\ used \in [Name -> SUBSET Prefix]
    /\ promised \subseteq (Name \X Nat) \X Table \X Columns
    /\ stray \subseteq Stray
    /\ at \in [Calls -> {"idle", "run", "check", "role", "pages", "list", "drop", "done"}]
    /\ my \in [Calls -> Local \cup {NoLocal}]
    /\ reply \in [Calls -> {Nil, "ok", "nothing", "invalid", "notfound", "failed"}]

\* The tables of the start, each with its extension.
Granted == UNION {{<<n, Full[Default[n], s]>> : s \in Declared[n]} : n \in Seeded}

RegistryInit ==
    /\ extensions = [n \in Name |->
          IF n \in Seeded THEN [prefix |-> Default[n], policy |-> {}, id |-> 1] ELSE NoExt]
    /\ roles = Seeded
    /\ core = [n \in Name |-> IF n \in Seeded THEN Grants({}) ELSE {}]
    /\ tables = [t \in Table |-> IF \E g \in Granted : g[2] = t THEN SeedColumns ELSE Nil]
    /\ acl = Granted /\ spaces = {}
    /\ rows = [t \in Table |-> {<<n, 1>> : n \in {m \in Name : <<m, t>> \in Granted}}]
    /\ count = [n \in Name |-> IF n \in Seeded THEN 1 ELSE 0]
    /\ used = [n \in Name |-> IF n \in Seeded THEN {Default[n]} ELSE {}]
    /\ promised = {<< <<g[1], 1>>, g[2], SeedColumns>> : g \in Granted} /\ stray = {}
    /\ at = [c \in Calls |-> "idle"]
    /\ my = [c \in Calls |-> NoLocal]
    /\ reply = [c \in Calls |-> Nil]

-----------------------------------------------------------------------------
(* The start and the end of a call.                                         *)

Return(c, answer) ==
    /\ at' = [at EXCEPT ![c] = "done"]
    /\ my' = [my EXCEPT ![c] = NoLocal]
    /\ reply' = [reply EXCEPT ![c] = answer]

\* ext_get.  An unknown extension is an error for every tool but deregister,
\* which reports that there was nothing to do.
Lookup(c, tool, n) ==
    /\ at[c] = "idle"
    /\ IF Registered(n)
       THEN /\ at' = [at EXCEPT ![c] = IF tool = "deregister" THEN "check" ELSE "run"]
            /\ my' = [my EXCEPT ![c] = [NoLocal EXCEPT !.tool = tool, !.name = n, !.row = extensions[n]]]
            /\ UNCHANGED reply
       ELSE Return(c, IF tool = "deregister" THEN "nothing" ELSE "notfound")
    /\ UNCHANGED <<extVars, dataVars, ghosts>>

\* A check before the transaction refuses the arguments: a column list, a
\* keyword that writes in ext.query, a rel_path under ext/.
Invalid(c) ==
    /\ at[c] = "run"
    /\ \/ my[c].tool = "declare" /\ \E cols \in Columns : ~ValidColumns(cols)
       \/ my[c].tool \in {"query", "embed"}
    /\ Return(c, "invalid")
    /\ UNCHANGED <<extVars, dataVars, ghosts>>

\* Mutant: the DROP TABLEs of a deregistration outside its transaction.
FailsHalfDone(c) ==
    /\ at[c] \notin {"idle", "done"}
    /\ tables' = [t \in Table |-> IF t \in my[c].doomed THEN Nil ELSE tables[t]]
    /\ acl' = {g \in acl : tables'[g[2]] # Nil}
    /\ Return(c, "failed")
    /\ UNCHANGED <<extVars, rows, spaces, ghosts>>

\* The database refuses a statement or the connection breaks: everything is
\* rolled back.
Fails(c) ==
    /\ at[c] \notin {"idle", "done"}
    /\ Return(c, "failed")
    /\ UNCHANGED <<extVars, dataVars, ghosts>>

-----------------------------------------------------------------------------
(* ext.register.                                                            *)

\* Mutant: the grants only with CREATE ROLE.
ProvisionOnce(n, p, q) ==
    /\ extensions' = [extensions EXCEPT ![n] = [prefix |-> p, policy |-> q, id |-> count[n] + 1]]
    /\ roles' = roles \cup {n}
    /\ core' = IF n \in roles THEN core ELSE [core EXCEPT ![n] = Grants(q)]
    /\ count' = [count EXCEPT ![n] = @ + 1]
    /\ used' = [used EXCEPT ![n] = @ \cup {p}]

\* The role and its grants come with the row; a role that is there is kept with
\* what it was granted before.
Provision(n, p, q) ==
    /\ extensions' = [extensions EXCEPT ![n] = [prefix |-> p, policy |-> q, id |-> count[n] + 1]]
    /\ roles' = roles \cup {n}
    /\ core' = [core EXCEPT ![n] = @ \cup Grants(q)]
    /\ count' = [count EXCEPT ![n] = @ + 1]
    /\ used' = [used EXCEPT ![n] = @ \cup {p}]

\* ON CONFLICT (name) DO NOTHING; schema_prefix is UNIQUE.
Register(c, n, p, q) ==
    /\ at[c] = "idle"
    /\ IF p \notin Reserved \/ Registered(n)
       THEN Return(c, "invalid") /\ UNCHANGED extVars
       ELSE IF \E m \in Name : extensions[m].prefix = p
       THEN Return(c, "failed") /\ UNCHANGED extVars
       ELSE Return(c, "ok") /\ Provision(n, p, q)
    /\ UNCHANGED <<dataVars, ghosts>>

-----------------------------------------------------------------------------
(* Work on behalf of an extension, with the row that ext_get returned.      *)

\* Deregistrations of n that no longer see what is committed now.
Past(n, steps) == \E d \in Calls : my[d].name = n /\ my[d].tool = "deregister" /\ at[d] \in steps

\* Mutant: a GRANT to a missing role is not an error.
DeclareAnyway(c, s, cols) ==
    LET n == my[c].name
        t == Full[my[c].row.prefix, s]
    IN  /\ at[c] = "run" /\ my[c].tool = "declare" /\ ValidColumns(cols)
        /\ tables' = [tables EXCEPT ![t] = IF @ = Nil THEN cols ELSE @]
        /\ acl' = acl \cup {<<n, t>>}
        /\ Return(c, "ok")
        /\ UNCHANGED <<extVars, rows, spaces, ghosts>>

\* CREATE TABLE IF NOT EXISTS and the grant to the role, in one transaction; a
\* table of that name is taken as it is, with the columns it has.
Declare(c, s, cols) ==
    LET n == my[c].name
        t == Full[my[c].row.prefix, s]
    IN  /\ at[c] = "run" /\ my[c].tool = "declare" /\ ValidColumns(cols)
        /\ n \in roles
        /\ tables' = [tables EXCEPT ![t] = IF @ = Nil THEN cols ELSE @]
        /\ acl' = acl \cup {<<n, t>>}
        /\ promised' = promised \cup {<< <<n, extensions[n].id>>, t, cols>>}
        /\ stray' = IF Past(n, {"drop"}) \/ extensions[n].prefix # my[c].row.prefix
                    THEN stray \cup {<<"table", t>>} ELSE stray
        /\ Return(c, "ok")
        /\ UNCHANGED <<extVars, rows, spaces>>

\* ext.exec: the statement starts under SET LOCAL ROLE, which needs the role to
\* be there.  The transaction is one of the master's login, and nothing keeps the
\* client's text under the role, so the grants decide only for text that stays.
Exec(c, t) ==
    LET n == my[c].name IN
    /\ at[c] = "run" /\ my[c].tool = "exec"
    /\ n \in roles /\ t \in Existing
    /\ rows' = [rows EXCEPT ![t] = @ \cup {IF <<n, t>> \in acl THEN <<n, extensions[n].id>> ELSE Nil}]
    /\ Return(c, "ok")
    /\ UNCHANGED <<extVars, tables, acl, spaces, ghosts>>

\* ext.query, in a read-only transaction.
Query(c) ==
    /\ at[c] = "run" /\ my[c].tool = "query"
    /\ my[c].name \in roles
    /\ Return(c, "ok")
    /\ UNCHANGED <<extVars, dataVars, ghosts>>

\* ext.emit_event runs under the role too, and needs the grant on events.
Emit(c) ==
    /\ at[c] = "run" /\ my[c].tool = "emit"
    /\ my[c].name \in roles /\ "events" \in core[my[c].name]
    /\ Return(c, "ok")
    /\ UNCHANGED <<extVars, dataVars, ghosts>>

\* ext.embed works as the master, and looks at neither row nor role again.  A
\* page written after the DELETE of a deregistration is not among its pages.
Embed(c) ==
    LET n == my[c].name IN
    /\ at[c] = "run" /\ my[c].tool = "embed"
    /\ spaces' = spaces \cup {n}
    /\ stray' = IF ~Registered(n) \/ Past(n, {"list", "drop"})
                THEN stray \cup {<<"pages", n>>} ELSE stray
    /\ at' = [at EXCEPT ![c] = "done"]
    /\ my' = [d \in Calls |-> IF d = c THEN NoLocal ELSE [my[d] EXCEPT !.gone = @ \ {n}]]
    /\ reply' = [reply EXCEPT ![c] = "ok"]
    /\ UNCHANGED <<extVars, tables, acl, rows, promised>>

-----------------------------------------------------------------------------
(* ext.deregister, statement by statement.                                  *)

Goto(c, step) == at' = [at EXCEPT ![c] = step]

DropCheck(c) ==
    /\ at[c] = "check"
    /\ IF Registered(my[c].name)
       THEN Goto(c, "role") /\ UNCHANGED <<my, reply>>
       ELSE Return(c, "nothing")
    /\ UNCHANGED <<extVars, dataVars, ghosts>>

DropRole(c) ==
    /\ at[c] = "role"
    /\ my' = [my EXCEPT ![c].role = my[c].name \in roles]
    /\ Goto(c, "pages")
    /\ UNCHANGED <<extVars, dataVars, ghosts, reply>>

DropPages(c) ==
    /\ at[c] = "pages"
    /\ my' = [my EXCEPT ![c].gone = spaces \cap PageLike[my[c].name]]
    /\ Goto(c, "list")
    /\ UNCHANGED <<extVars, dataVars, ghosts, reply>>

\* Mutant: the tables under the default prefix.
DropListDefault(c) ==
    /\ at[c] = "list"
    /\ my' = [my EXCEPT ![c].doomed = Existing \cap Like[Default[my[c].name]]]
    /\ Goto(c, "drop")
    /\ UNCHANGED <<extVars, dataVars, ghosts, reply>>

\* Mutant: LIKE without the "%".
DropListExact(c) ==
    /\ at[c] = "list"
    /\ my' = [my EXCEPT ![c].doomed = {}]
    /\ Goto(c, "drop")
    /\ UNCHANGED <<extVars, dataVars, ghosts, reply>>

\* The tables are found by the prefix that ext_get returned, which a new
\* registration may have changed.
DropList(c) ==
    LET n == my[c].name IN
    /\ at[c] = "list"
    /\ my' = [my EXCEPT ![c].doomed = Existing \cap Like[my[c].row.prefix]]
    /\ stray' = IF extensions[n].prefix # my[c].row.prefix
                THEN stray \cup {<<"table", t>> : t \in {u \in Table : <<n, u>> \in acl}}
                ELSE stray
    /\ Goto(c, "drop")
    /\ UNCHANGED <<extVars, dataVars, promised, reply>>

(***************************************************************************)
(* DROP TABLE IF EXISTS, DROP OWNED, DROP ROLE, the DELETE of the row and   *)
(* the commit: what they drop stays locked until the commit, so nothing of  *)
(* it can be seen half done.  A table that was made after the list is kept, *)
(* without its grant.  If the role has gone since it was looked up, DROP    *)
(* OWNED fails; the error is swallowed, but the transaction is lost with it *)
(* (Fails).  If the role was not there, it is left alone.                   *)
(***************************************************************************)
DropCommit(c) ==
    LET n == my[c].name IN
    /\ at[c] = "drop"
    /\ my[c].role => n \in roles
    /\ tables' = [t \in Table |-> IF t \in my[c].doomed THEN Nil ELSE tables[t]]
    /\ acl' = {g \in acl : g[2] \notin my[c].doomed /\ (my[c].role => g[1] # n)}
    /\ rows' = [t \in Table |-> IF t \in my[c].doomed THEN {} ELSE rows[t]]
    /\ spaces' = spaces \ my[c].gone
    /\ roles' = IF my[c].role THEN roles \ {n} ELSE roles
    /\ core' = IF my[c].role THEN [core EXCEPT ![n] = {}] ELSE core
    /\ extensions' = [extensions EXCEPT ![n] = NoExt]
    /\ stray' = (stray \ (({"table"} \X my[c].doomed) \cup ({"pages"} \X my[c].gone) \cup {<<"role", n>>}))
                \cup (IF n \in roles' THEN {<<"role", n>>} ELSE {})
    /\ Return(c, "ok")
    /\ UNCHANGED <<count, used, promised>>

-----------------------------------------------------------------------------
Deregister(c) == DropCheck(c) \/ DropRole(c) \/ DropPages(c) \/ DropList(c) \/ DropCommit(c)

Work(c) ==
    \/ \E s \in Short, cols \in Columns : Declare(c, s, cols)
    \/ \E t \in Table : Exec(c, t)
    \/ Query(c)
    \/ Emit(c)
    \/ Embed(c)

RegistryNext ==
    \E c \in Calls :
        \/ \E n \in Name, tool \in Tools : Lookup(c, tool, n)
        \/ \E n \in Name, p \in Prefix, q \in Policy : Register(c, n, p, q)
        \/ Invalid(c)
        \/ Fails(c)
        \/ Work(c)
        \/ Deregister(c)

RegistrySpec == RegistryInit /\ [][RegistryNext]_registryVars

-----------------------------------------------------------------------------
(* Properties.                                                              *)

\* A table name that another extension's prefix, of now or of before, matches.
Contested(n, t) == \E m \in Name \ {n} : \E p \in used[m] : t \in Like[p]

\* A registered extension has its role, with the privileges of its policy and
\* no others; and no role outlives its extension, unless a deregistration
\* looked for the role while the name was between two registrations.
RoleMatchesRow ==
    \A n \in Name :
        /\ Registered(n) => n \in roles /\ Grants(extensions[n].policy) \subseteq core[n]
        /\ n \in roles /\ <<"role", n>> \notin stray =>
              Registered(n) /\ core[n] = Grants(extensions[n].policy)

\* Every table is in use by a registered extension and every page under ext/ is
\* one's, apart from those made while a deregistration could not see them any
\* more, and those it looked for under the prefix of an earlier registration.
LeftoversAreStray ==
    /\ \A t \in Existing : <<"table", t>> \in stray \/ \E n \in Name : Registered(n) /\ <<n, t>> \in acl
    /\ \A n \in spaces : Registered(n) \/ <<"pages", n>> \in stray

\* A table that was promised to a registration stays usable while it lasts,
\* whatever other calls do, unless another extension's prefix matches its name.
\* Its columns are some that this registration declared, unless the table is
\* also a leftover, which CREATE TABLE IF NOT EXISTS takes as it is.
DeclaredStays ==
    \A n \in Name, t \in Table :
        LET mine == {x \in promised : x[1] = <<n, extensions[n].id>> /\ x[2] = t}
        IN  Registered(n) /\ mine # {} =>
                \/ /\ <<n, t>> \in acl
                   /\ <<"table", t>> \in stray \/ \E x \in mine : tables[t] = x[3]
                \/ Contested(n, t)

\* What an extension can read in its tables was written under its own present
\* registration, or by a statement of ext.exec that had no grant on the table,
\* unless the table is a leftover or contested.
RowsAreOwn ==
    \A n \in Name, t \in Table :
        Registered(n) /\ <<n, t>> \in acl =>
            \/ rows[t] \subseteq {<<n, extensions[n].id>>, Nil}
            \/ <<"table", t>> \in stray \/ Contested(n, t)
=============================================================================
