------------------------------ MODULE ServerProofs ------------------------------
(***************************************************************************)
(* Theorems about Server for every set of servers, requests and rules.     *)
(***************************************************************************)
EXTENDS Server, FiniteSetTheorems, TLAPS

USE DEF Replies

-----------------------------------------------------------------------------
(* What the checks of a request yield.                                      *)

\* The rules that a start loads are rules.
LEMMA LoadedRules ==
    ASSUME NEW config \in Configs, LoadsRules(config)
    PROVE  LoadRules(config) \in Seq(Rule)
<1>1. CASE config.file = "mapping"
    <2> DEFINE es == config.entries
               Entries == [glob : SUBSET Path, expr : [kind : STRING, app : App \cup {Nil}]]
    <2>1. es \in Seq(Entries)
        BY ServerAssumption
    <2>2. ASSUME NEW i \in 1 .. Len(es) PROVE ParseRule(es[i]) \in Rule
        <3>1. es[i] \in Entries
            <4> HIDE DEF es, Entries
            <4>1. QED
                BY <2>1
        <3>2. es[i].glob \in SUBSET Path /\ es[i].expr.app \in App \cup {Nil}
            BY <3>1
        <3>3. QED
            BY <3>2 DEF ParseRule, Rule
    <2>3. LoadRules(config) = [i \in 1 .. Len(es) |-> ParseRule(es[i])]
        BY <1>1, <2>1 DEF LoadRules
    <2>4. QED
        BY <2>1, <2>2, <2>3
<1>2. CASE config.file # "mapping"
    BY <1>2 DEF LoadRules
<1>3. QED
    BY <1>1, <1>2

\* Something has the smallest number.
LEMMA Least ==
    ASSUME NEW S, S # {}, NEW f \in [S -> Nat]
    PROVE  \E x \in S : \A y \in S : f[x] <= f[y]
<1> DEFINE T == {f[x] : x \in S}
<1>1. T \subseteq Nat /\ T # {}
    OBVIOUS
<1>2. \E m \in T : \A n \in T : <<n, m>> \notin OpToRel(<, Nat)
    <2> HIDE DEF T
    <2>1. QED
        BY <1>1, WFMin, NatLessThanWellFounded, Zenon
<1>3. \E x \in S : \A y \in S : ~(f[y] < f[x])
    BY <1>2 DEF OpToRel
<1>4. QED
    BY <1>3

\* matching_rule finds the first match, if there is one.
LEMMA FirstMatch ==
    ASSUME NEW rs \in Seq(Rule), NEW path
    PROVE  LET hits == {i \in DOMAIN rs : path \in rs[i].glob}
           IN  hits # {} => \E i \in hits : /\ MatchingRule(rs, path) = rs[i]
                                            /\ \A j \in hits : i <= j
<1> DEFINE hits == {i \in DOMAIN rs : path \in rs[i].glob}
<1> SUFFICES ASSUME hits # {}
             PROVE  \E i \in hits : MatchingRule(rs, path) = rs[i] /\ \A j \in hits : i <= j
    OBVIOUS
<1>1. hits \subseteq Nat
    OBVIOUS
<1>2. \E i \in hits : \A j \in hits : i <= j
    <2> DEFINE f == [i \in hits |-> i]
    <2>1. f \in [hits -> Nat]
        BY <1>1
    <2>2. \E i \in hits : \A j \in hits : f[i] <= f[j]
        BY <2>1, Least
    <2>3. QED
        BY <2>2
<1> DEFINE i == CHOOSE k \in hits : \A j \in hits : k <= j
<1>3. i \in hits /\ \A j \in hits : i <= j
    BY <1>2
<1>4. MatchingRule(rs, path) = rs[i]
    BY DEF MatchingRule
<1>5. QED
    BY <1>3, <1>4

(***************************************************************************)
(* What is true of an entry that was let through, in the words of          *)
(* CommitsWereAdmitted.                                                    *)
(***************************************************************************)
Admitted(x) ==
    /\ x.authed # Nil => x.call.server = x.authed.id /\ x.call.app \in x.authed.apps
    /\ x.call.tool = "write" =>
          /\ \A i \in DOMAIN x.rules :
                LET rule == x.rules[i] IN
                x.call.path \in rule.glob /\ (rule.human_only \/ rule.producer \notin {Nil, x.call.app}) =>
                    \E j \in DOMAIN x.rules : j < i /\ x.call.path \in x.rules[j].glob
          /\ x.call.content.size <= LimitFor(x.call)
          /\ x.call.content.text = "clean" /\ x.call.content.front = "complete" /\ ~x.call.content.secret

\* A status "ok" means that everything was checked, the rules in their order.
LEMMA OkIsAdmitted ==
    ASSUME NEW x, x.call \in Calls, x.rules \in Seq(Rule), x.call.tool \in {"write", "append_log"},
           Status(x.call, x.authed, x.rules, LimitFor(x.call)) = "ok"
    PROVE  Admitted(x)
<1>1. SessionMatches(x.call, x.authed)
    BY DEF Status
<1>2. ASSUME x.call.tool = "write"
      PROVE  /\ MayWrite(x.rules, x.call.path, x.call.app)
             /\ ContentStatus(x.call.content, LimitFor(x.call)) = "ok"
    BY <1>1, <1>2 DEF Status
<1>3. ASSUME x.call.tool = "write"
      PROVE  /\ x.call.content.size <= LimitFor(x.call)
             /\ x.call.content.text = "clean" /\ x.call.content.front = "complete" /\ ~x.call.content.secret
    <2>1. x.call.content \in Content /\ LimitFor(x.call) \in Nat
        BY <1>3, ServerAssumption, AdmissionAssumption DEF LimitFor
    <2>2. x.call.content.size \in Nat
        BY <2>1 DEF Content
    <2>3. QED
        BY <1>2, <1>3, <2>1, <2>2 DEF ContentStatus
<1>4. ASSUME x.call.tool = "write", NEW i \in DOMAIN x.rules, x.call.path \in x.rules[i].glob,
             x.rules[i].human_only \/ x.rules[i].producer \notin {Nil, x.call.app}
      PROVE  \E j \in DOMAIN x.rules : j < i /\ x.call.path \in x.rules[j].glob
    <2> DEFINE hits == {j \in DOMAIN x.rules : x.call.path \in x.rules[j].glob}
    <2>1. i \in hits
        BY <1>4
    <2>2. PICK j \in hits : /\ MatchingRule(x.rules, x.call.path) = x.rules[j]
                            /\ \A k \in hits : j <= k
        BY <2>1, FirstMatch
    <2>3. x.rules[j] = Nil \/ (~x.rules[j].human_only /\ x.rules[j].producer \in {Nil, x.call.app})
        BY <1>2, <1>4, <2>2 DEF MayWrite
    <2>4. x.rules[j] # Nil
        BY ServerAssumption
    <2>5. j # i
        BY <1>4, <2>3, <2>4
    <2>6. QED
        BY <2>1, <2>2, <2>5
<1>5. QED
    BY <1>1, <1>3, <1>4 DEF SessionMatches, Admitted

-----------------------------------------------------------------------------
(* The outcomes of a dispatch.                                              *)

Writes(call) == call.tool \in {"write", "append_log"}

\* What a dispatch can answer.
LEMMA StatusType ==
    ASSUME NEW call, NEW authed, NEW rs, NEW limit
    PROVE  /\ Status(call, authed, rs, limit) \in {"ok", "400", "403", "413", "422"}
           /\ Status(call, authed, rs, limit) = "400" => call.tool = "unknown"
BY DEF Status, ContentStatus

\* A dispatch opens a stream, goes on to a write that was checked, or answers;
\* and it answers no write with "ok".
LEMMA DispatchOutcome ==
    ASSUME NEW r, NEW call \in Calls, NEW authed, Dispatch(r, call, authed)
    PROVE  \/ call.via = "subscribe" /\ Goto(r, "open") /\ UNCHANGED reply
           \/ /\ Writes(call) /\ Status(call, authed, RulesFor(call), LimitFor(call)) = "ok"
              /\ Goto(r, "write") /\ UNCHANGED reply
           \/ \E status \in {"ok", "400", "403", "413", "422"} :
                Finish(r, status) /\ (status = "ok" => ~Writes(call))
<1> DEFINE status == Status(call, authed, RulesFor(call), LimitFor(call))
<1>1. CASE call.via = "subscribe"
    BY <1>1 DEF Dispatch
<1>2. CASE call.via # "subscribe" /\ status = "ok" /\ Writes(call)
    BY <1>2 DEF Dispatch, Writes
<1>3. CASE call.via # "subscribe" /\ ~(status = "ok" /\ Writes(call))
    <2>1. Finish(r, status)
        BY <1>3 DEF Dispatch, Writes
    <2>2. QED
        BY <1>3, <2>1, StatusType
<1>4. QED
    BY <1>1, <1>2, <1>3

-----------------------------------------------------------------------------
(***************************************************************************)
(* The inductive invariant: where the process can be, where a request can  *)
(* be then, and how far the tokens have come.                              *)
(***************************************************************************)
Process ==
    /\ phase # "down" => pool = "open" /\ rules \in Seq(Rule)
    /\ phase \in {"running", "draining", "stopping"} => listener \in {"up", "lost"}
    /\ pool = "abandoned" => listener = "lost"
    /\ rules = Nil \/ rules \in Seq(Rule)

Where(r) ==
    /\ Active(r) => my[r] \in Local
    /\ pc[r] \in {"count", "find", "write", "render", "open"} => phase \in {"running", "draining"}
    /\ pc[r] = "unwind" => phase \in {"stopping", "closing"}
    /\ my[r].held => pc[r] = "unwind"
    /\ pc[r] # "done" => reply[r] = Nil

Tokens == \A s \in ServerId : servers[s].token <= minted

\* The steps that leave the process as it is.
LEMMA RequestStep ==
    ASSUME NEW r \in Request, Serve(r) \/ Client(r)
    PROVE  UNCHANGED processVars /\ UNCHANGED authVars
BY DEF Serve, Client, Count, Find, Commit, Conflict, DatabaseFails, Render, Unwind, Leave, Arrive

\* A request moves alone.
Moves(r) ==
    /\ pc' = [pc EXCEPT ![r] = pc'[r]]
    /\ my' = [my EXCEPT ![r] = my'[r]]
    /\ reply' = [reply EXCEPT ![r] = reply'[r]]
    /\ \/ pc'[r] = "done" /\ reply'[r] \in Replies
       \/ pc'[r] # "done" /\ reply'[r] = reply[r]

\* A dispatch moves its request, and answers it when it ends it.
LEMMA DispatchMoves ==
    ASSUME ServerTypeOK, NEW r \in Request, NEW call \in Calls, NEW authed, Dispatch(r, call, authed)
    PROVE  /\ pc' = [pc EXCEPT ![r] = pc'[r]]
           /\ reply' = [reply EXCEPT ![r] = reply'[r]]
           /\ \/ pc'[r] = "done" /\ reply'[r] \in Replies
              \/ pc'[r] \in {"open", "write"} /\ reply'[r] = reply[r]
<1>1. ASSUME NEW step \in {"open", "write"}, Goto(r, step), UNCHANGED reply
      PROVE  /\ pc' = [pc EXCEPT ![r] = pc'[r]] /\ reply' = [reply EXCEPT ![r] = reply'[r]]
             /\ pc'[r] \in {"open", "write"} /\ reply'[r] = reply[r]
    BY <1>1 DEF Goto, ServerTypeOK
<1>2. ASSUME NEW status \in Replies, Finish(r, status)
      PROVE  /\ pc' = [pc EXCEPT ![r] = pc'[r]] /\ reply' = [reply EXCEPT ![r] = reply'[r]]
             /\ pc'[r] = "done" /\ reply'[r] \in Replies
    BY <1>2 DEF Finish, Goto, ServerTypeOK
<1>3. {"ok", "400", "403", "413", "422"} \subseteq Replies
    OBVIOUS
<1>4. QED
    BY <1>1, <1>2, <1>3, DispatchOutcome

\* What any step of a request amounts to.
RequestMoves(r) ==
    /\ Moves(r)
    /\ pc[r] # "done" /\ my'[r] \in Local /\ ~my'[r].held
    /\ pc'[r] # "done" =>
          phase \in {"running", "draining"} /\ pc'[r] \in {"count", "find", "write", "render", "open"}
    /\ stored' = stored \/ (pc[r] = "write" /\ stored' = stored \cup {Entry(r)})

\* The first step of a request.
LEMMA ArriveMoves ==
    ASSUME ServerTypeOK, NEW r \in Request, Where(r), NEW call \in Calls, NEW header \in Headers,
           Arrive(r, call, header)
    PROVE  RequestMoves(r)
<1>1. ParseBearer(header) \in 0 .. minted /\ minted \in 0 .. MaxToken /\ MaxToken \in Nat
    BY ServerAssumption DEF ServerTypeOK, Headers, ParseBearer
<1>2. /\ my' = [my EXCEPT ![r] = my'[r]]
      /\ my'[r] \in Local /\ ~my'[r].held /\ my'[r].call = call
    <2> DEFINE taken_back == ParseBearer(header) \in 1 .. minted /\ \A s \in ServerId : servers[s].token # ParseBearer(header)
               lapse == Registered = {}
               mine == [NoLocal EXCEPT !.call = call, !.token = ParseBearer(header),
                                       !.late = taken_back, !.lapse = lapse]
    <2>1. my' = [my EXCEPT ![r] = mine]
        BY DEF Arrive
    <2>2. taken_back \in BOOLEAN /\ lapse \in BOOLEAN
        OBVIOUS
    <2> HIDE DEF taken_back, lapse
    <2>3. ParseBearer(header) \in 0 .. MaxToken
        BY <1>1
    <2>4. mine \in Local /\ ~mine.held /\ mine.call = call
        BY <2>2, <2>3 DEF NoLocal, Local
    <2>5. my'[r] = mine
        BY <2>1 DEF ServerTypeOK
    <2>6. QED
        BY <2>1, <2>4, <2>5
<1>3. CASE call.via = "adapter"
    BY <1>2, <1>3, DispatchMoves DEF Arrive, Moves, RequestMoves
<1>4. CASE call.via # "adapter"
    BY <1>2, <1>4 DEF Arrive, Moves, RequestMoves, Goto, ServerTypeOK
<1>5. QED
    BY <1>3, <1>4

\* The second query of authenticate.
LEMMA FindMoves ==
    ASSUME ServerTypeOK, NEW r \in Request, Where(r), Find(r)
    PROVE  RequestMoves(r)
<1>1. my[r] \in Local /\ ~my[r].held /\ phase \in {"running", "draining"}
    BY DEF Find, Where, Active
<1>2. ASSUME NEW s \in Registered, my' = [my EXCEPT ![r].authed = [id |-> s, apps |-> servers[s].apps]]
      PROVE  my' = [my EXCEPT ![r] = my'[r]] /\ my'[r] \in Local /\ ~my'[r].held
    <2>1. [id |-> s, apps |-> servers[s].apps] \in Authenticated
        BY DEF Registered, ServerTypeOK, NoServer, Authenticated
    <2>2. [my[r] EXCEPT !.authed = [id |-> s, apps |-> servers[s].apps]] \in Local
        BY <1>1, <2>1 DEF Local
    <2>3. QED
        BY <1>1, <1>2, <2>2 DEF ServerTypeOK, Local
<1>3. ASSUME Finish(r, "401"), UNCHANGED my PROVE RequestMoves(r)
    BY <1>1, <1>3 DEF Find, Finish, Goto, Moves, RequestMoves, ServerTypeOK
<1>4. ASSUME NEW s \in Registered, my' = [my EXCEPT ![r].authed = [id |-> s, apps |-> servers[s].apps]],
             Dispatch(r, my[r].call, [id |-> s, apps |-> servers[s].apps])
      PROVE  RequestMoves(r)
    <2>1. my[r].call \in Calls
        BY <1>1 DEF Local
    <2>2. QED
        BY <1>1, <1>2, <1>4, <2>1, DispatchMoves DEF Find, Moves, RequestMoves
<1>5. QED
    BY <1>3, <1>4 DEF Find

\* The first query of authenticate.
LEMMA CountMoves ==
    ASSUME ServerTypeOK, NEW r \in Request, Where(r), Count(r)
    PROVE  RequestMoves(r)
<1>1. my[r] \in Local /\ ~my[r].held /\ phase \in {"running", "draining"} /\ my[r].call \in Calls
    BY DEF Count, Where, Active, Local
<1>2. CASE Registered = {}
    BY <1>1, <1>2, DispatchMoves DEF Count, Moves, RequestMoves, ServerTypeOK
<1>3. CASE Registered # {}
    BY <1>1, <1>3 DEF Count, Finish, Goto, Moves, RequestMoves, ServerTypeOK
<1>4. QED
    BY <1>2, <1>3

\* Every step of a request is such a move.
LEMMA AllMoves ==
    ASSUME ServerTypeOK, NEW r \in Request, Where(r), Serve(r) \/ Client(r)
    PROVE  RequestMoves(r)
<1>1. ASSUME Commit(r) PROVE RequestMoves(r)
    BY <1>1 DEF Commit, Finish, Goto, Moves, RequestMoves, ServerTypeOK, Where, Active
<1>2. ASSUME Conflict(r) PROVE RequestMoves(r)
    BY <1>2 DEF Conflict, Finish, Goto, Moves, RequestMoves, ServerTypeOK, Where, Active
<1>3. ASSUME DatabaseFails(r) PROVE RequestMoves(r)
    BY <1>3 DEF DatabaseFails, Finish, Goto, Moves, RequestMoves, ServerTypeOK, Where, Active
<1>4. ASSUME Render(r) PROVE RequestMoves(r)
    BY <1>4 DEF Render, Finish, Goto, Moves, RequestMoves, ServerTypeOK, Where, Active
<1>5. ASSUME Leave(r) PROVE RequestMoves(r)
    BY <1>5 DEF Leave, Finish, Goto, Moves, RequestMoves, ServerTypeOK, Where, Active
<1>6. ASSUME Unwind(r) PROVE RequestMoves(r)
    <2>1. my[r] \in Local /\ [my[r] EXCEPT !.held = FALSE] \in Local
        BY <1>6 DEF Unwind, Where, Active, Local
    <2>2. QED
        BY <1>6, <2>1 DEF Unwind, Finish, Goto, Moves, RequestMoves, ServerTypeOK, Local
<1>7. QED
    BY <1>1, <1>2, <1>3, <1>4, <1>5, <1>6, ArriveMoves, FindMoves, CountMoves DEF Serve, Client

-----------------------------------------------------------------------------
(* The invariant is inductive.                                              *)

ServerInv == ServerTypeOK /\ Process /\ Tokens /\ \A r \in Request : Where(r)

\* A process that was never started.
LEMMA InitInv == ServerInit => ServerInv
<1> SUFFICES ASSUME ServerInit PROVE ServerInv
    OBVIOUS
<1> USE ServerAssumption DEF ServerInit
<1>1. ServerTypeOK
    BY DEF ServerTypeOK
<1>2. Process /\ Tokens
    BY DEF Process, Tokens, NoServer
<1>3. ASSUME NEW r \in Request PROVE Where(r)
    BY DEF Where, Active, NoLocal
<1>4. QED
    BY <1>1, <1>2, <1>3 DEF ServerInv

\* A step of a request keeps it.
LEMMA RequestInv ==
    ASSUME ServerInv, NEW r \in Request, Serve(r) \/ Client(r)
    PROVE  ServerInv'
<1>1. RequestMoves(r) /\ UNCHANGED processVars /\ UNCHANGED authVars
    BY AllMoves, RequestStep DEF ServerInv
<1>2. /\ \A q \in Request \ {r} : pc'[q] = pc[q] /\ my'[q] = my[q] /\ reply'[q] = reply[q]
      /\ pc' \in [Request -> {"idle", "count", "find", "write", "render", "open", "unwind", "done"}]
      /\ my' \in [Request -> Local \cup {NoLocal}]
      /\ reply' \in [Request -> {Nil} \cup Replies]
    BY <1>1 DEF RequestMoves, Moves, ServerInv, ServerTypeOK
<1>3. \A x \in stored' : x.by \in Request /\ x.call \in Calls
    <2>1. CASE stored' = stored
        BY <2>1 DEF ServerInv, ServerTypeOK
    <2>2. CASE pc[r] = "write" /\ stored' = stored \cup {Entry(r)}
        <3>1. my[r].call \in Calls
            BY <2>2 DEF ServerInv, Where, Active, Local
        <3>2. Entry(r).by \in Request /\ Entry(r).call \in Calls
            BY <3>1 DEF Entry
        <3>3. QED
            BY <2>2, <3>2 DEF ServerInv, ServerTypeOK
    <2>3. QED
        BY <1>1, <2>1, <2>2 DEF RequestMoves
<1>4. ServerTypeOK'
    BY <1>1, <1>2, <1>3 DEF ServerInv, ServerTypeOK, processVars, authVars
<1>5. Process' /\ Tokens'
    BY <1>1 DEF ServerInv, Process, Tokens, processVars, authVars
<1>6. Where(r)'
    BY <1>1 DEF ServerInv, Where, Active, RequestMoves, Moves, processVars
<1>7. ASSUME NEW q \in Request \ {r} PROVE Where(q)'
    BY <1>1, <1>2, <1>7 DEF ServerInv, Where, Active, processVars
<1>8. QED
    BY <1>4, <1>5, <1>6, <1>7 DEF ServerInv

\* The commands keep the tokens of the servers apart.
LEMMA OperatorInv == ASSUME ServerInv, Operator PROVE ServerInv'
<1> USE ServerAssumption DEF ServerInv
<1> DEFINE Account == [token : 1 .. MaxToken, apps : AppLists]
<1>1. ASSUME NEW t \in ServerId
      PROVE  \/ servers[t] \in Account /\ servers[t].token \in 1 .. minted
             \/ servers[t] = NoServer /\ servers[t].token = 0
    BY DEF ServerTypeOK, Tokens, NoServer
<1>2. minted \in 0 .. MaxToken
    BY DEF ServerTypeOK
<1>3. ASSUME NEW s \in ServerId, NEW apps \in AppLists, AddServer(s, apps) PROVE ServerInv'
    <2>1. minted' = minted + 1 /\ minted + 1 \in 1 .. MaxToken
        BY <1>2, <1>3 DEF AddServer
    <2>2. [token |-> minted + 1, apps |-> apps] \in Account
        BY <2>1
    <2>3. /\ servers' \in [ServerId -> Account \cup {NoServer}]
          /\ servers'[s] = [token |-> minted + 1, apps |-> apps]
          /\ \A t \in ServerId \ {s} : servers'[t] = servers[t]
        BY <1>3, <2>2 DEF AddServer, ServerTypeOK
    <2>4. ASSUME NEW t \in ServerId PROVE servers'[t].token \in 0 .. minted + 1
        <3>1. CASE t = s
            BY <1>2, <2>3, <3>1
        <3>2. CASE t # s
            BY <1>1, <1>2, <2>3, <3>2
        <3>3. QED
            BY <3>1, <3>2
    <2>5. \A t \in ServerId \ {s} : servers'[t].token # servers'[s].token
        BY <1>1, <1>2, <2>3
    <2>6. \A t, u \in ServerId : servers'[t].token = servers'[u].token => t = u \/ servers'[t] = NoServer
        BY <2>3, <2>5 DEF ServerTypeOK
    <2>7. ServerTypeOK'
        BY <1>3, <2>1, <2>3, <2>6 DEF AddServer, ServerTypeOK, processVars, requestVars
    <2>8. QED
        BY <1>3, <2>1, <2>4, <2>7 DEF AddServer, Process, Tokens, Where, Active, processVars, requestVars
<1>4. ASSUME NEW s \in ServerId, RotateToken(s) PROVE ServerInv'
    <2>1. minted' = minted + 1 /\ minted + 1 \in 1 .. MaxToken
        BY <1>2, <1>4 DEF RotateToken
    <2>2. servers[s] \in Account
        BY <1>1, <1>4 DEF RotateToken, Registered
    <2>3. [servers[s] EXCEPT !.token = minted + 1] \in Account
        BY <2>1, <2>2
    <2>4. /\ servers' \in [ServerId -> Account \cup {NoServer}]
          /\ servers'[s].token = minted + 1
          /\ \A t \in ServerId \ {s} : servers'[t] = servers[t]
        <3> DEFINE rotated == [servers[s] EXCEPT !.token = minted + 1]
        <3>1. servers' = [servers EXCEPT ![s] = rotated]
            BY <1>4 DEF RotateToken
        <3>2. rotated \in Account /\ rotated.token = minted + 1
            BY <2>2, <2>3
        <3> HIDE DEF rotated
        <3>3. QED
            BY <3>1, <3>2 DEF ServerTypeOK
    <2>5. ASSUME NEW t \in ServerId PROVE servers'[t].token \in 0 .. minted + 1
        <3>1. CASE t = s
            BY <1>2, <2>4, <3>1
        <3>2. CASE t # s
            BY <1>1, <1>2, <2>4, <3>2
        <3>3. QED
            BY <3>1, <3>2
    <2>6. \A t \in ServerId \ {s} : servers'[t].token # servers'[s].token
        BY <1>1, <1>2, <2>4
    <2>7. \A t, u \in ServerId : servers'[t].token = servers'[u].token => t = u \/ servers'[t] = NoServer
        BY <2>4, <2>6 DEF ServerTypeOK
    <2>8. ServerTypeOK'
        BY <1>4, <2>1, <2>4, <2>7 DEF RotateToken, ServerTypeOK, processVars, requestVars
    <2>9. QED
        BY <1>4, <2>1, <2>5, <2>8 DEF RotateToken, Process, Tokens, Where, Active, processVars, requestVars
<1>5. ASSUME NEW s \in ServerId, RemoveServer(s) PROVE ServerInv'
    <2>1. ASSUME NEW r \in Request
          PROVE  /\ my'[r].held = my[r].held
                 /\ my'[r] \in Local \cup {NoLocal}
                 /\ my[r] \in Local => my'[r] \in Local
        <3> DEFINE lapse == my[r].lapse \/ (Active(r) /\ Registered = {s})
        <3>1. my'[r] = [my[r] EXCEPT !.lapse = lapse]
            BY <1>5 DEF RemoveServer
        <3>2. lapse \in BOOLEAN
            OBVIOUS
        <3>3. CASE my[r] \in Local
            <4> HIDE DEF lapse
            <4>1. QED
                BY <3>1, <3>2, <3>3 DEF Local
        <3>4. CASE my[r] = NoLocal /\ my[r] \notin Local
            <4>1. ~Active(r) /\ ~my[r].lapse
                BY <3>4 DEF Where, NoLocal
            <4>2. ~lapse
                BY <4>1
            <4>3. lapse = FALSE
                BY <4>2, <3>2
            <4> HIDE DEF lapse
            <4>4. NoLocal.lapse = lapse
                BY <4>3 DEF NoLocal
            <4>5. [NoLocal EXCEPT !.lapse = lapse] = [NoLocal EXCEPT !.lapse = NoLocal.lapse]
                BY <4>4
            <4>6. [NoLocal EXCEPT !.lapse = NoLocal.lapse] = NoLocal
                BY DEF NoLocal
            <4>7. my'[r] = NoLocal
                BY <3>1, <3>4, <4>5, <4>6
            <4>8. QED
                BY <3>4, <4>7
        <3>5. QED
            BY <3>3, <3>4 DEF ServerTypeOK
    <2>2. my' \in [Request -> Local \cup {NoLocal}]
        BY <1>5, <2>1 DEF RemoveServer
    <2>3. /\ servers' \in [ServerId -> Account \cup {NoServer}]
          /\ servers'[s] = NoServer
          /\ \A t \in ServerId \ {s} : servers'[t] = servers[t]
        BY <1>5 DEF RemoveServer, ServerTypeOK
    <2>4. \A t, u \in ServerId : servers'[t].token = servers'[u].token => t = u \/ servers'[t] = NoServer
        BY <1>1, <2>3 DEF ServerTypeOK, NoServer
    <2>5. ServerTypeOK'
        BY <1>5, <2>2, <2>3, <2>4 DEF RemoveServer, ServerTypeOK, processVars
    <2>6. ASSUME NEW r \in Request PROVE Where(r)'
        BY <1>5, <2>1 DEF RemoveServer, Where, Active, processVars
    <2>7. Process' /\ Tokens'
        BY <1>1, <1>2, <1>5, <2>3 DEF RemoveServer, Process, Tokens, processVars, NoServer
    <2>8. QED
        BY <2>5, <2>6, <2>7
<1>6. QED
    BY <1>3, <1>4, <1>5 DEF Operator

\* What is left of the requests when the process ends is well typed.
LEMMA GoneInv ==
    ASSUME ServerInv, Gone
    PROVE  /\ pc' \in [Request -> {"idle", "done"}]
           /\ my' \in [Request -> Local \cup {NoLocal}]
           /\ reply' \in [Request -> {Nil} \cup Replies]
           /\ \A r \in Request : pc'[r] # "done" => reply'[r] = Nil
           /\ \A r \in Request : ~my'[r].held
<1>1. ASSUME NEW r \in Request
      PROVE  [my[r] EXCEPT !.held = FALSE] \in Local \cup {NoLocal} /\ ~[my[r] EXCEPT !.held = FALSE].held
    <2>1. CASE my[r] \in Local
        BY <2>1 DEF Local
    <2>2. CASE my[r] = NoLocal
        <3>1. [NoLocal EXCEPT !.held = NoLocal.held] = NoLocal /\ NoLocal.held = FALSE
            BY DEF NoLocal
        <3>2. QED
            BY <2>2, <3>1
    <2>3. QED
        BY <2>1, <2>2 DEF ServerInv, ServerTypeOK
<1>2. \A r \in Request : my'[r] = [my[r] EXCEPT !.held = FALSE]
    BY DEF Gone
<1>3. my' \in [Request -> Local \cup {NoLocal}] /\ \A r \in Request : ~my'[r].held
    BY <1>1, <1>2 DEF Gone
<1>4. QED
    BY <1>3 DEF Gone, Active, ServerInv, ServerTypeOK, Where

\* Starting, stopping and crashing keep it.
LEMMA ProcessInv ==
    ASSUME ServerInv, ListenerLost \/ Terminate \/ Teardown \/ Crash \/ \E config \in Configs : Start(config)
    PROVE  ServerInv'
<1> USE ServerAssumption
<1>1. ASSUME NEW config \in Configs, Start(config) PROVE ServerInv'
    <2>1. ASSUME LoadsRules(config)
          PROVE  /\ LoadRules(config) \in Seq(Rule)
                 /\ DOMAIN LoadRules(config) \subseteq Nat
                 /\ \A i \in DOMAIN LoadRules(config) : LoadRules(config)[i] \in Rule
        <3>1. LoadRules(config) \in Seq(Rule)
            BY <2>1, LoadedRules
        <3> HIDE DEF LoadRules
        <3>2. QED
            BY <3>1
    <2>2. ServerTypeOK'
        BY <1>1, <2>1 DEF Start, ServerInv, ServerTypeOK, authVars, requestVars
    <2>3. Process' /\ Tokens'
        BY <1>1, <2>1 DEF Start, ServerInv, Process, Tokens, authVars
    <2>4. ASSUME NEW r \in Request PROVE Where(r)'
        BY <1>1, <2>4 DEF Start, ServerInv, ServerTypeOK, Where, Active, requestVars
    <2>5. QED
        BY <2>2, <2>3, <2>4 DEF ServerInv
<1>2. ASSUME ListenerLost \/ Terminate PROVE ServerInv'
    BY <1>2 DEF ListenerLost, Terminate, ServerInv, ServerTypeOK, Process, Tokens, Where, Active,
                authVars, requestVars
<1>3. ASSUME Drained PROVE ServerInv'
    <2>1. ServerTypeOK' /\ Process' /\ Tokens'
        BY <1>3 DEF Drained, ServerInv, ServerTypeOK, Process, Tokens, authVars, requestVars
    <2>2. ASSUME NEW r \in Request PROVE Where(r)'
        BY <1>3 DEF Drained, ServerInv, Where, Active, authVars, requestVars
    <2>3. QED
        BY <2>1, <2>2 DEF ServerInv
<1>4. ASSUME Backstop PROVE ServerInv'
    <2>1. ASSUME NEW r \in Request
          PROVE  /\ my'[r] \in Local \cup {NoLocal}
                 /\ my'[r].held => Active(r)
                 /\ Active(r) => my'[r] \in Local
        <3>0. PICK asking \in SUBSET {q \in Request : pc[q] = "open"} :
                  my' = [q \in Request |->
                            [my[q] EXCEPT !.held = pc[q] \in {"count", "find", "write"} \/ q \in asking]]
            BY <1>4 DEF Backstop
        <3> DEFINE held == pc[r] \in {"count", "find", "write"} \/ r \in asking
        <3>1. my'[r] = [my[r] EXCEPT !.held = held]
            BY <3>0
        <3>2. held \in BOOLEAN
            OBVIOUS
        <3>3. CASE my[r] \in Local
            <4> HIDE DEF held
            <4>1. my'[r] \in Local /\ (my'[r].held <=> held)
                BY <3>1, <3>2, <3>3 DEF Local
            <4>2. held => Active(r)
                BY <3>0 DEF held, Active
            <4>3. QED
                BY <3>3, <4>1, <4>2
        <3>4. CASE my[r] = NoLocal /\ my[r] \notin Local
            <4>1. ~Active(r)
                BY <3>4 DEF ServerInv, Where
            <4>2. held = FALSE
                BY <3>0, <4>1 DEF Active, ServerInv, ServerTypeOK
            <4>3. NoLocal.held = held
                BY <4>2 DEF NoLocal
            <4>4. [NoLocal EXCEPT !.held = held] = [NoLocal EXCEPT !.held = NoLocal.held]
                BY <4>3
            <4>5. [NoLocal EXCEPT !.held = NoLocal.held] = NoLocal /\ ~NoLocal.held
                BY DEF NoLocal
            <4>6. my'[r] = NoLocal
                BY <3>1, <3>4, <4>4, <4>5
            <4>7. QED
                BY <4>1, <4>2, <4>5, <4>6
        <3>5. QED
            BY <3>3, <3>4 DEF ServerInv, ServerTypeOK
    <2>2. my' \in [Request -> Local \cup {NoLocal}]
        BY <1>4, <2>1 DEF Backstop
    <2>3. \A x \in stored' : x.by \in Request /\ x.call \in Calls
        <3>1. ASSUME NEW r \in Request, pc[r] = "write"
              PROVE  Entry(r).by \in Request /\ Entry(r).call \in Calls
            BY <3>1 DEF Entry, ServerInv, Where, Active, Local
        <3>2. QED
            BY <1>4, <3>1 DEF Backstop, ServerInv, ServerTypeOK
    <2>4. ServerTypeOK'
        BY <1>4, <2>2, <2>3 DEF Backstop, Active, ServerInv, ServerTypeOK, authVars
    <2>5. Process' /\ Tokens'
        BY <1>4 DEF Backstop, ServerInv, Process, Tokens, authVars
    <2>6. ASSUME NEW r \in Request PROVE Where(r)'
        BY <1>4, <2>1 DEF Backstop, ServerInv, ServerTypeOK, Where, Active
    <2>7. QED
        BY <2>4, <2>5, <2>6 DEF ServerInv
<1>5. ASSUME StopWorkers PROVE ServerInv'
    <2>1. CASE listener = "up"
        <3>1. ServerTypeOK' /\ Process' /\ Tokens'
            BY <1>5, <2>1 DEF StopWorkers, ServerInv, ServerTypeOK, Process, Tokens, authVars, requestVars
        <3>2. ASSUME NEW r \in Request PROVE Where(r)'
            BY <1>5, <2>1 DEF StopWorkers, ServerInv, Where, Active, requestVars
        <3>3. QED
            BY <3>1, <3>2 DEF ServerInv
    <2>2. CASE listener # "up"
        <3>1. ServerTypeOK' /\ Process' /\ Tokens'
            BY <1>5, <2>2, GoneInv DEF StopWorkers, ServerInv, ServerTypeOK, Process, Tokens, authVars
        <3>2. ASSUME NEW r \in Request PROVE Where(r)'
            BY <1>5, <2>2, GoneInv DEF StopWorkers, Where, Active
        <3>3. QED
            BY <3>1, <3>2 DEF ServerInv
    <2>3. QED
        BY <2>1, <2>2
<1>6. ASSUME Close \/ Crash PROVE ServerInv'
    <2>1. ServerTypeOK' /\ Process' /\ Tokens'
        BY <1>6, GoneInv DEF Close, Crash, ServerInv, ServerTypeOK, Process, Tokens, authVars
    <2>2. ASSUME NEW r \in Request PROVE Where(r)'
        BY <1>6, GoneInv DEF Close, Crash, Where, Active
    <2>3. QED
        BY <2>1, <2>2 DEF ServerInv
<1>7. QED
    BY <1>1, <1>2, <1>3, <1>4, <1>5, <1>6 DEF Teardown

\* Every step keeps the invariant.
LEMMA NextInv == ServerInv /\ [ServerNext]_serverVars => ServerInv'
<1> SUFFICES ASSUME ServerInv, [ServerNext]_serverVars PROVE ServerInv'
    OBVIOUS
<1>1. CASE UNCHANGED serverVars
    BY <1>1 DEF serverVars, processVars, authVars, requestVars, ServerInv, ServerTypeOK, Process, Tokens,
                Where, Active
<1>2. CASE ServerNext
    BY <1>2, OperatorInv, RequestInv, ProcessInv DEF ServerNext
<1>3. QED
    BY <1>1, <1>2

\* The invariant holds in every reachable state.
LEMMA ServerAlways == ServerSpec => []ServerInv
BY InitInv, NextInv, PTL DEF ServerSpec

\* The variables keep their types whatever requests, commands, stops and crashes do.
THEOREM ServerTypeCorrect == ServerSpec => []ServerTypeOK
<1>1. ServerInv => ServerTypeOK
    BY DEF ServerInv
<1>2. QED
    BY <1>1, ServerAlways, PTL

(***************************************************************************)
(* The pool stays open while a request, cancelled or not, uses one of its  *)
(* connections, and only a lost LISTEN connection keeps it from being      *)
(* closed at a stop (the lifespan of server.py).                           *)
(***************************************************************************)
THEOREM PoolIsSafe == ServerSpec => []PoolOutlivesRequests
<1>1. ServerInv => PoolOutlivesRequests
    <2> SUFFICES ASSUME ServerInv PROVE PoolOutlivesRequests
        OBVIOUS
    <2>1. ASSUME NEW r \in Request, pc[r] \in {"count", "find", "write"} \/ my[r].held PROVE pool = "open"
        BY <2>1 DEF ServerInv, Where, Process
    <2>2. QED
        BY <2>1 DEF ServerInv, Process, PoolOutlivesRequests
<1>2. QED
    BY <1>1, ServerAlways, PTL

-----------------------------------------------------------------------------
(* What gets in.                                                            *)

\* What an arriving request remembers.
LEMMA ArriveSets ==
    ASSUME ServerInv, NEW r \in Request, NEW call \in Calls, NEW header \in Headers, Arrive(r, call, header)
    PROVE  /\ my'[r].call = call /\ my'[r].authed = Nil /\ my'[r].token = ParseBearer(header)
           /\ my'[r].late => /\ ParseBearer(header) \in 1 .. minted
                             /\ \A s \in ServerId : servers[s].token # ParseBearer(header)
           /\ my'[r].lapse <=> Registered = {}
<1> DEFINE late == ParseBearer(header) \in 1 .. minted /\ \A s \in ServerId : servers[s].token # ParseBearer(header)
           lapse == Registered = {}
           mine == [NoLocal EXCEPT !.call = call, !.token = ParseBearer(header), !.late = late, !.lapse = lapse]
<1>1. my' = [my EXCEPT ![r] = mine]
    BY DEF Arrive
<1>2. late \in BOOLEAN /\ lapse \in BOOLEAN
    OBVIOUS
<1>3. /\ mine.call = call /\ mine.authed = Nil /\ mine.token = ParseBearer(header)
      /\ (mine.late <=> late) /\ (mine.lapse <=> lapse)
    <2> HIDE DEF late, lapse
    <2>1. QED
        BY <1>2 DEF NoLocal
<1>4. my'[r] = mine
    BY <1>1 DEF ServerInv, ServerTypeOK
<1>5. QED
    BY <1>3, <1>4

\* What a request remembers whose token was found.
LEMMA FindSets ==
    ASSUME ServerInv, NEW r \in Request, NEW s \in ServerId, pc[r] = "find",
           my' = [my EXCEPT ![r].authed = [id |-> s, apps |-> servers[s].apps]]
    PROVE  /\ my'[r].authed = [id |-> s, apps |-> servers[s].apps]
           /\ my'[r].call = my[r].call /\ my'[r].token = my[r].token
           /\ my'[r].late = my[r].late /\ my'[r].lapse = my[r].lapse
BY DEF ServerInv, ServerTypeOK, Where, Active, Local

\* Every other step of a request leaves them.
LEMMA OtherSets ==
    ASSUME ServerInv, NEW r \in Request, Serve(r) \/ Client(r)
    PROVE  \/ \E call \in Calls, header \in Headers : Arrive(r, call, header)
           \/ pc[r] = "find" /\ \E s \in Registered :
                /\ servers[s].token = my[r].token
                /\ my' = [my EXCEPT ![r].authed = [id |-> s, apps |-> servers[s].apps]]
                /\ Dispatch(r, my[r].call, [id |-> s, apps |-> servers[s].apps])
           \/ pc[r] = "count" /\ Registered = {} /\ UNCHANGED my /\ Dispatch(r, my[r].call, Nil)
           \/ /\ my'[r].call = my[r].call /\ my'[r].authed = my[r].authed /\ my'[r].token = my[r].token
              /\ my'[r].late = my[r].late /\ my'[r].lapse = my[r].lapse
              /\ pc[r] # "idle" /\ pc'[r] \notin {"count", "write", "open"}
              /\ pc'[r] = "render" => pc[r] = "write"
              /\ pc'[r] = "done" => \/ reply'[r] \in {"401", "500", "none"}
                                    \/ reply'[r] \in {"ok", "409"} /\ pc[r] \in {"write", "render"}
<1>1. CASE Unwind(r)
    <2>1. my[r] \in Local
        BY <1>1 DEF Unwind, ServerInv, Where, Active
    <2>2. QED
        BY <1>1, <2>1 DEF Unwind, Finish, Goto, ServerInv, ServerTypeOK, Local
<1>2. CASE Commit(r) \/ Conflict(r) \/ DatabaseFails(r) \/ Render(r) \/ Leave(r)
    BY <1>2 DEF Commit, Conflict, DatabaseFails, Render, Leave, Finish, Goto, ServerInv, ServerTypeOK
<1>3. CASE Count(r)
    BY <1>3 DEF Count, Finish, Goto, ServerInv, ServerTypeOK
<1>4. CASE Find(r)
    BY <1>4 DEF Find, Finish, Goto, ServerInv, ServerTypeOK
<1>5. QED
    BY <1>1, <1>2, <1>3, <1>4 DEF Serve, Client

\* A request that goes to write was checked against the rules of this start.
Checked(r) ==
    /\ pc[r] = "count" => my[r].authed = Nil
    /\ pc[r] = "write" =>
          /\ Writes(my[r].call)
          /\ Status(my[r].call, my[r].authed, RulesFor(my[r].call), LimitFor(my[r].call)) = "ok"

CheckedInv == (\A r \in Request : Checked(r)) /\ \A x \in stored : Admitted(x)

\* Its entry is one that was let through.
LEMMA EntryAdmitted ==
    ASSUME ServerInv, NEW r \in Request, Checked(r), pc[r] = "write"
    PROVE  Admitted(Entry(r))
<1>1. my[r].call \in Calls /\ rules \in Seq(Rule)
    BY DEF ServerInv, Where, Active, Local, Process
<1>2. RulesFor(my[r].call) \in Seq(Rule)
    BY <1>1 DEF RulesFor
<1>3. /\ Entry(r).call = my[r].call /\ Entry(r).authed = my[r].authed
      /\ Entry(r).rules = RulesFor(my[r].call)
    BY DEF Entry
<1>4. QED
    BY <1>1, <1>2, <1>3, OkIsAdmitted DEF Checked, Writes

\* Every step keeps CheckedInv.
LEMMA NextChecked == ServerInv /\ CheckedInv /\ [ServerNext]_serverVars => CheckedInv'
<1> SUFFICES ASSUME ServerInv, CheckedInv, [ServerNext]_serverVars PROVE CheckedInv'
    OBVIOUS
<1>1. ASSUME NEW r \in Request, Serve(r) \/ Client(r) PROVE CheckedInv'
    <2>1. RequestMoves(r) /\ UNCHANGED rules
        BY <1>1, AllMoves, RequestStep DEF ServerInv, processVars
    <2>2. \A x \in stored' : Admitted(x)
        BY <2>1, EntryAdmitted DEF RequestMoves, CheckedInv
    <2>3. ASSUME NEW q \in Request \ {r} PROVE Checked(q)'
        BY <2>1 DEF RequestMoves, Moves, ServerInv, ServerTypeOK, CheckedInv, Checked, RulesFor, LimitFor, Writes
    <2>4. ASSUME NEW call \in Calls, NEW authed, Dispatch(r, call, authed),
                 my'[r].call = call, my'[r].authed = authed
          PROVE  Checked(r)'
        <3>1. pc'[r] # "count"
            BY <2>4, DispatchMoves DEF ServerInv
        <3>2. pc'[r] = "write" =>
                 Writes(call) /\ Status(call, authed, RulesFor(call), LimitFor(call)) = "ok"
            BY <2>4, DispatchOutcome DEF Goto, Finish, ServerInv, ServerTypeOK
        <3>3. QED
            BY <2>1, <2>4, <3>1, <3>2 DEF Checked, RulesFor, LimitFor, Writes
    <2>5. ASSUME NEW call \in Calls, NEW header \in Headers, Arrive(r, call, header) PROVE Checked(r)'
        <3>1. my'[r].call = call /\ my'[r].authed = Nil
            BY <2>5, ArriveSets
        <3>2. CASE call.via = "adapter"
            BY <2>4, <2>5, <3>1, <3>2 DEF Arrive
        <3>3. CASE call.via # "adapter"
            BY <2>5, <3>1, <3>3 DEF Arrive, Goto, Checked, ServerInv, ServerTypeOK
        <3>4. QED
            BY <3>2, <3>3
    <2>6. ASSUME NEW s \in Registered, pc[r] = "find",
                 my' = [my EXCEPT ![r].authed = [id |-> s, apps |-> servers[s].apps]],
                 Dispatch(r, my[r].call, [id |-> s, apps |-> servers[s].apps])
          PROVE  Checked(r)'
        <3>1. s \in ServerId /\ my[r].call \in Calls
            BY <2>6 DEF Registered, ServerInv, Where, Active, Local
        <3>2. QED
            BY <2>4, <2>6, <3>1, FindSets
    <2>7. ASSUME pc[r] = "count", UNCHANGED my, Dispatch(r, my[r].call, Nil) PROVE Checked(r)'
        <3>1. my[r].call \in Calls /\ my[r].authed = Nil
            BY <2>7 DEF ServerInv, Where, Active, Local, CheckedInv, Checked
        <3>2. QED
            BY <2>4, <2>7, <3>1
    <2>8. ASSUME pc'[r] \notin {"count", "write", "open"} PROVE Checked(r)'
        BY <2>8 DEF Checked
    <2>9. Checked(r)'
        BY <1>1, <2>5, <2>6, <2>7, <2>8, OtherSets
    <2>10. QED
        BY <2>2, <2>3, <2>9 DEF CheckedInv, Admitted, LimitFor
<1>2. ASSUME Operator PROVE CheckedInv'
    <2>1. ASSUME NEW r \in Request
          PROVE  /\ my'[r].call = my[r].call /\ my'[r].authed = my[r].authed /\ pc'[r] = pc[r]
        BY <1>2 DEF Operator, AddServer, RotateToken, RemoveServer, requestVars, ServerInv, ServerTypeOK,
                    Local, NoLocal
    <2>2. UNCHANGED <<rules, stored>>
        BY <1>2 DEF Operator, AddServer, RotateToken, RemoveServer, processVars
    <2>3. QED
        BY <2>1, <2>2 DEF CheckedInv, Checked, RulesFor, LimitFor, Writes, Admitted
<1>3. ASSUME NEW config \in Configs, Start(config) PROVE CheckedInv'
    <2>1. \A r \in Request : pc'[r] \notin {"count", "write"}
        BY <1>3 DEF Start, ServerInv, Where, requestVars
    <2>2. QED
        BY <1>3, <2>1 DEF Start, CheckedInv, Checked, Admitted, LimitFor
<1>4. ASSUME ListenerLost \/ Terminate \/ Drained PROVE CheckedInv'
    BY <1>4 DEF ListenerLost, Terminate, Drained, requestVars, CheckedInv, Checked, RulesFor, LimitFor, Writes, Admitted
<1>5. ASSUME Backstop PROVE CheckedInv'
    <2>1. \A r \in Request : pc'[r] \notin {"count", "write"}
        BY <1>5 DEF Backstop, Active
    <2>2. \A x \in stored' : Admitted(x)
        BY <1>5, EntryAdmitted DEF Backstop, CheckedInv
    <2>3. QED
        BY <2>1, <2>2 DEF CheckedInv, Checked, Admitted, LimitFor
<1>6. ASSUME StopWorkers \/ Close \/ Crash PROVE CheckedInv'
    <2>1. UNCHANGED <<rules, stored>>
        BY <1>6 DEF StopWorkers, Close, Crash
    <2>2. \A r \in Request : \/ pc'[r] \notin {"count", "write"}
                             \/ pc'[r] = pc[r] /\ my'[r] = my[r]
        BY <1>6 DEF StopWorkers, Close, Crash, Gone, Active, requestVars
    <2>3. QED
        BY <2>1, <2>2 DEF CheckedInv, Checked, RulesFor, LimitFor, Writes, Admitted
<1>7. CASE UNCHANGED serverVars
    BY <1>7 DEF serverVars, processVars, requestVars, CheckedInv, Checked, RulesFor, LimitFor, Writes, Admitted
<1>8. QED
    BY <1>1, <1>2, <1>3, <1>4, <1>5, <1>6, <1>7 DEF ServerNext, Teardown

(***************************************************************************)
(* Whatever is stored was admitted: by the two queries of authenticate, by *)
(* the first matching rule and by the checks of the content, for any rules *)
(* of any config.yaml and however requests, commands, stops and starts     *)
(* interleave.                                                             *)
(***************************************************************************)
THEOREM StoredWasAdmitted == ServerSpec => []CommitsWereAdmitted
<1>1. ServerInit => CheckedInv
    BY DEF ServerInit, CheckedInv, Checked
<1>2. CheckedInv => CommitsWereAdmitted
    BY DEF CheckedInv, Admitted, CommitsWereAdmitted
<1>3. QED
    BY <1>1, <1>2, NextChecked, ServerAlways, PTL DEF ServerSpec

-----------------------------------------------------------------------------
(* Tokens that were taken back.                                             *)

\* No server has the token of a late request again, and a request that is under
\* way while nobody is registered knows it.
LateAt(r) ==
    /\ my[r].late => my[r].token \in 1 .. minted /\ \A s \in ServerId : servers[s].token # my[r].token
    /\ Active(r) /\ Registered = {} => my[r].lapse
    /\ my[r].late /\ (pc[r] \in {"write", "render", "open"} \/ reply[r] \in {"ok", "403", "409", "413", "422"})
       /\ my[r].call.via # "adapter" => my[r].lapse

LateInv == \A r \in Request : LateAt(r)

\* Every step keeps LateInv.
LEMMA NextLate == ServerInv /\ LateInv /\ [ServerNext]_serverVars => LateInv'
<1> SUFFICES ASSUME ServerInv, LateInv, [ServerNext]_serverVars PROVE LateInv'
    OBVIOUS
<1> USE ServerAssumption
<1>1. ASSUME NEW r \in Request, Serve(r) \/ Client(r) PROVE LateInv'
    <2>1. RequestMoves(r) /\ UNCHANGED servers /\ UNCHANGED minted
        BY <1>1, AllMoves, RequestStep DEF ServerInv, authVars
    <2>2. ASSUME NEW q \in Request \ {r} PROVE LateAt(q)'
        BY <2>1 DEF RequestMoves, Moves, ServerInv, ServerTypeOK, LateInv, LateAt, Active, Registered
    <2>3. ASSUME NEW call \in Calls, NEW header \in Headers, Arrive(r, call, header) PROVE LateAt(r)'
        <3>1. my'[r].late => /\ my'[r].token \in 1 .. minted
                             /\ \A s \in ServerId : servers[s].token # my'[r].token
            BY <2>3, ArriveSets
        <3>2. my'[r].call = call /\ (my'[r].lapse <=> Registered = {})
            BY <2>3, ArriveSets
        <3>3. call.via # "adapter" => pc'[r] = "count" /\ reply'[r] = Nil
            BY <2>3 DEF Arrive, Goto, ServerInv, ServerTypeOK, Where
        <3>4. QED
            BY <2>1, <3>1, <3>2, <3>3 DEF LateAt, Registered
    <2>4. ASSUME NEW s \in Registered, pc[r] = "find", servers[s].token = my[r].token,
                 my' = [my EXCEPT ![r].authed = [id |-> s, apps |-> servers[s].apps]]
          PROVE  LateAt(r)'
        <3>1. s \in ServerId /\ ~my[r].late
            BY <2>4 DEF Registered, LateInv, LateAt
        <3>2. /\ my'[r].late = my[r].late /\ my'[r].token = my[r].token /\ my'[r].lapse = my[r].lapse
            BY <2>4, <3>1, FindSets
        <3>3. Registered # {}
            BY <2>4
        <3>4. QED
            BY <2>1, <3>1, <3>2, <3>3 DEF LateAt, Registered
    <2>5. ASSUME pc[r] = "count", Registered = {}, UNCHANGED my PROVE LateAt(r)'
        BY <2>1, <2>5 DEF LateInv, LateAt, Active, Registered
    <2>6. ASSUME my'[r].call = my[r].call, my'[r].token = my[r].token,
                 my'[r].late = my[r].late, my'[r].lapse = my[r].lapse,
                 pc[r] # "idle", pc'[r] \notin {"count", "write", "open"},
                 pc'[r] = "render" => pc[r] = "write",
                 pc'[r] = "done" => \/ reply'[r] \in {"401", "500", "none"}
                                    \/ reply'[r] \in {"ok", "409"} /\ pc[r] \in {"write", "render"}
          PROVE  LateAt(r)'
        <3>1. pc[r] # "done"
            BY <2>1 DEF RequestMoves
        <3>2. pc'[r] # "done" => reply'[r] = Nil
            BY <2>1, <3>1 DEF RequestMoves, Moves, ServerInv, Where
        <3>3. QED
            BY <2>1, <2>6, <3>1, <3>2 DEF LateInv, LateAt, Active, Registered
    <2>7. LateAt(r)'
        BY <1>1, <2>3, <2>4, <2>5, <2>6, OtherSets
    <2>8. QED
        BY <2>2, <2>7 DEF LateInv
<1>2. ASSUME NEW s \in ServerId, NEW apps \in AppLists, AddServer(s, apps) PROVE LateInv'
    <2>1. /\ minted' = minted + 1 /\ minted \in Nat
          /\ servers'[s].token = minted + 1 /\ \A t \in ServerId \ {s} : servers'[t] = servers[t]
          /\ UNCHANGED requestVars
        BY <1>2 DEF AddServer, ServerInv, ServerTypeOK
    <2>2. servers'[s] # NoServer
        BY <2>1 DEF NoServer
    <2>3. \A r \in Request : my[r].token \in 1 .. minted => my[r].token # minted + 1 /\ my[r].token \in 1 .. minted + 1
        BY <2>1
    <2>4. \A r \in Request : my[r].late =>
             /\ my[r].token \in 1 .. minted'
             /\ \A t \in ServerId : servers'[t].token # my[r].token
        BY <2>1, <2>3 DEF LateInv, LateAt
    <2>5. Registered' # {}
        BY <2>2 DEF Registered
    <2>6. QED
        BY <2>1, <2>4, <2>5 DEF LateInv, LateAt, Active, requestVars
<1>3. ASSUME NEW s \in ServerId, RotateToken(s) PROVE LateInv'
    <2>1. /\ minted' = minted + 1 /\ minted \in Nat
          /\ servers'[s].token = minted + 1 /\ \A t \in ServerId \ {s} : servers'[t] = servers[t]
          /\ UNCHANGED requestVars
        <3>1. servers[s] \in [token : 1 .. MaxToken, apps : AppLists]
            BY <1>3 DEF RotateToken, Registered, ServerInv, ServerTypeOK
        <3>2. [servers[s] EXCEPT !.token = minted + 1].token = minted + 1
            BY <3>1
        <3>3. QED
            BY <1>3, <3>2 DEF RotateToken, ServerInv, ServerTypeOK
    <2>2. servers'[s] # NoServer
        BY <2>1 DEF NoServer
    <2>3. \A r \in Request : my[r].token \in 1 .. minted => my[r].token # minted + 1 /\ my[r].token \in 1 .. minted + 1
        BY <2>1
    <2>4. \A r \in Request : my[r].late =>
             /\ my[r].token \in 1 .. minted'
             /\ \A t \in ServerId : servers'[t].token # my[r].token
        BY <2>1, <2>3 DEF LateInv, LateAt
    <2>5. Registered' # {}
        BY <2>2 DEF Registered
    <2>6. QED
        BY <2>1, <2>4, <2>5 DEF LateInv, LateAt, Active, requestVars
<1>4. ASSUME NEW s \in ServerId, RemoveServer(s) PROVE LateInv'
    <2>1. UNCHANGED <<minted, pc, reply>> /\ servers'[s].token = 0 /\ \A t \in ServerId \ {s} : servers'[t] = servers[t]
        BY <1>4 DEF RemoveServer, NoServer, ServerInv, ServerTypeOK
    <2>2. ASSUME NEW r \in Request
          PROVE  /\ my'[r].call = my[r].call /\ my'[r].token = my[r].token /\ my'[r].late = my[r].late
                 /\ my'[r].lapse <=> my[r].lapse \/ (Active(r) /\ Registered = {s})
        <3> DEFINE lapse == my[r].lapse \/ (Active(r) /\ Registered = {s})
        <3>1. my'[r] = [my[r] EXCEPT !.lapse = lapse] /\ lapse \in BOOLEAN
            BY <1>4 DEF RemoveServer
        <3> HIDE DEF lapse
        <3>2. my'[r].call = my[r].call /\ my'[r].token = my[r].token /\ my'[r].late = my[r].late /\ my'[r].lapse = lapse
            BY <3>1 DEF ServerInv, ServerTypeOK, Local, NoLocal
        <3>3. QED
            BY <3>2 DEF lapse
    <2>3. Registered' = {} => Registered = {s}
        BY <1>4, <2>1 DEF RemoveServer, Registered
    <2>4. \A r \in Request : my[r].late =>
             /\ my[r].token \in 1 .. minted
             /\ \A t \in ServerId : servers'[t].token # my[r].token
        BY <2>1 DEF LateInv, LateAt
    <2>5. QED
        BY <2>1, <2>2, <2>3, <2>4 DEF LateInv, LateAt, Active
<1>5. ASSUME ListenerLost \/ Terminate \/ Drained \/ \E config \in Configs : Start(config) PROVE LateInv'
    BY <1>5 DEF ListenerLost, Terminate, Drained, Start, requestVars, authVars, LateInv, LateAt, Active, Registered
<1>6. ASSUME Backstop \/ StopWorkers \/ Close \/ Crash PROVE LateInv'
    <2>1. UNCHANGED <<servers, minted>>
        BY <1>6 DEF Backstop, StopWorkers, Close, Crash, authVars
    <2>2. ASSUME NEW r \in Request
          PROVE  /\ my'[r].call = my[r].call /\ my'[r].token = my[r].token /\ my'[r].late = my[r].late
                 /\ my'[r].lapse = my[r].lapse
        <3>1. \/ my'[r] = my[r]
              \/ \E held \in BOOLEAN : my'[r] = [my[r] EXCEPT !.held = held]
            <4>1. CASE Backstop
                <5>1. PICK asking \in SUBSET {q \in Request : pc[q] = "open"} :
                          my'[r] = [my[r] EXCEPT !.held = pc[r] \in {"count", "find", "write"} \/ r \in asking]
                    BY <4>1 DEF Backstop
                <5> DEFINE held == pc[r] \in {"count", "find", "write"} \/ r \in asking
                <5>2. my'[r] = [my[r] EXCEPT !.held = held] /\ held \in BOOLEAN
                    BY <5>1
                <5> HIDE DEF held
                <5>3. QED
                    BY <5>2
            <4>2. CASE Gone
                BY <4>2 DEF Gone
            <4>3. CASE UNCHANGED my
                BY <4>3
            <4>4. QED
                BY <1>6, <4>1, <4>2, <4>3 DEF StopWorkers, Close, Crash, requestVars
        <3>2. my[r] \in Local \/ my[r] = NoLocal
            BY DEF ServerInv, ServerTypeOK
        <3>3. ASSUME NEW held \in BOOLEAN, my'[r] = [my[r] EXCEPT !.held = held]
              PROVE  /\ my'[r].call = my[r].call /\ my'[r].token = my[r].token
                     /\ my'[r].late = my[r].late /\ my'[r].lapse = my[r].lapse
            BY <3>2, <3>3 DEF Local, NoLocal
        <3>4. QED
            BY <3>1, <3>3
    <2>3. ASSUME NEW r \in Request
          PROVE  \/ pc'[r] = pc[r] /\ reply'[r] = reply[r]
                 \/ Active(r) /\ pc'[r] \in {"unwind", "done"} /\ reply'[r] \in {Nil, "none"}
        BY <1>6 DEF Backstop, StopWorkers, Close, Crash, Gone, requestVars, Active, ServerInv, ServerTypeOK, Where
    <2>4. QED
        BY <2>1, <2>2, <2>3 DEF LateInv, LateAt, Active, Registered
<1>7. CASE UNCHANGED serverVars
    BY <1>7 DEF serverVars, authVars, requestVars, LateInv, LateAt, Active, Registered
<1>8. QED
    BY <1>1, <1>2, <1>3, <1>4, <1>5, <1>6, <1>7 DEF ServerNext, Operator, Teardown

(***************************************************************************)
(* A request whose token had been rotated away or removed when it came is  *)
(* not let in, for any number of servers, tokens and requests, unless the  *)
(* last server was removed meanwhile (authenticate of server.py).          *)
(***************************************************************************)
THEOREM TakenBackIsRefused == ServerSpec => []TakenBackStaysOut
<1>1. ServerInit => LateInv
    BY DEF ServerInit, LateInv, LateAt, Active, NoLocal
<1>2. LateInv => TakenBackStaysOut
    BY DEF LateInv, LateAt, TakenBackStaysOut
<1>3. QED
    BY <1>1, <1>2, NextLate, ServerAlways, PTL DEF ServerSpec

-----------------------------------------------------------------------------
(* What clients are told.                                                   *)

Committed(r) == \E x \in stored : x.by = r

TruthAt(r) ==
    /\ pc[r] \in {"idle", "count", "find", "write"} => ~Committed(r)
    /\ pc[r] = "render" => Committed(r)
    /\ reply[r] = "ok" /\ Writes(my[r].call) => Committed(r)
    /\ reply[r] \in {"400", "401", "403", "409", "413", "422"} => ~Committed(r)

TruthInv == \A r \in Request : TruthAt(r)

\* A dispatch tells nobody that a write is stored.
LEMMA DispatchTruth ==
    ASSUME ServerInv, NEW r \in Request, NEW call \in Calls, NEW authed, Dispatch(r, call, authed),
           ~Committed(r), UNCHANGED stored, pc[r] # "done", my'[r].call = call
    PROVE  TruthAt(r)'
<1>1. reply[r] = Nil /\ DOMAIN pc = Request /\ DOMAIN reply = Request
    BY DEF ServerInv, Where, ServerTypeOK
<1>2. ~Committed(r)'
    BY DEF Committed
<1>3. ASSUME NEW step \in {"open", "write"}, Goto(r, step), UNCHANGED reply PROVE TruthAt(r)'
    BY <1>1, <1>2, <1>3, ServerAssumption DEF Goto, TruthAt
<1>4. ASSUME NEW status \in {"ok", "400", "403", "413", "422"}, Finish(r, status), status = "ok" => ~Writes(call)
      PROVE  TruthAt(r)'
    BY <1>1, <1>2, <1>4 DEF Finish, Goto, TruthAt, Writes
<1>5. QED
    BY <1>3, <1>4, DispatchOutcome

\* A step of a request keeps its answer true.
LEMMA RequestTruth ==
    ASSUME ServerInv, TruthInv, NEW r \in Request, Serve(r) \/ Client(r)
    PROVE  TruthAt(r)'
<1> USE ServerAssumption
<1>1. /\ pc[r] # "done" /\ reply[r] = Nil
      /\ DOMAIN pc = Request /\ DOMAIN reply = Request
    BY AllMoves DEF RequestMoves, ServerInv, Where, ServerTypeOK
<1>2. ASSUME NEW call \in Calls, NEW header \in Headers, Arrive(r, call, header) PROVE TruthAt(r)'
    <2>1. my'[r].call = call /\ ~Committed(r) /\ UNCHANGED stored
        BY <1>2, ArriveSets DEF Arrive, TruthInv, TruthAt
    <2>2. CASE call.via = "adapter"
        BY <1>1, <1>2, <2>1, <2>2, DispatchTruth DEF Arrive
    <2>3. CASE call.via # "adapter"
        BY <1>1, <1>2, <2>1, <2>3 DEF Arrive, Goto, TruthAt, Committed
    <2>4. QED
        BY <2>2, <2>3
<1>3. ASSUME Count(r) PROVE TruthAt(r)'
    <2>1. my'[r].call = my[r].call /\ my[r].call \in Calls /\ ~Committed(r) /\ UNCHANGED stored
        BY <1>3 DEF Count, TruthInv, TruthAt, ServerInv, Where, Active, Local
    <2>2. CASE Registered = {}
        BY <1>1, <1>3, <2>1, <2>2, DispatchTruth DEF Count
    <2>3. CASE Registered # {}
        BY <1>1, <1>3, <2>1, <2>3 DEF Count, Finish, Goto, TruthAt, Committed
    <2>4. QED
        BY <2>2, <2>3
<1>4. ASSUME Find(r) PROVE TruthAt(r)'
    <2>1. my[r].call \in Calls /\ ~Committed(r) /\ UNCHANGED stored /\ pc[r] = "find"
        BY <1>4 DEF Find, TruthInv, TruthAt, ServerInv, Where, Active, Local
    <2>2. ASSUME Finish(r, "401") PROVE TruthAt(r)'
        BY <1>1, <2>1, <2>2 DEF Finish, Goto, TruthAt, Committed
    <2>3. ASSUME NEW s \in Registered, my' = [my EXCEPT ![r].authed = [id |-> s, apps |-> servers[s].apps]],
                 Dispatch(r, my[r].call, [id |-> s, apps |-> servers[s].apps])
          PROVE  TruthAt(r)'
        <3>1. my'[r].call = my[r].call
            BY <2>1, <2>3, FindSets DEF Registered
        <3>2. QED
            BY <1>1, <2>1, <2>3, <3>1, DispatchTruth
    <2>4. QED
        BY <1>4, <2>2, <2>3 DEF Find
<1>5. ASSUME Commit(r) PROVE TruthAt(r)'
    <2>1. Committed(r)' /\ UNCHANGED my
        <3>1. Entry(r) \in stored' /\ UNCHANGED my
            BY <1>5 DEF Commit
        <3>2. Entry(r).by = r
            BY DEF Entry
        <3>3. QED
            BY <3>1, <3>2 DEF Committed
    <2>2. pc'[r] \in {"render", "done"} /\ reply'[r] \in {Nil, "ok"}
        BY <1>1, <1>5 DEF Commit, Finish, Goto
    <2>3. QED
        BY <2>1, <2>2 DEF TruthAt
<1>6. ASSUME Conflict(r) PROVE TruthAt(r)'
    <2>1. ~Committed(r)'
        BY <1>6 DEF Conflict, Committed, TruthInv, TruthAt
    <2>2. pc'[r] = "done" /\ reply'[r] = "409"
        BY <1>1, <1>6 DEF Conflict, Finish, Goto
    <2>3. QED
        BY <2>1, <2>2 DEF TruthAt
<1>7. ASSUME DatabaseFails(r) \/ Leave(r) \/ Unwind(r) PROVE TruthAt(r)'
    <2>1. pc'[r] = "done" /\ reply'[r] \in {"500", "none"}
        BY <1>1, <1>7 DEF DatabaseFails, Leave, Unwind, Finish, Goto
    <2>2. QED
        BY <2>1 DEF TruthAt
<1>8. ASSUME Render(r) PROVE TruthAt(r)'
    <2>1. Committed(r)'
        BY <1>8 DEF Render, Committed, TruthInv, TruthAt
    <2>2. pc'[r] = "done" /\ reply'[r] \in {"ok", "500"}
        BY <1>1, <1>8 DEF Render, Finish, Goto
    <2>3. QED
        BY <2>1, <2>2 DEF TruthAt
<1>9. QED
    BY <1>2, <1>3, <1>4, <1>5, <1>6, <1>7, <1>8 DEF Serve, Client

\* Every step keeps TruthInv.
LEMMA NextTruth == ServerInv /\ TruthInv /\ [ServerNext]_serverVars => TruthInv'
<1> SUFFICES ASSUME ServerInv, TruthInv, [ServerNext]_serverVars PROVE TruthInv'
    OBVIOUS
<1> USE ServerAssumption
<1>1. ASSUME NEW r \in Request, Serve(r) \/ Client(r) PROVE TruthInv'
    <2>1. RequestMoves(r)
        BY <1>1, AllMoves DEF ServerInv
    <2>2. \A q \in Request \ {r} : Committed(q)' <=> Committed(q)
        BY <2>1 DEF RequestMoves, Committed, Entry
    <2>3. \A q \in Request \ {r} : pc'[q] = pc[q] /\ my'[q] = my[q] /\ reply'[q] = reply[q]
        BY <2>1 DEF RequestMoves, Moves, ServerInv, ServerTypeOK
    <2>4. ASSUME NEW q \in Request \ {r} PROVE TruthAt(q)'
        BY <2>2, <2>3 DEF TruthInv, TruthAt, Writes
    <2>5. QED
        BY <1>1, <2>4, RequestTruth DEF TruthInv
<1>2. ASSUME Operator PROVE TruthInv'
    <2>1. UNCHANGED <<pc, reply, stored>>
        BY <1>2 DEF Operator, AddServer, RotateToken, RemoveServer, requestVars
    <2>2. \A r \in Request : my'[r].call = my[r].call
        BY <1>2 DEF Operator, AddServer, RotateToken, RemoveServer, requestVars, ServerInv, ServerTypeOK,
                    Local, NoLocal
    <2>3. QED
        BY <2>1, <2>2 DEF TruthInv, TruthAt, Committed, Writes
<1>3. ASSUME ListenerLost \/ Terminate \/ Drained \/ \E config \in Configs : Start(config) PROVE TruthInv'
    BY <1>3 DEF ListenerLost, Terminate, Drained, Start, requestVars, TruthInv, TruthAt, Committed, Writes
<1>4. ASSUME Backstop PROVE TruthInv'
    <2>1. ASSUME NEW r \in Request, ~Active(r) PROVE Committed(r)' <=> Committed(r)
        BY <1>4, <2>1 DEF Backstop, Committed, Entry, Active
    <2>2. ASSUME NEW r \in Request, Active(r) PROVE TruthAt(r)'
        <3>1. pc'[r] = "unwind" /\ reply'[r] = Nil
            BY <1>4, <2>2 DEF Backstop, Active, ServerInv, Where
        <3>2. QED
            BY <3>1 DEF TruthAt
    <2>3. ASSUME NEW r \in Request, ~Active(r) PROVE TruthAt(r)'
        <3>1. pc'[r] = pc[r] /\ reply'[r] = reply[r] /\ my'[r].call = my[r].call
            BY <1>4, <2>3 DEF Backstop, ServerInv, ServerTypeOK, Local, NoLocal
        <3>2. QED
            BY <2>1, <2>3, <3>1 DEF TruthInv, TruthAt, Writes
    <2>4. QED
        BY <2>2, <2>3 DEF TruthInv
<1>5. ASSUME StopWorkers \/ Close \/ Crash PROVE TruthInv'
    <2>1. UNCHANGED stored
        BY <1>5 DEF StopWorkers, Close, Crash
    <2>2. ASSUME NEW r \in Request
          PROVE  \/ pc'[r] = pc[r] /\ reply'[r] = reply[r] /\ my'[r].call = my[r].call
                 \/ pc'[r] = "done" /\ reply'[r] = "none"
        BY <1>5 DEF StopWorkers, Close, Crash, Gone, requestVars, ServerInv, ServerTypeOK, Local, NoLocal
    <2>3. QED
        BY <2>1, <2>2 DEF TruthInv, TruthAt, Committed, Writes
<1>6. CASE UNCHANGED serverVars
    BY <1>6 DEF serverVars, requestVars, TruthInv, TruthAt, Committed, Writes
<1>7. QED
    BY <1>1, <1>2, <1>3, <1>4, <1>5, <1>6 DEF ServerNext, Teardown

(***************************************************************************)
(* "ok" means stored and a refusal means not stored, whatever fails and    *)
(* whenever the process stops (the HTTP handlers of server.py).            *)
(***************************************************************************)
THEOREM AnswersAreTrue == ServerSpec => []AnswersAreTruthful
<1>1. ServerInit => TruthInv
    BY ServerAssumption DEF ServerInit, TruthInv, TruthAt, Committed
<1>2. TruthInv => AnswersAreTruthful
    BY DEF TruthInv, TruthAt, Committed, Writes, AnswersAreTruthful
<1>3. QED
    BY <1>1, <1>2, NextTruth, ServerAlways, PTL DEF ServerSpec

-----------------------------------------------------------------------------
(* Requests without a session.                                              *)

\* Let in by authenticate without a session.
Anonymous(call, authed) == call.via # "adapter" /\ authed \notin Authenticated

AnonymousAt(r) ==
    pc[r] \in {"write", "render", "open"} /\ Anonymous(my[r].call, my[r].authed) => my[r].lapse

LapseExplains ==
    /\ \A r \in Request : AnonymousAt(r)
    /\ \A x \in stored : Anonymous(x.call, x.authed) => my[x.by].lapse

\* Every step keeps LapseExplains.  That a request has seen the table empty is
\* forgotten only when a slot is used for the first time (TruthInv).
LEMMA NextLapse ==
    ServerInv /\ LateInv /\ TruthInv /\ LapseExplains /\ [ServerNext]_serverVars => LapseExplains'
<1> SUFFICES ASSUME ServerInv, LateInv, TruthInv, LapseExplains, [ServerNext]_serverVars PROVE LapseExplains'
    OBVIOUS
<1>1. ASSUME NEW r \in Request, Serve(r) \/ Client(r) PROVE LapseExplains'
    <2>1. RequestMoves(r)
        BY <1>1, AllMoves DEF ServerInv
    <2>2. \A q \in Request \ {r} : pc'[q] = pc[q] /\ my'[q] = my[q]
        BY <2>1 DEF RequestMoves, Moves, ServerInv, ServerTypeOK
    <2>3. ASSUME NEW call \in Calls, NEW header \in Headers, Arrive(r, call, header)
          PROVE  AnonymousAt(r)' /\ ~Committed(r)
        <3>1. my'[r].call = call
            BY <2>3, ArriveSets
        <3>2. CASE call.via # "adapter"
            BY <2>3, <3>2 DEF Arrive, Goto, AnonymousAt, ServerInv, ServerTypeOK, TruthInv, TruthAt
        <3>3. CASE call.via = "adapter"
            BY <2>3, <3>1, <3>3 DEF Arrive, AnonymousAt, Anonymous, TruthInv, TruthAt
        <3>4. QED
            BY <3>2, <3>3
    <2>4. ASSUME NEW s \in Registered, pc[r] = "find",
                 my' = [my EXCEPT ![r].authed = [id |-> s, apps |-> servers[s].apps]]
          PROVE  AnonymousAt(r)' /\ my'[r].lapse = my[r].lapse
        <3>1. s \in ServerId /\ [id |-> s, apps |-> servers[s].apps] \in Authenticated
            BY DEF Registered, ServerInv, ServerTypeOK, NoServer, Authenticated
        <3>2. my'[r].authed \in Authenticated /\ my'[r].lapse = my[r].lapse
            BY <2>4, <3>1, FindSets
        <3>3. QED
            BY <3>2 DEF AnonymousAt, Anonymous
    <2>5. ASSUME pc[r] = "count", Registered = {}, UNCHANGED my PROVE AnonymousAt(r)' /\ my'[r].lapse = my[r].lapse
        <3>1. my[r].lapse
            BY <2>5 DEF LateInv, LateAt, Active
        <3>2. QED
            BY <2>5, <3>1 DEF AnonymousAt
    <2>6. ASSUME my'[r].call = my[r].call, my'[r].authed = my[r].authed, my'[r].lapse = my[r].lapse,
                 pc'[r] \notin {"count", "write", "open"}, pc'[r] = "render" => pc[r] = "write"
          PROVE  AnonymousAt(r)'
        BY <2>6 DEF LapseExplains, AnonymousAt
    <2>7. AnonymousAt(r)' /\ (Committed(r) => my'[r].lapse = my[r].lapse)
        BY <1>1, <2>3, <2>4, <2>5, <2>6, OtherSets
    <2>8. ASSUME NEW q \in Request PROVE AnonymousAt(q)'
        BY <2>2, <2>7 DEF LapseExplains, AnonymousAt
    <2>9. ASSUME NEW x \in stored, Anonymous(x.call, x.authed) PROVE my'[x.by].lapse
        <3>1. x.by \in Request /\ Committed(x.by) /\ my[x.by].lapse
            BY <2>9 DEF LapseExplains, Committed, ServerInv, ServerTypeOK
        <3>2. QED
            BY <2>2, <2>7, <3>1
    <2>10. ASSUME pc[r] = "write", Anonymous(Entry(r).call, Entry(r).authed) PROVE my'[Entry(r).by].lapse
        <3>1. Entry(r).by = r /\ Entry(r).call = my[r].call /\ Entry(r).authed = my[r].authed
            BY DEF Entry
        <3>2. my[r].lapse
            BY <2>10, <3>1 DEF LapseExplains, AnonymousAt
        <3>3. my'[r].lapse
            BY <1>1, <2>3, <2>4, <2>10, <3>2, OtherSets DEF Arrive
        <3>4. QED
            BY <3>1, <3>3
    <2>11. QED
        BY <2>1, <2>8, <2>9, <2>10 DEF LapseExplains, RequestMoves, Anonymous
<1>2. ASSUME \A r \in Request : /\ my'[r].call = my[r].call /\ my'[r].authed = my[r].authed
                                /\ my[r].lapse => my'[r].lapse
                                /\ pc'[r] \in {"write", "render", "open"} => pc'[r] = pc[r],
             \A x \in stored' : x \in stored \/ \E r \in Request : pc[r] = "write" /\ x = Entry(r)
      PROVE  LapseExplains'
    <2>1. ASSUME NEW r \in Request PROVE AnonymousAt(r)'
        BY <1>2 DEF LapseExplains, AnonymousAt
    <2>2. ASSUME NEW x \in stored, Anonymous(x.call, x.authed) PROVE my'[x.by].lapse
        BY <1>2, <2>2 DEF LapseExplains, ServerInv, ServerTypeOK
    <2>3. ASSUME NEW r \in Request, pc[r] = "write", Anonymous(Entry(r).call, Entry(r).authed)
          PROVE  my'[Entry(r).by].lapse
        <3>1. Entry(r).by = r /\ Entry(r).call = my[r].call /\ Entry(r).authed = my[r].authed
            BY DEF Entry
        <3>2. QED
            BY <1>2, <2>3, <3>1 DEF LapseExplains, AnonymousAt
    <2>4. QED
        BY <1>2, <2>1, <2>2, <2>3 DEF LapseExplains, Anonymous
<1>3. ASSUME NEW r \in Request, my[r] \in Local \cup {NoLocal}, NEW b \in BOOLEAN
      PROVE  /\ my'[r] = [my[r] EXCEPT !.lapse = b] =>
                   my'[r].call = my[r].call /\ my'[r].authed = my[r].authed /\ my'[r].lapse = b
             /\ my'[r] = [my[r] EXCEPT !.held = b] =>
                   my'[r].call = my[r].call /\ my'[r].authed = my[r].authed /\ my'[r].lapse = my[r].lapse
    BY <1>3 DEF Local, NoLocal
<1>4. ASSUME Operator PROVE LapseExplains'
    <2>1. UNCHANGED <<pc, stored>>
        BY <1>4 DEF Operator, AddServer, RotateToken, RemoveServer, requestVars
    <2>2. ASSUME NEW r \in Request
          PROVE  /\ my'[r].call = my[r].call /\ my'[r].authed = my[r].authed
                 /\ my[r].lapse => my'[r].lapse
        <3>1. my'[r] = my[r] \/ \E b \in BOOLEAN : (my[r].lapse => b) /\ my'[r] = [my[r] EXCEPT !.lapse = b]
            <4>1. ASSUME NEW s \in ServerId, RemoveServer(s)
                  PROVE  \E b \in BOOLEAN : (my[r].lapse => b) /\ my'[r] = [my[r] EXCEPT !.lapse = b]
                <5> DEFINE b == my[r].lapse \/ (Active(r) /\ Registered = {s})
                <5>1. b \in BOOLEAN /\ (my[r].lapse => b)
                    OBVIOUS
                <5>2. my'[r] = [my[r] EXCEPT !.lapse = b]
                    BY <4>1 DEF RemoveServer
                <5> HIDE DEF b
                <5>3. QED
                    BY <5>1, <5>2
            <4>2. QED
                BY <1>4, <4>1 DEF Operator, AddServer, RotateToken, requestVars
        <3>2. my[r] \in Local \cup {NoLocal}
            BY DEF ServerInv, ServerTypeOK
        <3>3. QED
            BY <1>3, <3>1, <3>2
    <2>3. QED
        BY <1>2, <2>1, <2>2
<1>5. ASSUME ListenerLost \/ Terminate \/ Drained \/ (\E config \in Configs : Start(config)) \/ UNCHANGED serverVars
      PROVE  LapseExplains'
    <2>1. UNCHANGED <<pc, my, stored>>
        BY <1>5 DEF ListenerLost, Terminate, Drained, Start, requestVars, serverVars
    <2>2. QED
        BY <1>2, <2>1
<1>6. ASSUME Backstop \/ StopWorkers \/ Close \/ Crash PROVE LapseExplains'
    <2>1. ASSUME NEW r \in Request
          PROVE  /\ my'[r].call = my[r].call /\ my'[r].authed = my[r].authed
                 /\ my[r].lapse => my'[r].lapse
        <3>1. my'[r] = my[r] \/ \E b \in BOOLEAN : my'[r] = [my[r] EXCEPT !.held = b]
            <4>1. CASE Backstop
                <5>1. PICK asking \in SUBSET {q \in Request : pc[q] = "open"} :
                          my'[r] = [my[r] EXCEPT !.held = pc[r] \in {"count", "find", "write"} \/ r \in asking]
                    BY <4>1 DEF Backstop
                <5> DEFINE b == pc[r] \in {"count", "find", "write"} \/ r \in asking
                <5>2. my'[r] = [my[r] EXCEPT !.held = b] /\ b \in BOOLEAN
                    BY <5>1
                <5> HIDE DEF b
                <5>3. QED
                    BY <5>2
            <4>2. CASE Gone
                BY <4>2 DEF Gone
            <4>3. CASE UNCHANGED my
                BY <4>3
            <4>4. QED
                BY <1>6, <4>1, <4>2, <4>3 DEF StopWorkers, Close, Crash, requestVars
        <3>2. my[r] \in Local \cup {NoLocal}
            BY DEF ServerInv, ServerTypeOK
        <3>3. QED
            BY <1>3, <3>1, <3>2
    <2>2. ASSUME NEW r \in Request PROVE pc'[r] \in {"write", "render", "open"} => pc'[r] = pc[r]
        BY <1>6 DEF Backstop, StopWorkers, Close, Crash, Gone, requestVars, Active
    <2>3. \A x \in stored' : x \in stored \/ \E r \in Request : pc[r] = "write" /\ x = Entry(r)
        BY <1>6 DEF Backstop, StopWorkers, Close, Crash
    <2>4. QED
        BY <1>2, <2>1, <2>2, <2>3
<1>7. QED
    BY <1>1, <1>4, <1>5, <1>6 DEF ServerNext, Teardown

(***************************************************************************)
(* No request is let in, and nothing is stored, without the session of a   *)
(* registered server, unless the request came through the adapter or saw   *)
(* a moment when nobody was registered (authenticate of server.py).        *)
(***************************************************************************)
THEOREM NobodyIsAnonymous == ServerSpec => []LapseExplains
<1>1. ServerInit => LateInv /\ TruthInv /\ LapseExplains
    BY ServerAssumption DEF ServerInit, LateInv, LateAt, Active, NoLocal, TruthInv, TruthAt, Committed,
                            LapseExplains, AnonymousAt
<1>2. QED
    BY <1>1, NextLate, NextTruth, NextLapse, ServerAlways, PTL DEF ServerSpec

================================================================================
