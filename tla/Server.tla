-------------------------------- MODULE Server --------------------------------
(***************************************************************************)
(* The master process from start to exit, the requests it serves and the   *)
(* operator's commands beside it: src/vaultmcp/master/server.py,           *)
(* __main__.py, tools.py (dispatch), mcp_adapter.py, and the servers table *)
(* of db.py.                                                               *)
(*                                                                         *)
(* A request to /mcp/call or /mcp/subscribe counts the servers, looks its  *)
(* token up in a second query, and is dispatched; one to /mcp/streamable   *)
(* is dispatched as it is.  A stop lets uvicorn wait for the requests,     *)
(* cancel them after timeout_graceful_shutdown, and run the lifespan's     *)
(* teardown.  Pages themselves are in PageStore and Rendering.             *)
(***************************************************************************)
EXTENDS Admission

CONSTANTS
    ServerId,  \* server identifiers
    AppLists,  \* what --apps may list
    Configs,   \* what a start may find in config.yaml
    Request,   \* slots for requests
    Calls,     \* the requests that clients make
    MaxToken,  \* bound on the tokens generated
    MaxStart   \* bound on the starts of the process

\* What a client can be told: an HTTP status, or nothing.
Replies == {"ok", "400", "401", "403", "409", "413", "422", "500", "none"}

ASSUME ServerAssumption ==
    /\ MaxToken \in Nat /\ MaxStart \in Nat
    /\ AppLists \subseteq (SUBSET App) \ {{}}
    /\ \A c \in Calls :
          c.via \in {"call", "subscribe", "adapter"} /\ (c.tool = "write" => c.content \in Content)
    /\ \A config \in Configs :
          config.entries \in Seq([glob : SUBSET Path, expr : [kind : STRING, app : App \cup {Nil}]])
    /\ Nil \notin Replies \cup Rule

VARIABLES
    phase,    \* where the process is
    starts,   \* how often it was started
    rules,    \* the rules loaded at the start
    pool,     \* the connection pool
    listener, \* the LISTEN connection
    servers,  \* the table servers
    minted,   \* the tokens generated so far are 1 .. minted
    pc,       \* where each request is
    my,       \* its arguments and local values
    reply,    \* the status its client was sent
    stored    \* history: what the requests have committed

processVars == <<phase, starts, rules, pool, listener>>
authVars == <<servers, minted>>
requestVars == <<pc, my, reply>>
serverVars == <<processVars, authVars, requestVars, stored>>

NoServer == [token |-> 0, apps |-> {}]

Authenticated == [id : ServerId, apps : AppLists]

\* late and lapse are history: the token had been taken back when the request
\* came, and no server was registered at some moment since.
Local == [call : Calls, token : 0 .. MaxToken, authed : Authenticated \cup {Nil},
          held : BOOLEAN, late : BOOLEAN, lapse : BOOLEAN]

NoLocal == [call |-> Nil, token |-> 0, authed |-> Nil, held |-> FALSE, late |-> FALSE, lapse |-> FALSE]

ServerTypeOK ==
    /\ phase \in {"down", "running", "draining", "stopping", "closing"}
    /\ starts \in 0 .. MaxStart
    /\ rules = Nil \/ (DOMAIN rules \subseteq Nat /\ \A i \in DOMAIN rules : rules[i] \in Rule)
    /\ pool \in {"none", "open", "closed", "abandoned"}
    /\ listener \in {"none", "up", "lost"}
    /\ servers \in [ServerId -> [token : 1 .. MaxToken, apps : AppLists] \cup {NoServer}]
    /\ minted \in 0 .. MaxToken
    /\ \A s, t \in ServerId : servers[s].token = servers[t].token => s = t \/ servers[s] = NoServer
    /\ pc \in [Request -> {"idle", "count", "find", "write", "render", "open", "unwind", "done"}]
    /\ my \in [Request -> Local \cup {NoLocal}]
    /\ reply \in [Request -> {Nil} \cup Replies]
    /\ \A x \in stored : x.by \in Request /\ x.call \in Calls

ServerInit ==
    /\ phase = "down" /\ starts = 0
    /\ rules = Nil /\ pool = "none" /\ listener = "none"
    /\ servers = [s \in ServerId |-> NoServer]
    /\ minted = 0
    /\ pc = [r \in Request |-> "idle"]
    /\ my = [r \in Request |-> NoLocal]
    /\ reply = [r \in Request |-> Nil]
    /\ stored = {}

Active(r) == pc[r] \notin {"idle", "done"}

Registered == {s \in ServerId : servers[s] # NoServer}

-----------------------------------------------------------------------------
(* The operator's commands that write to servers, each one statement.       *)

\* add-server: ON CONFLICT (id) DO NOTHING.
AddServer(s, apps) ==
    /\ minted < MaxToken /\ s \notin Registered
    /\ minted' = minted + 1
    /\ servers' = [servers EXCEPT ![s] = [token |-> minted + 1, apps |-> apps]]
    /\ UNCHANGED <<processVars, requestVars, stored>>

\* Mutant: UPDATE without WHERE id.
RotateEverybody(s) ==
    /\ minted < MaxToken /\ s \in Registered
    /\ minted' = minted + 1
    /\ servers' = [t \in ServerId |-> IF t \in Registered THEN [servers[t] EXCEPT !.token = minted + 1] ELSE NoServer]
    /\ UNCHANGED <<processVars, requestVars, stored>>

\* rotate-token: UPDATE ... WHERE id.
RotateToken(s) ==
    /\ minted < MaxToken /\ s \in Registered
    /\ minted' = minted + 1
    /\ servers' = [servers EXCEPT ![s].token = minted + 1]
    /\ UNCHANGED <<processVars, requestVars, stored>>

RemoveServer(s) ==
    /\ s \in Registered
    /\ servers' = [servers EXCEPT ![s] = NoServer]
    /\ my' = [r \in Request |-> [my[r] EXCEPT !.lapse = @ \/ (Active(r) /\ Registered = {s})]]
    /\ UNCHANGED <<processVars, minted, pc, reply, stored>>

-----------------------------------------------------------------------------
(* Requests.                                                                *)

Goto(r, step) == pc' = [pc EXCEPT ![r] = step]

Finish(r, status) == Goto(r, "done") /\ reply' = [reply EXCEPT ![r] = status]

\* The adapter passes no server, no rules and no limit.
RulesFor(call) == IF call.via = "adapter" THEN <<>> ELSE rules
LimitFor(call) == IF call.via = "adapter" THEN DefaultLimit ELSE Limit

\* call_handler_by_name, up to the first statement that writes.
Dispatch(r, call, authed) ==
    LET status == Status(call, authed, RulesFor(call), LimitFor(call))
    IN  CASE call.via = "subscribe" -> Goto(r, "open") /\ UNCHANGED reply
          [] call.via # "subscribe" /\ status = "ok" /\ call.tool \in {"write", "append_log"} ->
                Goto(r, "write") /\ UNCHANGED reply
          [] OTHER -> Finish(r, status)

\* What an Authorization header may say; the value 0 is blank.
Headers == {Nil} \cup [scheme : {"bearer", "basic"}, value : 0 .. minted]

Arrive(r, call, header) ==
    LET token == ParseBearer(header)
        taken_back == token \in 1 .. minted /\ \A s \in ServerId : servers[s].token # token
    IN  /\ phase = "running" /\ pc[r] = "idle"
        /\ my' = [my EXCEPT ![r] = [NoLocal EXCEPT !.call = call, !.token = token,
                                        !.late = taken_back, !.lapse = Registered = {}]]
        /\ IF call.via = "adapter" THEN Dispatch(r, call, Nil) ELSE Goto(r, "count") /\ UNCHANGED reply
        /\ UNCHANGED <<processVars, authVars, stored>>

\* authenticate, first query: without servers nobody is asked for a token.
Count(r) ==
    /\ pc[r] = "count"
    /\ IF Registered = {} THEN Dispatch(r, my[r].call, Nil)
       ELSE IF my[r].token = 0 THEN Finish(r, "401")
       ELSE Goto(r, "find") /\ UNCHANGED reply
    /\ UNCHANGED <<processVars, authVars, my, stored>>

\* Mutant: a token that was found once is remembered.
FindRemembered(r) ==
    /\ pc[r] = "find"
    /\ \/ Finish(r, "401") /\ UNCHANGED my
       \/ \E s \in Registered :
            LET authed == [id |-> s, apps |-> servers[s].apps] IN
            /\ my' = [my EXCEPT ![r].authed = authed]
            /\ Dispatch(r, my[r].call, authed)
    /\ UNCHANGED <<processVars, authVars, stored>>

\* Second query.
Find(r) ==
    /\ pc[r] = "find"
    /\ \/ /\ \A s \in ServerId : servers[s].token # my[r].token
          /\ Finish(r, "401") /\ UNCHANGED my
       \/ \E s \in Registered :
            LET authed == [id |-> s, apps |-> servers[s].apps] IN
            /\ servers[s].token = my[r].token
            /\ my' = [my EXCEPT ![r].authed = authed]
            /\ Dispatch(r, my[r].call, authed)
    /\ UNCHANGED <<processVars, authVars, stored>>

Entry(r) == [by |-> r, call |-> my[r].call, authed |-> my[r].authed, rules |-> RulesFor(my[r].call)]

Commit(r) ==
    /\ pc[r] = "write"
    /\ stored' = stored \cup {Entry(r)}
    /\ IF my[r].call.tool = "write" THEN Goto(r, "render") /\ UNCHANGED reply ELSE Finish(r, "ok")
    /\ UNCHANGED <<processVars, authVars, my>>

\* The base version is not the page's.
Conflict(r) ==
    /\ pc[r] = "write" /\ my[r].call.tool = "write"
    /\ Finish(r, "409")
    /\ UNCHANGED <<processVars, authVars, my, stored>>

\* Mutant: a COMMIT whose answer is lost is tried again, and finds its own page.
DatabaseFailsRetried(r) ==
    /\ pc[r] \in {"count", "find", "write"}
    /\ Finish(r, IF pc[r] = "write" THEN "409" ELSE "500")
    /\ stored' = IF pc[r] = "write" THEN stored \cup {Entry(r)} ELSE stored
    /\ UNCHANGED <<processVars, authVars, my>>

\* A statement fails; whether a COMMIT that fails has taken effect is open.
DatabaseFails(r) ==
    /\ pc[r] \in {"count", "find", "write"}
    /\ Finish(r, "500")
    /\ stored' \in {stored} \cup (IF pc[r] = "write" THEN {stored \cup {Entry(r)}} ELSE {})
    /\ UNCHANGED <<processVars, authVars, my>>

\* render_to_disk; a failure is reported although the write is committed.
Render(r) ==
    /\ pc[r] = "render"
    /\ \E status \in {"ok", "500"} : Finish(r, status)
    /\ UNCHANGED <<processVars, authVars, my, stored>>

\* The client of a stream goes away.
Leave(r) ==
    /\ pc[r] = "open"
    /\ Finish(r, "none")
    /\ UNCHANGED <<processVars, authVars, my, stored>>

-----------------------------------------------------------------------------
(* The life of the process.                                                 *)

\* The lifespan up to its yield.  config.yaml is read here and never again; one
\* that does not load fails the start, when the pool is open already, and the
\* process exits.
Start(config) ==
    /\ phase = "down" /\ starts < MaxStart
    /\ starts' = starts + 1
    /\ IF LoadsRules(config)
       THEN phase' = "running" /\ pool' = "open" /\ listener' = "up" /\ rules' = LoadRules(config)
       ELSE phase' = "down" /\ pool' = "none" /\ listener' = "none" /\ rules' = Nil
    /\ UNCHANGED <<authVars, requestVars, stored>>

\* Nobody notices: the task that holds the connection sleeps.
ListenerLost ==
    /\ phase \in {"running", "draining"} /\ listener = "up"
    /\ listener' = "lost"
    /\ UNCHANGED <<phase, starts, rules, pool, authVars, requestVars, stored>>

Terminate ==
    /\ phase = "running" /\ phase' = "draining"
    /\ UNCHANGED <<starts, rules, pool, listener, authVars, requestVars, stored>>

Drained ==
    /\ phase = "draining" /\ \A r \in Request : ~Active(r)
    /\ phase' = "stopping"
    /\ UNCHANGED <<starts, rules, pool, listener, authVars, requestVars, stored>>

\* Mutant: uvicorn.run without timeout_graceful_shutdown.
BackstopNever ==
    /\ phase = "draining" /\ FALSE
    /\ UNCHANGED serverVars

\* timeout_graceful_shutdown has passed: uvicorn cancels the requests that are
\* left and goes on without waiting for them.  A stream has a connection while it
\* asks for the events it missed.
Backstop ==
    /\ phase = "draining" /\ \E r \in Request : Active(r)
    /\ phase' = "stopping"
    /\ pc' = [r \in Request |-> IF Active(r) THEN "unwind" ELSE pc[r]]
    /\ \E asking \in SUBSET {r \in Request : pc[r] = "open"} :
          my' = [r \in Request |->
                    [my[r] EXCEPT !.held = pc[r] \in {"count", "find", "write"} \/ r \in asking]]
    /\ stored' \in {stored \cup {Entry(r) : r \in w} : w \in SUBSET {r \in Request : pc[r] = "write"}}
    /\ UNCHANGED <<starts, rules, pool, listener, authVars, reply>>

\* A cancelled request lets go of its connection.
Unwind(r) ==
    /\ pc[r] = "unwind"
    /\ my' = [my EXCEPT ![r].held = FALSE]
    /\ Finish(r, "none")
    /\ UNCHANGED <<processVars, authVars, stored>>

\* What is left of the requests when the process ends.
Gone == /\ pc' = [r \in Request |-> IF Active(r) THEN "done" ELSE pc[r]]
        /\ reply' = [r \in Request |-> IF Active(r) THEN "none" ELSE reply[r]]
        /\ my' = [r \in Request |-> [my[r] EXCEPT !.held = FALSE]]

(***************************************************************************)
(* The teardown: the embedding worker, then the broadcaster, whose stop    *)
(* awaits the listen task.  If that task's connection is lost, UNLISTEN    *)
(* fails in it, stop raises, and the process ends without db.close.  The   *)
(* streams that stop tells to end have ended by now.                       *)
(***************************************************************************)
StopWorkers ==
    /\ phase = "stopping"
    /\ IF listener = "up"
       THEN phase' = "closing" /\ listener' = "none" /\ UNCHANGED <<pool, requestVars>>
       ELSE phase' = "down" /\ pool' = "abandoned" /\ UNCHANGED listener /\ Gone
    /\ UNCHANGED <<starts, rules, authVars, stored>>

\* Mutant: pool.terminate, which waits for nobody.
CloseAtOnce ==
    /\ phase = "closing"
    /\ phase' = "closing" /\ pool' = "closed"
    /\ UNCHANGED <<starts, rules, listener, authVars, requestVars, stored>>

\* pool.close waits for the connections that are in use.
Close ==
    /\ phase = "closing" /\ \A r \in Request : ~my[r].held
    /\ phase' = "down" /\ pool' = "closed" /\ Gone
    /\ UNCHANGED <<starts, rules, listener, authVars, stored>>

\* SIGKILL, or the machine.
Crash ==
    /\ phase # "down"
    /\ phase' = "down" /\ pool' = "none" /\ listener' = "none" /\ Gone
    /\ UNCHANGED <<starts, rules, authVars, stored>>

-----------------------------------------------------------------------------
Operator ==
    \/ \E s \in ServerId, apps \in AppLists : AddServer(s, apps)
    \/ \E s \in ServerId : RotateToken(s) \/ RemoveServer(s)

Serve(r) == Count(r) \/ Find(r) \/ Commit(r) \/ Conflict(r) \/ DatabaseFails(r) \/ Render(r) \/ Unwind(r)

Client(r) == Leave(r) \/ \E c \in Calls, h \in Headers : Arrive(r, c, h)

Teardown == Drained \/ Backstop \/ StopWorkers \/ Close

ServerNext ==
    \/ Operator
    \/ \E r \in Request : Serve(r) \/ Client(r)
    \/ \E config \in Configs : Start(config)
    \/ ListenerLost \/ Terminate \/ Teardown \/ Crash

ServerSpec == ServerInit /\ [][ServerNext]_serverVars

\* The event loop runs what is ready, the timeout of the shutdown passes, and a
\* cancelled request ends.  That a request ends by itself is not assumed.
FairServerSpec ==
    /\ ServerSpec
    /\ WF_serverVars(Teardown)
    /\ \A r \in Request : WF_serverVars(Unwind(r))

-----------------------------------------------------------------------------
(* Properties.                                                              *)

\* An answer tells what has happened: "ok" to a write means that it is in the
\* database, and a refusal, of whatever kind, that it is not.  Only after a 500
\* or a broken connection the client cannot know.
AnswersAreTruthful ==
    \A r \in Request :
        LET committed == \E x \in stored : x.by = r IN
        /\ reply[r] = "ok" /\ my[r].call.tool \in {"write", "append_log"} => committed
        /\ reply[r] \in {"400", "401", "403", "409", "413", "422"} => ~committed

\* Whatever was stored, by whichever start of the process: the session
\* is that of the token's server, unless nobody was registered or the adapter was
\* used; the first rule of the loaded config.yaml that matches the path lets the
\* app write there (the adapter has no rules); and the wiki accepts the content.
CommitsWereAdmitted ==
    \A x \in stored :
        /\ x.authed # Nil => x.call.server = x.authed.id /\ x.call.app \in x.authed.apps
        /\ x.call.tool = "write" =>
              /\ \A i \in DOMAIN x.rules :
                    LET rule == x.rules[i] IN
                    x.call.path \in rule.glob /\ (rule.human_only \/ rule.producer \notin {Nil, x.call.app}) =>
                        \E j \in DOMAIN x.rules : j < i /\ x.call.path \in x.rules[j].glob
              /\ x.call.content.size <= LimitFor(x.call)
              /\ x.call.content.text = "clean" /\ x.call.content.front = "complete" /\ ~x.call.content.secret

\* A token that was rotated away or whose server was removed before a request
\* comes does not get it in: not by the two queries of authenticate, between
\* which the table may change, unless at some moment nobody was registered.
TakenBackStaysOut ==
    \A r \in Request :
        my[r].late /\ (pc[r] \in {"write", "render", "open"} \/ reply[r] \in {"ok", "403", "409", "413", "422"})
        /\ my[r].call.via # "adapter" => my[r].lapse

\* The pool is not closed under a request that uses it, cancelled ones included;
\* and a stop closes it, unless the LISTEN connection was lost before.
PoolOutlivesRequests ==
    /\ \A r \in Request : pc[r] \in {"count", "find", "write"} \/ my[r].held => pool = "open"
    /\ pool = "abandoned" => listener = "lost"

\* A stop ends the process, though nothing but the timeout ends an open stream.
ShutdownEnds == phase = "draining" ~> phase = "down"
=============================================================================
