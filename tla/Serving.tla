------------------------------ MODULE Serving ------------------------------
(***************************************************************************)
(* How the server runs HTTP requests.  The middleware puts the request's   *)
(* id into a context variable; each synchronous dependency, the endpoint   *)
(* and the validation of its result are hops that need a thread of the     *)
(* pool; the session draws a connection from the engine's pool at its      *)
(* first statement and keeps it, between hops too, until it commits or is  *)
(* closed.  The bodies are those of app/services/users.py and of the       *)
(* probes; a command is an insert with an audit row (NegotiationTxn has    *)
(* the rest of it).                                                        *)
(***************************************************************************)
EXTENDS Naturals, Sequences, FiniteSets

CONSTANTS Requests,     \* HTTP requests; each is sent at most once
          Emails,       \* addresses of users
          Clients,      \* the addresses that register with role 'client'
          Registered,   \* the addresses that have an account from before
          Headers,      \* values of X-Request-ID that callers send
          Sent,         \* the calls that may be made with each request
          Threads,      \* size of the thread pool
          Connections,  \* pool_size + max_overflow of the engine
          Null,         \* an absent value; of ids, the default "-"
          Earlier       \* the request that created an earlier account

Kinds == {"health", "ready", "register", "login", "me", "create"}

\* body: whether the payload passes its schema, and the password is right.
\* email: of the payload, or the subject of the token; Null if none decodes.
Calls == [kind : Kinds, email : Emails \cup {Null},
          body : {"valid", "wrong", "invalid"}, header : Headers \cup {Null}]

Ids == Requests \cup Headers

ASSUME ServingAssumption ==
    /\ Clients \subseteq Emails /\ Registered \subseteq Emails
    /\ Sent \in [Requests -> SUBSET Calls]
    /\ \A q \in Requests : \A c \in Sent[q] : c.kind \in {"register", "login"} => c.email # Null
    /\ Threads \in Nat \ {0} /\ Connections \in Nat \ {0}
    /\ Null \notin Requests /\ Null \notin Headers /\ Null \notin Emails
    /\ Earlier \notin Requests \cup {Null}

VARIABLES call,     \* the call a request makes
          rid,      \* the id the middleware has given to a request
          ctx,      \* request_id_ctx in the context of a request
          pc,       \* where a request is
          hops,     \* the dependencies and functions it has yet to run
          status,   \* the status of its response, so far
          line,     \* the id on its line in the access log
          threads,  \* the requests that hold a thread
          conns,    \* the requests whose session holds a connection
          pending,  \* an address whose account is inserted, not committed
          staged,   \* the id on the audit row a request has flushed
          account,  \* users: the request that created an address's account
          trail     \* audit_log: the rows, by request, with their ids

pools == <<threads, conns>>
tables == <<account, trail>>
vars == <<call, rid, ctx, pc, hops, status, line, pools, pending, staged, tables>>

Init ==
    /\ call = [q \in Requests |-> Null]
    /\ rid = [q \in Requests |-> Null]
    /\ ctx = [q \in Requests |-> Null]
    /\ pc = [q \in Requests |-> "new"]
    /\ hops = [q \in Requests |-> << >>]
    /\ status = [q \in Requests |-> 0]
    /\ line = [q \in Requests |-> Null]
    /\ threads = {} /\ conns = {}
    /\ pending = [e \in Emails |-> Null]
    /\ staged = [q \in Requests |-> Null]
    /\ account = [e \in Emails |-> IF e \in Registered THEN Earlier ELSE Null]
    /\ trail = {}

-----------------------------------------------------------------------------
\* The hops of an endpoint, dependencies first, each once.  A command returns a
\* Response, so nothing is left to validate.
Route(kind) ==
    CASE kind = "health" -> <<"endpoint", "serialize">>
      [] kind \in {"ready", "register"} -> <<"get_db", "endpoint", "serialize">>
      [] kind = "login" -> <<"get_db", "rate_limit_login", "endpoint", "serialize">>
      [] kind = "me" -> <<"get_db", "get_current_user", "endpoint", "serialize">>
      [] kind = "create" -> <<"get_db", "get_current_user", "require_role",
                              "get_idempotency", "endpoint">>

\* The status its decorator gives an endpoint.
Success(kind) == IF kind \in {"register", "create"} THEN 201 ELSE 200

Kind(q) == call[q].kind
Email(q) == call[q].email
Idle(q) == Cardinality(threads) < Threads
At(q, hop) == pc[q] = "hop" /\ Head(hops[q]) = hop
\* A thread of the pool takes the hop.
Runs(q, hop) == At(q, hop) /\ Idle(q)
Connected(q) == q \in conns \/ Cardinality(conns) < Connections
Go(q, p) == pc' = [pc EXCEPT ![q] = p]

\* The hop returns; after the last one the dependencies are left.
Proceed(q) ==
    /\ hops' = [hops EXCEPT ![q] = Tail(@)]
    /\ Go(q, IF Tail(hops[q]) # << >> THEN "hop"
             ELSE IF Kind(q) = "health" THEN "response" ELSE "exit")
    /\ threads' = threads \ {q}
    /\ UNCHANGED status

\* The hop raises, and get_db is the first to see it.
Raise(q, code) ==
    /\ status' = [status EXCEPT ![q] = code]
    /\ Go(q, "exit")
    /\ threads' = threads \ {q}
    /\ UNCHANGED hops

\* Variant: one variable for all requests.
SetEverywhere(q, id) == [p \in Requests |-> id]

\* request_id_ctx.set: every request is a task with a context of its own, which
\* its threads get a copy of.
Set(q, id) == [ctx EXCEPT ![q] = id]

Arrive(q, c) ==
    /\ pc[q] = "new"
    /\ call' = [call EXCEPT ![q] = c]
    /\ rid' = [rid EXCEPT ![q] = IF c.header # Null THEN c.header ELSE q]
    /\ ctx' = Set(q, rid'[q])
    /\ hops' = [hops EXCEPT ![q] = Route(c.kind)]
    /\ status' = [status EXCEPT ![q] = Success(c.kind)]
    /\ Go(q, "hop")
    /\ UNCHANGED <<line, pools, pending, staged, tables>>

-----------------------------------------------------------------------------
(* Hops that ask the database nothing.                                     *)

Unheard == <<call, rid, ctx, line, conns, pending, staged, tables>>

\* The payload is validated with the dependencies solved.
Invalid(q) ==
    /\ At(q, "endpoint") /\ call[q].body = "invalid"
    /\ Raise(q, 422)
    /\ UNCHANGED Unheard

PlainHop(q) ==
    /\ \/ \E hop \in {"get_db", "rate_limit_login", "get_idempotency", "serialize"} : Runs(q, hop)
       \/ Runs(q, "require_role") /\ Email(q) \in Clients
       \/ Runs(q, "endpoint") /\ Kind(q) \in {"health", "me"}
    /\ Proceed(q)
    /\ UNCHANGED Unheard

\* 429: RateLimiter says when.
TooMany(q) ==
    /\ Runs(q, "rate_limit_login")
    /\ Raise(q, 429)
    /\ UNCHANGED Unheard

Forbidden(q) ==
    /\ Runs(q, "require_role") /\ Email(q) \notin Clients
    /\ Raise(q, 403)
    /\ UNCHANGED Unheard

BadToken(q) ==
    /\ Runs(q, "get_current_user") /\ Email(q) = Null
    /\ Raise(q, 401)
    /\ UNCHANGED Unheard

\* The hop reaches its first statement; the session of a command has had its
\* connection since get_current_user.
FirstStatement(q) ==
    /\ \/ /\ Runs(q, "get_current_user") /\ Email(q) # Null
          /\ Go(q, "select")
       \/ /\ Runs(q, "endpoint") /\ call[q].body # "invalid"
          /\ \/ Kind(q) \in {"ready", "register", "login"} /\ Go(q, "select")
             \/ Kind(q) = "create" /\ Go(q, "insert")
    /\ threads' = threads \cup {q}
    /\ UNCHANGED <<call, rid, ctx, hops, status, line, conns, pending, staged, tables>>

-----------------------------------------------------------------------------
(* Statements.  A thread that waits for a connection or a row waits inside *)
(* the statement.                                                          *)

\* The session has a connection and its SELECT is answered.
Select(q) ==
    /\ pc[q] = "select" /\ Connected(q)
    /\ conns' = conns \cup {q}
    /\ UNCHANGED <<call, rid, ctx, line, pending, staged, tables>>

LoadUser(q) ==
    /\ Select(q) /\ Head(hops[q]) = "get_current_user"
    /\ IF account[Email(q)] = Null THEN Raise(q, 401) ELSE Proceed(q)

\* register_user asks for the address, and hashes the password.
CheckEmail(q) ==
    /\ Select(q) /\ Head(hops[q]) = "endpoint" /\ Kind(q) = "register"
    /\ \/ account[Email(q)] # Null /\ Raise(q, 409)
       \/ account[Email(q)] = Null /\ Go(q, "insert") /\ UNCHANGED <<hops, status, threads>>

Authenticate(q) ==
    /\ Select(q) /\ Head(hops[q]) = "endpoint" /\ Kind(q) = "login"
    /\ IF account[Email(q)] = Null \/ call[q].body = "wrong" THEN Raise(q, 401) ELSE Proceed(q)

Probe(q) ==
    /\ Select(q) /\ Head(hops[q]) = "endpoint" /\ Kind(q) = "ready"
    /\ Proceed(q)

\* Variant: a thread pool that does not copy the context.
CurrentIdUncopied(q) == Null

CurrentId(q) == ctx[q]

Flushed(q) ==
    /\ staged' = [staged EXCEPT ![q] = CurrentId(q)]
    /\ Go(q, "commit")
    /\ UNCHANGED <<call, rid, ctx, hops, status, line, pools>>

\* Variants: no unique index; the account is committed before its audit row.
InsertUserUnchecked(q) ==
    /\ pc[q] = "insert" /\ Kind(q) = "register"
    /\ pending' = [pending EXCEPT ![Email(q)] = q]
    /\ Flushed(q)
    /\ UNCHANGED tables

InsertUserCommitted(q) ==
    /\ pc[q] = "insert" /\ Kind(q) = "register"
    /\ pending[Email(q)] = Null /\ account[Email(q)] = Null
    /\ account' = [account EXCEPT ![Email(q)] = q]
    /\ Flushed(q)
    /\ UNCHANGED <<pending, trail>>

\* users.email is unique: an insert waits for another one of the same address.
InsertUser(q) ==
    /\ pc[q] = "insert" /\ Kind(q) = "register"
    /\ pending[Email(q)] = Null /\ account[Email(q)] = Null
    /\ pending' = [pending EXCEPT ![Email(q)] = q]
    /\ Flushed(q)
    /\ UNCHANGED tables

UniqueViolation(q) ==
    /\ pc[q] = "insert" /\ Kind(q) = "register"
    /\ account[Email(q)] # Null
    /\ Raise(q, 500)
    /\ UNCHANGED Unheard

InsertRequest(q) ==
    /\ pc[q] = "insert" /\ Kind(q) = "create"
    /\ Flushed(q)
    /\ UNCHANGED <<pending, tables>>

\* The transaction of q is over.
Released(q) ==
    /\ conns' = conns \ {q}
    /\ pending' = [e \in Emails |-> IF pending[e] = q THEN Null ELSE pending[e]]
    /\ staged' = [staged EXCEPT ![q] = Null]

\* The rows appear and the connection goes back.  register_user reads its row
\* again, for which it needs another one.
Commit(q) ==
    /\ pc[q] = "commit"
    /\ account' = [e \in Emails |-> IF pending[e] = q THEN q ELSE account[e]]
    /\ trail' = trail \cup {[by |-> q, id |-> staged[q]]}
    /\ Released(q)
    /\ IF Kind(q) = "register"
       THEN Go(q, "refresh") /\ UNCHANGED <<hops, status, threads>>
       ELSE Proceed(q)
    /\ UNCHANGED <<call, rid, ctx, line>>

Refresh(q) ==
    /\ pc[q] = "refresh" /\ Connected(q)
    /\ conns' = conns \cup {q}
    /\ Proceed(q)
    /\ UNCHANGED <<call, rid, ctx, line, pending, staged, tables>>

\* An exception of the driver or of the pool; ready is the only one to catch it.
Error(q) ==
    /\ Raise(q, IF Kind(q) = "ready" THEN 503 ELSE 500)
    /\ UNCHANGED Unheard

\* Variant: the pool lets its callers wait for ever.
NoTimeout(q) == FALSE /\ UNCHANGED vars

\* pool_timeout: no connection came back in 30 seconds.
PoolTimeout(q) ==
    /\ pc[q] \in {"select", "refresh"} /\ ~Connected(q)
    /\ Error(q)

DatabaseError(q) ==
    /\ pc[q] \in {"select", "insert", "commit", "refresh"} /\ Connected(q)
    /\ Error(q)

-----------------------------------------------------------------------------
(* The way back.                                                           *)

\* Variant: the session is rolled back when something was raised, but never
\* closed.
ExitUnclosed(q) ==
    /\ pc[q] = "exit"
    /\ IF status[q] < 400 THEN UNCHANGED <<conns, pending, staged>> ELSE Released(q)
    /\ Go(q, "response")
    /\ UNCHANGED <<call, rid, ctx, hops, status, line, threads, tables>>

\* get_db: rollback if something was raised, close.  It has a thread of its own.
Exit(q) ==
    /\ pc[q] = "exit"
    /\ Released(q)
    /\ Go(q, "response")
    /\ UNCHANGED <<call, rid, ctx, hops, status, line, threads, tables>>

\* The middleware resets the context variable, then writes its line.
Respond(q) ==
    /\ pc[q] = "response" /\ status[q] # 500
    /\ ctx' = [ctx EXCEPT ![q] = Null]
    /\ line' = [line EXCEPT ![q] = ctx'[q]]
    /\ Go(q, "done")
    /\ UNCHANGED <<call, rid, hops, status, pools, pending, staged, tables>>

\* An exception that no handler took: logged first, then reset and raised on.
Fail(q) ==
    /\ pc[q] = "response" /\ status[q] = 500
    /\ line' = [line EXCEPT ![q] = CurrentId(q)]
    /\ ctx' = [ctx EXCEPT ![q] = Null]
    /\ Go(q, "done")
    /\ UNCHANGED <<call, rid, hops, status, pools, pending, staged, tables>>

Progress(q) ==
    \/ Invalid(q) \/ PlainHop(q) \/ TooMany(q) \/ Forbidden(q) \/ BadToken(q)
    \/ FirstStatement(q) \/ LoadUser(q) \/ CheckEmail(q) \/ Authenticate(q) \/ Probe(q)
    \/ InsertUser(q) \/ UniqueViolation(q) \/ InsertRequest(q) \/ Commit(q) \/ Refresh(q)
    \/ PoolTimeout(q) \/ Exit(q) \/ Respond(q) \/ Fail(q)

Next ==
    \E q \in Requests :
        \/ \E c \in Sent[q] : Arrive(q, c)
        \/ Progress(q)
        \/ DatabaseError(q)

Spec == Init /\ [][Next]_vars

\* The server runs what it can run.  Callers need not call, databases not fail.
FairSpec == Spec /\ \A q \in Requests : WF_vars(Progress(q))

-----------------------------------------------------------------------------
(* Properties.                                                             *)

TypeOK ==
    /\ call \in [Requests -> Calls \cup {Null}]
    /\ rid \in [Requests -> Ids \cup {Null}] /\ ctx \in [Requests -> Ids \cup {Null}]
    /\ status \in [Requests -> {0, 200, 201, 401, 403, 409, 422, 429, 500, 503}]
    /\ line \in [Requests -> Ids \cup {Null}]
    /\ pc \in [Requests -> {"new", "hop", "select", "insert", "commit", "refresh",
                            "exit", "response", "done"}]
    /\ DOMAIN hops = Requests
    /\ threads \subseteq Requests /\ conns \subseteq Requests
    /\ pending \in [Emails -> Requests \cup {Null}]
    /\ staged \in [Requests -> Ids \cup {Null}]
    /\ account \in [Emails -> Requests \cup {Null, Earlier}]
    /\ trail \subseteq [by : Requests, id : Ids]

\* A response leaves nothing behind: a request that is answered, with whatever
\* status and after whatever failure, holds no thread, no connection of the pool
\* and no uncommitted row that others would wait for.
NothingKept ==
    \A q \in Requests : pc[q] \in {"response", "done"} =>
        /\ q \notin threads \cup conns
        /\ staged[q] = Null /\ \A e \in Emails : pending[e] # q

\* The status tells the caller what has happened: 201 that its row and its audit
\* entry are stored, a refusal or a 503 that nothing is.  After a 500 either may
\* be the case (register_user reads its row again after the commit), but never an
\* account without its entry or the reverse.
AnswerTells ==
    \A q \in Requests : pc[q] = "done" =>
        LET logged == \E row \in trail : row.by = q
            created == \E e \in Emails : account[e] = q
        IN  /\ status[q] = 201 => logged
            /\ status[q] \notin {201, 500} => ~logged /\ ~created
            /\ Kind(q) = "register" => (logged <=> created)

\* Every audit row carries the correlation id of the request that wrote it,
\* though requests share threads and interleave at every hop.
AuditTagged == \A row \in trail : row.id = rid[row.by]

\* Every request is answered, also when all threads wait for connections whose
\* holders wait for a thread: the pool's timeout breaks that circle.  (A caller
\* that has its answer does not come back, so there is a last moment.)
EveryRequestAnswered == []<>(\A q \in Requests : pc[q] \in {"new", "done"})

\* Registration keeps its promise whatever the interleaving.
Promise == INSTANCE Accounts WITH
    account <- account,
    entries <- {<<row.by, Email(row.by)>> : row \in {r \in trail : Kind(r.by) = "register"}}
ImplementsAccounts == Promise!Spec

\* logging_config.py:4 "The current request id is carried in a contextvar and
\* injected into every record": the line of the access log has it.
AccessLogTagged == \A q \in Requests : pc[q] = "done" => line[q] = rid[q]
=============================================================================
