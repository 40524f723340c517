# A TLA+ model of the procurement negotiation service

The program under `src/` is a FastAPI service (SQLAlchemy 2 on PostgreSQL at
READ COMMITTED) in which clients publish purchase requests, suppliers make
offers, and the two parties of each thread counter, accept or reject until one
offer wins. This directory holds its specifications, the TLC runs that check
them on small instances and the proofs TLAPS checks for every instance.

## Inventory

| part | state it keeps | operations | talks to |
|---|---|---|---|
| negotiation service (`services/negotiation.py`) | rows of `product_requests`, `negotiations`, `proposals` | `create_request`, `make_offer`, `accept`, `reject`, `counter`; four queries | audit trail, through the session |
| idempotency (`deps.py`, `routers/_helpers.py`) | rows of `idempotency_keys` | `lookup`, `save`, `commit` around every command | wraps the service in its own transaction |
| audit trail (`services/audit.py`) | rows of `audit_log` | `record` | shares the caller's transaction |
| unit of work (`database.py`) | one session and connection per request; pool of 5 + 10 | `get_db`: rollback on error, close | PostgreSQL locks |
| routers, RBAC (`routers/`, `deps.py`) | none | one endpoint per operation | all of the above |
| registration and login (`services/users.py`, `routers/auth.py`, `security.py`) | rows of `users` | `register_user`, `authenticate_user`, `me` | audit trail |
| login rate limiter (`ratelimit.py`) | a deque of stamps per address, one lock | `rate_limit_login` | threads of the server |
| request context (`middleware.py`, `logging_config.py`) | a context variable | `dispatch` | every log line and audit row |
| web client (`static/app.js`) | session, open thread, open modal, disabled buttons, the calls under way | `api`, `refresh`, `openNegotiation`, decisions, modals, forms | the HTTP API |
| assembly (`main.py`, `config.py`, `errors.py`, `health.py`) | none after start-up | error mapping, health probe | - |

What is hard in it is concurrency: every command is a multi-statement
transaction; it locks some rows, reads others without a lock, and relies on
both until it commits. Requests fail half-way (connection loss, deadlock
victims), are retried with or without an `Idempotency-Key`, and arrive from two
tabs of the same user. Correct means:

- service: one winner per request; a closed request is settled; parties take
  turns; the agreed price is the last one proposed; nothing leaves a terminal
  status; each committed command is one step of the documented state machine;
- idempotency: one effect per key, stored together with the key;
- audit trail: every status has its entries, and every entry has its cause;
- unit of work: every call is answered; locks, rows, threads and connections are
  given back whatever fails, and the status tells what is stored;
- registration: one account per address, stored together with its audit entry;
- queries: the detail of a thread is one it had, and a page that misses a row
  misses it for a reason;
- rate limiter: the budget holds whatever the interleaving, a truthful Retry-After;
- request context: every line of a request carries its id;
- web client: what the user confirms is what the user saw, once, and every
  pressed button comes back.

`PROJECT.json` lists the hazards line by line under `hazards`.

## Modules

| module | models |
|---|---|
| `NegotiationData` | rows, statuses and the pure helpers on them |
| `Negotiation` | the promised service: every successful command is one atomic step on the committed rows |
| `NegotiationTxn` | the commands as concurrent PostgreSQL transactions inside the idempotency wrapper; its properties |
| `NegotiationTxnInvariant` | `IInv`, the inductive invariant, and `LocksFit`, which transaction holds which locks |
| `NegotiationTxnProofs` | `Spec => []IInv` |
| `NegotiationTxnTheorems` | the properties and the refinement that follow from it; the turns and the audit trail |
| `NegotiationTxnLocks` | `Spec => []LocksFit`, and which deadlocks there can be |
| `MCNegotiationTxn` | instances for TLC |
| `RateLimiter` | the login rate limiter: threads, one lock, a clock; its properties |
| `RateLimiterInvariant` | its inductive invariant |
| `RateLimiterProofs` | `Spec => []IInv` and the theorems that follow |
| `MCRateLimiter` | instances for TLC |
| `Queries` | the lists by page and the detail of a thread, read in two statements, among the commands; their properties |
| `QueriesInvariant` | what a read under way can rely on: `SnapshotInv` for a detail, `PagingInv` for a list |
| `QueriesProofs` | both are invariant; the detail is a snapshot, pages miss rows only for departures |
| `MCQueries` | instances for TLC |
| `Accounts` | what registration promises: an account and its audit entry in one step |
| `Serving` | requests on the thread pool and the connection pool, with their correlation id: session, token, role, `register`, `login`, `me`, the probes, one command; its properties |
| `ServingInvariant` | its inductive invariant, and `Outcomes`, what each request has stored and will be told |
| `ServingProofs` | `Spec => []IInv`, the theorems that follow, the refinement |
| `MCServing` | instances for TLC |
| `WebClient` | one page of the web client over the service of `Negotiation`; its properties |
| `WebClientInvariant` | its inductive invariant: what the page may believe of what it has read |
| `WebClientProofs` | `Spec => []IInv` and the theorems that follow |
| `MCWebClient` | instances for TLC |

`Negotiation` is used three times: `NegotiationTxn` is shown to implement it, and
`WebClient` and `Queries` run on it. So what they assume of the server is what
the transactions have been shown to provide. `NegotiationTxn` and `Serving` look
at the same requests from two sides: the first has all statements of the
commands and their row locks and no pools, the second the way of a request from
the middleware to its answer, with one command that only inserts.

### How NegotiationTxn corresponds to the code

*State.* `owner`, `reqStatus`, `negStatus`, `chain`, `agreed` are the committed
columns; a thread is named by its request and supplier (unique constraint
`uq_request_supplier`). `audit` counts the rows per entity and transition, so
the properties do not depend on the order of rows written in one transaction.
`keys` holds the call a key was stored for. `reqLock`, `negLock`, `keyLock`
give the transaction that holds a row: by `SELECT ... FOR UPDATE`, by an
`UPDATE`, or by an uncommitted insert. Per worker, `pc` is the statement it is
about to run or, between calls, how the last call was answered; `seen`, `sibs`,
`sib` are what it has read.

*Steps.* A step runs from one statement that can wait to the next:

| action | code |
|---|---|
| `Receive` | an endpoint of `routers/` is called, by any user its guard admits |
| `LookupHit`, `LookupMiss` | `Idempotency.lookup` |
| `CreateRequest` | `create_request` up to its flush |
| `OfferRefused`, `OfferOnRequest` | `make_offer`: request row locked, checks |
| `InsertNegotiation` | `make_offer`: insert under the unique constraint |
| `LoadRefused`, `LoadActiveForResponse` | `_load_active_for_response` |
| `CloseRequest` | `accept`: request row locked, siblings selected |
| `SupersedeSibling` | one turn of the loop in `_supersede_siblings` |
| `SaveKey` | the key inserted by the flush of the commit |
| `UniqueViolation` | an insert meets a committed duplicate: `IntegrityError`, a 500 |
| `Commit` | effect, audit rows and key become visible, locks go |
| `Abort` | connection or process lost at any statement; rollback |
| `DeadlockVictim` | PostgreSQL aborts a member of a cycle of waits |

A read directly after a granted lock is in the same step as the grant: the lock
commutes with whatever others do between the two. The siblings, which are
selected without a lock, get steps of their own afterwards, and each is updated
whatever its status has become, as the `UPDATE` by primary key does. The
siblings come in an arbitrary order because the query has none. An uncommitted
row is invisible, so asking for it is a 404 that waits for nobody. Locks on
`users` rows taken by foreign keys conflict with nothing the program does and
are left out.

*External code.* Row locks, the unique indexes and the deadlock detector of
PostgreSQL are modelled from how `src/` uses them (`external` in the map). On
SQLite, which the tests use, `FOR UPDATE` does nothing: that is the variant
`PlainSelectNegotiation`, with which the properties fail.

### How RateLimiter corresponds to the code

A call of `rate_limit_login` is `ReadClock` (lines 32-35: the address, then the
time, before the lock), `Prune` (the lock granted, the loop of line 39), then
`Pass` (the comparison) and `Admit` (the append), or `Refuse` (the 429).
`clock` is `time.monotonic()`, in ticks of which `Second` make a second, so that
the truncation of Retry-After is visible; `hits` is `_hits`. `admitted` and
`due` are history: every admission with its stamp and its moment, and the
earliest end of an announced delay since the last admission. The lock is
modelled as held from `Prune` on, and any thread that waits may get it, so the
order in which stamps enter a deque need not be their order in time.

### How WebClient corresponds to the code

The service is the state of `Negotiation`. A record in `call` is one handler
that awaits `api()`: its phase says whether the server has yet to execute the
request (`post`), whether the answer is on its way (`done`, `refused`), or which
of the reads that follow it awaits (`refresh`, `get`, `got`). `shown` is the
thread in the detail panel as it was read, `modal` the open modal, `form` a
filled-in request form.

| action | code |
|---|---|
| `OpenNegotiation` | click on a thread in the list: `openNegotiation` |
| `Decide` | `accept_`, `reject_`: `postDecision` under `withLoading` |
| `CounterOffer`, `MakeOffer` | `openModal` |
| `Confirm`, `CloseModal` | the modal's submit; cancel, backdrop, Escape |
| `SubmitRequest` | submit of the request form |
| `Execute`, `Refuse`, `GetNegotiation` | the server executes the call |
| `ServerError` | a POST, or a read of the lists, is answered by an error of the pool, the database or the server: `throw` in `api` |
| `Succeeded`, `Refreshed`, `Render` | success of the POST, `refresh`, the rendering in `openNegotiation` |
| `DetailError` | the `catch` in `openNegotiation`: the old detail stays |
| `ShowError` | the `catch` of the handler and the `finally` of `withLoading`: an open modal or a filled-in form stays |
| `NetworkError` | the same for a connection that fails |
| `Others` | the other users act on the service |

A button is disabled while its own call is under way, and only that button:
`Enabled` says which of the calls under way disable it. Rendering the detail
replaces the decision buttons by new ones, enabled (`here`). A POST whose
connection fails may have reached the server, or may still reach it
(`orphan`). A read may fail as well, after the POST has succeeded: `refresh` lets
the error through to the handler, which treats it as it treats a refused POST;
`openNegotiation` catches it and returns as if it had read the thread, unless
the detail broke off on its way, which is `null` and raises when it is used.
`misreported` and `smooth` are history: the intents of which an error was shown
though they took effect, or may have; and whether the user has waited for every
answer, no connection has failed and the page was read again after each
counteroffer. Every call carries a fresh key, so the server's idempotency never
applies to the page and is left out here.

### How Queries corresponds to the code

The commands are those of `Negotiation`, with the order of the ids added, by
which the lists sort: `newer` has the pairs of rows of one table whose first has
the higher id, and the place of a row in a list is the number of listed rows
that are newer (`Rank`). An id is drawn at the insert and its row appears at the
commit, so a new row can appear below rows drawn later (`Insert`). One reader
calls the queries: `StartList` and `NextPage`
are `list_requests` and `list_negotiations`, each page one statement with
`LIMIT` and `OFFSET`; `got` has the rows handed out so far, and as history
`steady` the rows that were in the list all the time and `left` how many have
left it since paging began. `GetNegotiation` is the `SELECT` of
`get_negotiation`; `LoadProposals` is the one that `NegotiationDetailOut` sends
when it first asks for `Negotiation.proposals`, after the endpoint has returned:
the columns are of one moment and the proposals of a later one, since each
statement sees its own snapshot. `held` is history: the states the thread was in
during the call.

### How Serving corresponds to the code

A request is a list of hops, the synchronous dependencies of its endpoint, the
endpoint and the validation of its result; FastAPI runs each in a thread of one
bounded pool. `pc` says where it is: `hop` between two, without a thread, or at
a statement, with one. The session draws its connection at its first statement
(`Select`) and keeps it from one hop to the next, until `Commit` or `Exit`; a
thread that waits for a connection or for another transaction's row keeps
waiting in the statement (`Connected`, the guard of `InsertUser`).

| action | code |
|---|---|
| `Arrive` | `RequestContextMiddleware.dispatch` up to `call_next` |
| `PlainHop`, `TooMany`, `Forbidden`, `BadToken`, `Invalid` | hops that send no statement: `get_db`, `rate_limit_login`, `require_role`, a token that does not decode, a payload its schema refuses |
| `FirstStatement` | a hop reaches its first statement |
| `LoadUser`, `CheckEmail`, `Authenticate`, `Probe` | the `SELECT` of `get_current_user`, `register_user`, `authenticate_user`, `ready`, and what follows it |
| `InsertUser`, `InsertRequest`, `UniqueViolation` | the flush of the row, then `audit.record` |
| `Commit`, `Refresh` | `db.commit()`, and the re-read of `register_user` |
| `PoolTimeout`, `DatabaseError` | a statement raises |
| `Exit` | the rest of `get_db`: rollback, close |
| `Respond`, `Fail` | `dispatch` after `call_next` |

`ctx` is the context variable of each request's task; the threads get a copy of
it (anyio). `account` says which request created the account of an address,
`trail` has the audit rows with their ids; `pending` and `staged` are the same
before the commit. When a rate limit applies is `RateLimiter`'s concern, so
`TooMany` may happen to any login. `Exit` has no thread of its own in the model
because FastAPI closes dependencies under a limiter apart from the pool. A
failed flush gives its locks back at `Exit`, a little later than PostgreSQL does.

## Runs

| run | instance | shows |
|---|---|---|
| `txn_core` | 2 workers, 1 client, 3 suppliers, 1 request, chains of 2 | `TypeOK`, `OneWinner`, `ClosedSettled`, `OfferCheckHolds`, `DeadlockOnlyAmongAccepts`, `LocksFit`, `TerminalFrozen`, `AuditExplains`; `ImplementsNegotiation`: the transactions implement `Negotiation` |
| `txn_keys` | 2 workers, 1 request, 1 supplier, 2 amounts, 1 key, chains of 4 | `IInv`, `TurnsAlternate`, `AgreedIsLast`, `KeyedEffectOnce` |
| `txn_live` | 2 workers, 2 suppliers, fairness | `EveryCallAnswered` |
| `txn_terminal_entry` | 2 workers, 2 suppliers | violated: `OneTerminalEntry` |
| `txn_retry` | 2 workers, 1 key | violated: `RetryAnswered` |
| `rate_limit` | 3 threads, 1 address, limit 2, window of 2 ticks, clock to 5 | `IInv`, `BucketBounded`, `Budget`, `RetryAfterKept` |
| `ui_supplier` | page of a supplier with a rival, 1 request, chains of 5, 2 intents, 2 calls at a time, error answers | `TypeOK`, `IInv`, `AcceptedAsShown`, `OutdatedByMeOnly`, `RefusedOnlyIfStale` |
| `ui_client` | page of the client, 2 requests, chains of 3, 1 intent, 2 calls at a time, error answers and failing connections, fairness | `IInv`, `OneEffectUnlessMisreported`, `ButtonsComeBack` |
| `ui_retry` | the same | violated: `OneEffectPerIntent` |
| `queries` | 1 client, 1 supplier, 3 requests, chains of 2, pages of 1 | `TypeOK`, `PagingInv`, `DetailIsSnapshot`, `MissedOnlyForDepartures` |
| `serving` | 4 requests, 2 threads, 2 connections, 2 addresses, 1 header, fairness | `TypeOK`, `IInv`, `Outcomes`, `NothingKept`, `AnswerTells`, `AuditTagged`, `EveryRequestAnswered`; `ImplementsAccounts`: registration implements `Accounts` |
| `serving_log` | the same | violated: `AccessLogTagged` |

*Bounds.* Two transactions suffice for every pairwise race. Two suppliers give
one sibling, three give a loop over several, with locks taken one at a time.
`MaxProposals` bounds the chains; four proposals let each party counter twice.
One request is enough where locks are concerned, since no transaction touches
two. (With the one request of `txn_keys` a creation cannot be repeated, but
every other command can; the theorem `KeyedEffectOnceAlways` has no bound.)
`Room` enforces the bounds
when a call arrives, counting the calls under way, so that no transaction is
stuck on a bound. Workers, and suppliers where no price or key is involved, are
interchangeable; the liveness runs use no symmetry.

For the rate limiter, three threads are one more than the budget, so that one
can wait with an old stamp while others fill the deque; the clock runs for two
windows and a half, long enough for stamps to expire twice. Addresses share
nothing but the lock, so one is enough. For the page, two calls under way give
every race of two answers; `MaxIntents` bounds the modals and forms, and
`MaxProposals` the chains that the others lengthen. With five proposals the
other party can answer a counteroffer of the page while the page still shows the
proposal before it, and the page can answer that screen once more. In `ui_client`
the one intent is a form or a modal, which two calls can send. Where everybody
may be done the runs switch off the deadlock check: once the user's intents are
used up and every thread is decided, the bounded system stops.

In `queries` three rows under pages of one let rows come, go and shift on either
side of the reader, who makes one call at a time, each to its end. In `serving`
`Sent` says which calls may be made with each request: two of them register the
same address, one calls `/auth/me`, one is any of eight calls that reach every
endpoint and every refusal. Two threads and two connections are the least with
which two registrations race, and with four requests two can hold the
connections while they wait for a thread and two the threads while they wait for
a connection. A request whose caller is done is not sent again, so these runs
end and switch the deadlock check off.

*Fairness.* `FairSpec` assumes that the server keeps running every request it
has taken on (weak fairness of steps that do not wait), that a row lock that is
free again and again is granted in the end, since PostgreSQL queues the waiters
of a row (strong fairness of steps that wait), and that the deadlock detector
runs. Neither the arrival of calls nor the loss of a connection is fair. The
`FairSpec` of `WebClient` assumes that the server answers each call (what
`EveryCallAnswered` and `EveryRequestAnswered` show of it), if only with an
error, that the network then delivers or fails, and that the browser runs the
handler whose answer has come. The user is not fair: a page nobody touches stays
as it is. The `FairSpec` of `Serving` is weak fairness of what each request can
do, the timeout of the pool among it: the event loop and the threads run what is
ready, and QueuePool gives up after 30 seconds. Callers need not call and the
database need not fail.

*What the violations show.*

1. `txn_terminal_entry`: a sibling rejected by its party after the plain
   `SELECT` of an accept and before its `UPDATE` is rejected again, with a
   second terminal row `negotiation.superseded` in the audit trail. The status
   is unharmed (`TerminalFrozen`).
2. `txn_retry`: a retry that overlaps the original has looked its key up too
   early; it waits for the original's lock and is then refused by the status or
   turn check, though the stored response now exists. The effect still happens
   once (`KeyedEffectOnce`).
3. `ui_retry`: the answer to `POST /requests` is lost after the server has
   executed it. The form keeps its content, the user sends it again, and the
   second call has a new key: two requests. The server's idempotency
   (`KeyedEffectOnce`) is of use only to a client that keeps its key.
   `OneEffectUnlessMisreported` names the other way to the same end, without a
   lost connection: a counteroffer takes effect, the lists that are read after it
   are answered with an error, and the modal shows that error and stays open. When
   the other party has answered, the user who confirms again counters the answer,
   too, with an amount meant for the proposal before.
4. `serving_log`: `dispatch` resets the context variable in its `finally` and
   logs `request_completed` afterwards, so the formatter finds the default: the
   one line per request has the id `-`. The line of a request that failed is
   written before the reset and has its id, as have the audit rows
   (`AuditTagged`).

Two more things the passing properties are worded around. `accept` locks its
negotiation first and the request second, then updates the siblings; two accepts
on one request take the rows crosswise and PostgreSQL aborts one, a 500. A cycle
of waits has no other members (`DeadlockOnlyAmongAccepts`), and `OneWinner`
holds all the same.
And the rate limiter takes the time before its lock: a thread can take it just
before the stamps in the deque expire and get the lock after another one has
dropped them, so that more than `Limit` stamps lie in one window. What does hold
is `Budget`: more than a window lies between the stamp of one admission and the
moment of the one `Limit` admissions later.

After a 500 a registration may or may not be stored: `register_user` reads its
row again after the commit, and if no connection is free by then the caller
learns only from a retry, by a 409, that the account exists. `AnswerTells`
leaves that open and excludes the rest.

`AcceptedAsShown` holds as long as nothing is clicked while a call is under way,
no connection fails and what is read after a counteroffer is not answered with an
error (`smooth`). None of the three can be dropped. Without any of them the screen
can keep an older proposal of the counterparty, with its buttons, while the
user's counter has taken effect and been countered again: the read was overtaken
by an older one, or it failed, and `openNegotiation` leaves the detail as it
was. "Aceptar" with the old price then accepts the new one, because the call
names the thread and not the proposal. What holds without any assumption is
`OutdatedByMeOnly`: this happens only to a user who has countered the proposal on
the screen, since nobody else may answer it.

## Proofs

`NegotiationTxnProofs` proves `Spec => []IInv` for all finite or infinite sets
of users, requests, prices, workers and keys, from the assumptions named in the
modules: no user is both client and supplier, and `Null` is none of the values
it stands apart from.

The safety properties are not inductive: that an accept leaves one winner
depends on what its transaction checked three statements earlier. `IInv` adds,
for each worker, what its locks protect meanwhile: the negotiation it answers
is still active and its last proposal still the one it read (`DecisionHolds`);
no active sibling exists outside the selected ones and none of these has won
(`SiblingsHold`); an offered-on request is still open (`OfferHolds`); the key it
inserted is nobody else's (`KeyHolds`). The proof shows for every action that
the worker changes only rows it has locked and takes only locks that are free
(`OwnRows`, `OthersKeep`), that this leaves what every other worker relies on
alone (`OthersKeepInv`), and that the worker itself reaches the next statement
with what that needs.

`NegotiationTxnTheorems` derives `TypeOK`, `OneWinner`, `ClosedSettled`,
`AgreedIsLast`, `OfferCheckHolds`, `KeyedEffectOnce`, `TerminalFrozen`, and
that every commit is one step of `Negotiation` and every other step a stutter
(`Implementation`).

`TurnsAlternate` and `AuditExplains` are there, too; each is inductive on top of
`IInv`. Whoever counters has locked the thread and read its last proposal, so by
`DecisionHolds` it is still the other party's when the counter commits. An
accept logs as superseded every sibling it has selected, and one that was
rejected meanwhile then has two terminal rows, the second for a transition that
did not take place, which `AuditExplains` has to allow; that it never gets a second
`negotiation.superseded` follows from the last line of `ThreadExplained`, that a
thread with one has a closed request, since only an open request has an accept
under way that can still commit.

`NegotiationTxnLocks` says who deadlocks. `IInv` tells what a lock protects, not
that nobody holds more than that; this is `LocksFit`, inductive together with
it. In a cycle everyone waits and holds something. A transaction at its first
lock (`offer`, `load`) holds nothing (`HoldsNothing`). Who waits for a key waits
for a transaction that only has to commit (`SaveWaitsForCommit`). Who inserts a
thread waits for nobody, having locked its request (`InsertWaitsForNobody`).
What remains are accepts that wait for their request or a sibling, and the
holder's lock is one of its own request (`AcceptWaitsForAccept`).

Only model-checked: `EveryCallAnswered`, since liveness under fairness is beyond
the prover.

`RateLimiterProofs` proves `BucketBounded`, `Budget` and `RetryAfterKept` for
every number of threads and addresses and every positive limit, window and
resolution of the clock. They are not inductive, because they speak of stamps
that have left the deque. `IInv` ties the deque to the history: it is the tail
of the admissions (`BucketIsTail`), what has left it had expired
(`DroppedExpired`), a full deque's head expires before the announced time
(`DueAfterHead`), and between check and append nobody else changes the deque
(`Mutex`, `HasRoom`). An admission finds fewer than `Limit` stamps, so the one
`Limit` admissions earlier has left, and had expired: that is `Budget`. A limit
of 0, for which `rate_limit_login` reads the head of an empty deque, is
excluded by `LimitAssumption`.

`QueriesProofs` proves `TypeOK`, `DetailIsSnapshot` and
`MissedOnlyForDepartures` for every number of users, requests and proposals and
every positive limit. The columns that `get_negotiation` has read stay those of
the thread while it is active, so with the proposals of any later moment they
are the state of that moment; once it is accepted or rejected its proposals no
longer change, and the columns read with them are a state it had (`Consistent`).

A list is more work, because the properties count. `PagingInv` says that the ids
order the rows of each table, of which there are finitely many, and that of the
rows that were listed all the time and are on no page so far, at most `left`
stand before the place where the next page begins (`PagesHold`). An insert only
moves rows down (`RankAfterInsert`). A row that leaves moves those behind it up
by one place (`RankAfterRemove`), and no two are at one place (`RanksDiffer`), so
that just one unread row can move past the reader (`BehindKept`). When a page is
short, there is no row behind it (`ShortPageIsLast`): the places before a row are
all taken (`RanksReached`), which is the pigeonhole principle on the injection of
the rows before it into the places before its own. `TablesAssumption` says that
no request is a negotiation, and `RecordsAssumption`, here and in `WebClient`,
that `Null` is no record.

`ServingProofs` proves `TypeOK`, `NothingKept` and `AuditTagged`, and that
registration implements `Accounts`, for every number of requests, threads,
connections and addresses, whatever is sent. `IInv` says what a request may hold
where (`HeldInScope`), that an uncommitted account belongs to a registration
under way for an address that has none yet (`PendingHolds`), and that its
context and the audit row it has flushed hold its id until it is answered
(`ContextHolds`). Most steps only move a request (`Moves`) and are dealt with at
once. The commit of a registration is the promised step: by `PendingHolds` the
address is still free. `AnswerTells` needs `Outcomes`, which follows a request
along the hops it has yet to run: nothing is stored before the commit
(`StoredWhere`), the status is that of success until something is raised, and
what is raised behind the commit, by the re-read of the account, is a 500
(`StatusFits`). Only model-checked here: `EveryRequestAnswered`, a liveness
property.

`WebClientProofs` proves `TypeOK`, `AcceptedAsShown`, `OutdatedByMeOnly`,
`OneEffectUnlessMisreported` and
`RefusedOnlyIfStale` for every number of users, requests, prices and calls under
way, whichever of the answers are errors. What the page has read is out of date
at once, but it stays on record:
threads keep their parties and their proposals (`Grows`), so a proposal on the
screen is one of the thread's, and one that can be decided is another user's
(`PageHolds`, `CallsHold`); whoever is refused on an active thread whose last
proposal it is has therefore found no reason the service knows of. The
proposals of a thread take turns (`Alternates`), so the one that follows a
proposal of the other party is the user's own: that is `OutdatedByMeOnly`. For a
user who waits there is one call at most (`Alone`), and while it is this user's turn
nobody else can propose, so that the proposal shown stays the last one until the
user's own counter is with the service (`Countered`), and from the next
rendering on; a read that fails in between ends `smooth` (`Fresh`). That an intent
has one effect rests on the disabled buttons: as long as its modal or form is
there after the effect, its call is, too (`Guarded`), and no two calls are of
one intent, unless an error was shown for it (`Once`). Only model-checked here:
`ButtonsComeBack`, a liveness property.

## Not modelled

Hashing and signatures (a password is right or wrong, a token names a user or
nobody), JSON shapes, field widths and wording, response headers, metrics,
configuration and start-up, which keep no state; the tests, containers and
documents. `get_request` is one `SELECT` by primary key and one comparison. A
commit that takes place but is reported as failed, and a caller that hangs up,
are left out. Of the web client: login, registration, the first
load, the lists' contents and the summary, and a second tab of the same user (it
acts like another call of the same page, except that its buttons are its own).
`state.currentNeg` is written and never read.

Five hazards have no property. That an effect is stored with its audit rows and
its key or not at all is one COMMIT, in the code as in the model. A key reused
for another operation gets the answer of the first one, and an address keeps its
deque for as long as the process lives: nothing in the code or its documents
says otherwise. The 500 of an unhandled error lacks the headers set on every
other response, and a `quantity` beyond 32 bits passes its schema and fails at
the insert: both would restate one line.

## Plan

Done: the transactions of the service with their refinement and proofs, the rate
limiter with its proofs, the web client, the queries, the serving of requests
with registration, context and pools. Every safety and action property that a
passing run checks is a theorem as well. What is left:

1. lemmas that several proofs repeat in a module of their own: the rows of
   `Negotiation` (typing, growth of a thread, who may propose) serve `Queries`
   and `WebClient`;
2. that `Negotiation` itself, the promise, keeps what `WebClient` and `Queries`
   rely on, stated once for the abstract service and carried over by refinement;
3. steps towards liveness that need no fairness: from every state of a call some
   statement of it, or of the holder it waits for, can run.
