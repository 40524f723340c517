--------------------------- MODULE NegotiationTxn ---------------------------
(***************************************************************************)
(* The transactions of the negotiation service on PostgreSQL.  Each worker *)
(* is a request of the HTTP server and runs one transaction of             *)
(* app/services/negotiation.py inside the idempotency wrapper of           *)
(* app/routers/_helpers.py.  A step is the stretch from one statement that *)
(* can wait (SELECT ... FOR UPDATE, UPDATE, a unique INSERT) to the next;  *)
(* the isolation level is READ COMMITTED, so a statement sees what is      *)
(* committed when it runs, and after a wait the row as it then stands.     *)
(*                                                                         *)
(* owner .. keys are the committed rows: a transaction's own writes are    *)
(* invisible to the others and take effect in Commit.  The locks are the   *)
(* row locks its statements hold until it ends.                            *)
(***************************************************************************)
EXTENDS NegotiationData, FiniteSets

CONSTANTS Workers,      \* transactions the server can run at once
          Keys,         \* values of the Idempotency-Key header
          MaxProposals  \* bound: proposals in one thread

ASSUME BoundAssumption == MaxProposals \in Nat

VARIABLES owner,      \* product_requests.client_id
          reqStatus,  \* product_requests.status
          negStatus,  \* negotiations.status
          chain,      \* the proposals of each negotiation, in id order
          agreed,     \* negotiations.agreed_amount
          audit,      \* how many audit_log rows each transition has
          keys,       \* idempotency_keys: the call a key was stored for
          reqLock,    \* the transaction holding the row of a request
          negLock,    \* the transaction holding the row of a negotiation
          keyLock,    \* the transaction that inserted a key and is not over
          pc,         \* the statement a worker is about to run, or else
                      \* how its latest call was answered
          call,       \* the HTTP request a worker serves
          seen,       \* the last proposal as the transaction read it
          sibs,       \* the siblings the accept selected to supersede
          sib         \* the one among them it is about to update

tables == <<owner, reqStatus, negStatus, chain, agreed, audit>>
locks == <<reqLock, negLock, keyLock>>
reads == <<seen, sibs, sib>>
vars == <<tables, keys, locks, pc, call, reads>>

-----------------------------------------------------------------------------
(* The calls.  require_role lets only clients create a request and only    *)
(* suppliers make an offer; any authenticated user can try the others.     *)

KeyHeader == Keys \cup {Null}

CreateCall == [kind : {"create"}, user : Clients, neg : {Null},
               amount : {Null}, currency : {Null}, key : KeyHeader]
OfferCall == {c \in [kind : {"offer"}, user : Suppliers, neg : Negs,
                     amount : Amounts, currency : Currencies, key : KeyHeader] :
                 c.user = SupplierOf(c.neg)}
DecideCall == [kind : {"accept", "reject"}, user : Users, neg : Negs,
               amount : {Null}, currency : {Null}, key : KeyHeader]
CounterCall == [kind : {"counter"}, user : Users, neg : Negs,
                amount : Amounts, currency : {Null}, key : KeyHeader]

Calls == CreateCall \cup OfferCall \cup DecideCall \cup CounterCall

ASSUME NullAssumption ==
    /\ Null \notin Workers /\ Null \notin Keys /\ Null \notin Negs
    /\ Null \notin Calls /\ Null \notin Proposal

\* What the audit trail distinguishes: a row's identity and the transition.
AuditActions == {"offer.created", "negotiation.accepted", "negotiation.rejected",
                 "negotiation.countered", "negotiation.superseded"}
AuditEntry == (Requests \X {"request.created"}) \cup (Negs \X AuditActions)

Refusal == {"missing", "denied", "conflict"}        \* 404, 403, 409
Outcome == Refusal \cup {"ok", "cached", "error"}   \* "error" is a 500
InTransaction == {"lookup", "create", "offer", "insert", "load", "close", "supersede",
                  "save", "commit"}
PC == {"idle"} \cup InTransaction \cup Outcome

Init ==
    /\ owner = [r \in Requests |-> Null]
    /\ reqStatus = [r \in Requests |-> "none"]
    /\ negStatus = [n \in Negs |-> "none"]
    /\ chain = [n \in Negs |-> << >>]
    /\ agreed = [n \in Negs |-> Null]
    /\ audit = [e \in AuditEntry |-> 0]
    /\ keys = [k \in Keys |-> Null]
    /\ reqLock = [r \in Requests |-> Null]
    /\ negLock = [n \in Negs |-> Null]
    /\ keyLock = [k \in Keys |-> Null]
    /\ pc = [w \in Workers |-> "idle"]
    /\ call = [w \in Workers |-> Null]
    /\ seen = [w \in Workers |-> Null]
    /\ sibs = [w \in Workers |-> {}]
    /\ sib = [w \in Workers |-> Null]

-----------------------------------------------------------------------------
Go(w, p) == pc' = [pc EXCEPT ![w] = p]

\* A row lock is granted when nobody else holds it.
Free(l, w) == l \in {Null, w}

\* Variants: SELECT without FOR UPDATE, as on SQLite.
PlainSelectRequest(r, w) == UNCHANGED reqLock
PlainSelectNegotiation(n, w) == UNCHANGED negLock

ForUpdateRequest(r, w) ==
    /\ Free(reqLock[r], w)
    /\ reqLock' = [reqLock EXCEPT ![r] = w]

ForUpdateNegotiation(n, w) ==
    /\ Free(negLock[n], w)
    /\ negLock' = [negLock EXCEPT ![n] = w]

\* Variant: the session is not closed and keeps its locks.
NotReleased(lock, w) == lock

Released(lock, w) ==
    [x \in DOMAIN lock |-> IF lock[x] = w THEN Null ELSE lock[x]]

\* The transaction of w ends, committed or rolled back, and the call is
\* answered with this outcome.
End(w, outcome) ==
    /\ Go(w, outcome)
    /\ call' = [call EXCEPT ![w] = Null]
    /\ reqLock' = Released(reqLock, w)
    /\ negLock' = Released(negLock, w)
    /\ keyLock' = Released(keyLock, w)
    /\ seen' = [seen EXCEPT ![w] = Null]
    /\ sibs' = [sibs EXCEPT ![w] = {}]
    /\ sib' = [sib EXCEPT ![w] = Null]

\* After the service function: stage the key, if the call carries one.
SaveOrCommit(w) == IF call[w].key = Null THEN "commit" ELSE "save"

\* Bounds of the model: an id for every request being created and room in the
\* thread for every counter under way.  A call whose key is stored is answered
\* from the key and needs neither.
Serving(kind, n) == {w \in Workers : call[w] # Null /\ call[w].kind = kind /\ call[w].neg = n}
Room(c) ==
    \/ c.kind \in {"offer", "accept", "reject"}
    \/ c.key # Null /\ keys[c.key] # Null
    \/ /\ c.kind = "create"
       /\ Cardinality(Serving("create", Null))
            < Cardinality({r \in Requests : reqStatus[r] = "none"})
    \/ /\ c.kind = "counter"
       /\ Len(chain[c.neg]) + Cardinality(Serving("counter", c.neg)) < MaxProposals

\* The service function that a call without a key starts with.
FirstStatement(c) ==
    CASE c.kind = "create" -> "create"
      [] c.kind = "offer" -> "offer"
      [] OTHER -> "load"

\* A request arrives; any earlier call may be made again, by any user, at any
\* time (retries, double clicks, two tabs).
Receive(w, c) ==
    /\ call[w] = Null
    /\ Room(c)
    /\ Go(w, IF c.key = Null THEN FirstStatement(c) ELSE "lookup")
    /\ call' = [call EXCEPT ![w] = c]
    /\ UNCHANGED <<tables, keys, locks, reads>>

-----------------------------------------------------------------------------
(* Idempotency.lookup, when there is a key to look up.                     *)

KeyUnused(k) == keys[k] = Null

LookupHit(w) ==
    /\ pc[w] = "lookup"
    /\ ~KeyUnused(call[w].key)
    /\ End(w, IF keys[call[w].key].user = call[w].user THEN "cached" ELSE "conflict")
    /\ UNCHANGED <<tables, keys>>

LookupMiss(w) ==
    /\ pc[w] = "lookup"
    /\ KeyUnused(call[w].key)
    /\ Go(w, FirstStatement(call[w]))
    /\ UNCHANGED <<tables, keys, locks, call, reads>>

-----------------------------------------------------------------------------
(* create_request: the id of the inserted row is fresh, so nobody waits.   *)

CreateRequest(w, r) ==
    /\ pc[w] = "create"
    /\ reqStatus[r] = "none"
    /\ reqLock[r] = Null
    /\ reqLock' = [reqLock EXCEPT ![r] = w]
    /\ Go(w, SaveOrCommit(w))
    /\ UNCHANGED <<tables, keys, negLock, keyLock, call, reads>>

-----------------------------------------------------------------------------
(* make_offer                                                              *)

\* SELECT the request FOR UPDATE, then look for an earlier negotiation.
OfferRefused(w) ==
    LET n == call[w].neg  r == RequestOf(n) IN
    /\ pc[w] = "offer"
    /\ \/ reqStatus[r] = "none" /\ End(w, "missing")
       \/ /\ reqStatus[r] # "none"
          /\ Free(reqLock[r], w)
          /\ reqStatus[r] # "open" \/ negStatus[n] # "none"
          /\ End(w, "conflict")
    /\ UNCHANGED <<tables, keys>>

OfferOnRequest(w) ==
    LET n == call[w].neg  r == RequestOf(n) IN
    /\ pc[w] = "offer"
    /\ ForUpdateRequest(r, w)
    /\ reqStatus[r] = "open"
    /\ negStatus[n] = "none"
    /\ Go(w, "insert")
    /\ UNCHANGED <<tables, keys, negLock, keyLock, call, reads>>

\* INSERT the negotiation under uq_request_supplier, then its first proposal.
InsertNegotiation(w) ==
    LET n == call[w].neg IN
    /\ pc[w] = "insert"
    /\ negStatus[n] = "none"
    /\ Free(negLock[n], w)
    /\ negLock' = [negLock EXCEPT ![n] = w]
    /\ Go(w, SaveOrCommit(w))
    /\ UNCHANGED <<tables, keys, reqLock, keyLock, call, reads>>

-----------------------------------------------------------------------------
(* accept, reject, counter                                                 *)

\* Variant: the status is not looked at.
IsThere(n) == negStatus[n] # "none"

Party(u, n) == u \in Participants(owner[RequestOf(n)], n)
IsActive(n) == negStatus[n] = "active"
MyTurn(u, n) == LastProposal(chain[n]).actor # u

\* Variant: a reject locks the request as well.
AfterLoadToo(w) == IF call[w].kind # "counter" THEN "close" ELSE SaveOrCommit(w)

\* Only accept goes on to the request and the siblings.
AfterLoad(w) == IF call[w].kind = "accept" THEN "close" ELSE SaveOrCommit(w)

\* _load_active_for_response: SELECT the negotiation FOR UPDATE, then the
\* checks, in their order, on the row as it is once the lock is granted.
LoadRefused(w) ==
    LET n == call[w].neg  u == call[w].user IN
    /\ pc[w] = "load"
    /\ \/ negStatus[n] = "none" /\ End(w, "missing")
       \/ /\ negStatus[n] # "none"
          /\ Free(negLock[n], w)
          /\ \/ ~Party(u, n) /\ End(w, "denied")
             \/ /\ Party(u, n)
                /\ ~IsActive(n) \/ ~MyTurn(u, n)
                /\ End(w, "conflict")
    /\ UNCHANGED <<tables, keys>>

LoadActiveForResponse(w) ==
    LET n == call[w].neg  u == call[w].user IN
    /\ pc[w] = "load"
    /\ negStatus[n] # "none"
    /\ ForUpdateNegotiation(n, w)
    /\ Party(u, n)
    /\ IsActive(n)
    /\ MyTurn(u, n)
    /\ seen' = [seen EXCEPT ![w] = LastProposal(chain[n])]
    /\ Go(w, AfterLoad(w))
    /\ UNCHANGED <<tables, keys, reqLock, keyLock, call, sibs, sib>>

\* accept: SELECT the request FOR UPDATE, then the plain SELECT of the active
\* siblings in _supersede_siblings, which comes without an order.
CloseRequest(w) ==
    LET n == call[w].neg
        active == {m \in Siblings(n) : negStatus[m] = "active"}
    IN
    /\ pc[w] = "close"
    /\ ForUpdateRequest(RequestOf(n), w)
    /\ sibs' = [sibs EXCEPT ![w] = active]
    /\ \/ active = {} /\ Go(w, SaveOrCommit(w)) /\ UNCHANGED sib
       \/ /\ \E m \in active : sib' = [sib EXCEPT ![w] = m]
          /\ Go(w, "supersede")
    /\ UNCHANGED <<tables, keys, negLock, keyLock, call, seen>>

\* UPDATE one selected sibling by its primary key, whatever its status is by
\* the time the lock is granted.
SupersedeSibling(w) ==
    LET left == {m \in sibs[w] : negLock[m] # w} \ {sib[w]} IN
    /\ pc[w] = "supersede"
    /\ Free(negLock[sib[w]], w)
    /\ negLock' = [negLock EXCEPT ![sib[w]] = w]
    /\ \/ left = {} /\ Go(w, SaveOrCommit(w)) /\ UNCHANGED sib
       \/ \E m \in left : sib' = [sib EXCEPT ![w] = m] /\ UNCHANGED pc
    /\ UNCHANGED <<tables, keys, reqLock, keyLock, call, seen, sibs>>

-----------------------------------------------------------------------------
(* Idempotency.save and commit                                             *)

\* Variant: INSERT ... ON CONFLICT DO UPDATE.
SaveKeyUpsert(w) ==
    LET k == call[w].key IN
    /\ pc[w] = "save"
    /\ Free(keyLock[k], w)
    /\ keyLock' = [keyLock EXCEPT ![k] = w]
    /\ Go(w, "commit")
    /\ UNCHANGED <<tables, keys, reqLock, negLock, call, reads>>

\* The key is inserted by the flush of the commit: a concurrent insert of the
\* same key is waited for.
SaveKey(w) ==
    LET k == call[w].key IN
    /\ pc[w] = "save"
    /\ KeyUnused(k)
    /\ Free(keyLock[k], w)
    /\ keyLock' = [keyLock EXCEPT ![k] = w]
    /\ Go(w, "commit")
    /\ UNCHANGED <<tables, keys, reqLock, negLock, call, reads>>

\* A committed row already has the unique value: IntegrityError, a 500.
Duplicate(w) ==
    \/ pc[w] = "insert" /\ negStatus[call[w].neg] # "none"
    \/ pc[w] = "save" /\ ~KeyUnused(call[w].key)

UniqueViolation(w) ==
    /\ Duplicate(w)
    /\ End(w, "error")
    /\ UNCHANGED <<tables, keys>>

Logged(entries) ==
    audit' = [e \in AuditEntry |-> IF e \in entries THEN audit[e] + 1 ELSE audit[e]]

CreateEffect(w) ==
    \E r \in Requests :
      /\ reqLock[r] = w
      /\ owner' = [owner EXCEPT ![r] = call[w].user]
      /\ reqStatus' = [reqStatus EXCEPT ![r] = "open"]
      /\ Logged({<<r, "request.created">>})
      /\ UNCHANGED <<negStatus, chain, agreed>>

OfferEffect(w) ==
    LET c == call[w] IN
    /\ negStatus' = [negStatus EXCEPT ![c.neg] = "active"]
    /\ chain' = [chain EXCEPT ![c.neg] = <<NewProposal(c.user, c.amount, c.currency)>>]
    /\ Logged({<<c.neg, "offer.created">>})
    /\ UNCHANGED <<owner, reqStatus, agreed>>

AcceptEffect(w) ==
    LET n == call[w].neg IN
    /\ negStatus' = [m \in Negs |-> Settled(m, n, sibs[w], negStatus[m])]
    /\ agreed' = [agreed EXCEPT ![n] = seen[w].amount]
    /\ reqStatus' = [reqStatus EXCEPT ![RequestOf(n)] = "closed"]
    /\ Logged({<<n, "negotiation.accepted">>}
                \cup {<<m, "negotiation.superseded">> : m \in sibs[w]})
    /\ UNCHANGED <<owner, chain>>

RejectEffect(w) ==
    LET n == call[w].neg IN
    /\ negStatus' = [negStatus EXCEPT ![n] = "rejected"]
    /\ Logged({<<n, "negotiation.rejected">>})
    /\ UNCHANGED <<owner, reqStatus, chain, agreed>>

CounterEffect(w) ==
    LET c == call[w] IN
    /\ chain' = [chain EXCEPT ![c.neg] =
          Append(@, NewProposal(c.user, c.amount, seen[w].currency))]
    /\ Logged({<<c.neg, "negotiation.countered">>})
    /\ UNCHANGED <<owner, reqStatus, negStatus, agreed>>

Effect(w) ==
    \/ call[w].kind = "create" /\ CreateEffect(w)
    \/ call[w].kind = "offer" /\ OfferEffect(w)
    \/ call[w].kind = "accept" /\ AcceptEffect(w)
    \/ call[w].kind = "reject" /\ RejectEffect(w)
    \/ call[w].kind = "counter" /\ CounterEffect(w)

\* One commit: the effect, its audit rows and the key.
Commit(w) ==
    /\ pc[w] = "commit"
    /\ Effect(w)
    /\ keys' = [k \in Keys |-> IF k = call[w].key THEN call[w] ELSE keys[k]]
    /\ End(w, "ok")

-----------------------------------------------------------------------------
(* How a transaction ends otherwise.                                       *)

\* The connection or the process is lost; get_db rolls back.
Abort(w) ==
    /\ pc[w] \in InTransaction
    /\ End(w, "error")
    /\ UNCHANGED <<tables, keys>>

\* The transaction the next statement of w has to wait for, if any.
Holder(w) ==
    LET n == call[w].neg IN
    CASE pc[w] = "offer" /\ reqStatus[RequestOf(n)] # "none" -> reqLock[RequestOf(n)]
      [] pc[w] = "insert" /\ negStatus[n] = "none" -> negLock[n]
      [] pc[w] = "load" /\ negStatus[n] # "none" -> negLock[n]
      [] pc[w] = "close" -> reqLock[RequestOf(n)]
      [] pc[w] = "supersede" -> negLock[sib[w]]
      [] pc[w] = "save" /\ KeyUnused(call[w].key) -> keyLock[call[w].key]
      [] OTHER -> Null

InWaitCycle(w) ==
    \E S \in SUBSET Workers :
        w \in S /\ {Holder(v) : v \in S} = S

\* PostgreSQL finds a cycle of waits after deadlock_timeout and aborts one of
\* its members with an error nothing in the service catches.
DeadlockVictim(w) ==
    /\ InWaitCycle(w)
    /\ End(w, "error")
    /\ UNCHANGED <<tables, keys>>

-----------------------------------------------------------------------------
Waiting(w) ==
    \/ OfferRefused(w)
    \/ OfferOnRequest(w)
    \/ InsertNegotiation(w)
    \/ LoadRefused(w)
    \/ LoadActiveForResponse(w)
    \/ CloseRequest(w)
    \/ SupersedeSibling(w)
    \/ SaveKey(w)

Running(w) ==
    \/ LookupHit(w)
    \/ \E r \in Requests : CreateRequest(w, r)
    \/ LookupMiss(w)
    \/ UniqueViolation(w)
    \/ Commit(w)

Next ==
    \E w \in Workers :
        \/ \E c \in Calls : Receive(w, c)
        \/ Waiting(w)
        \/ Running(w)
        \/ DeadlockVictim(w)
        \/ Abort(w)

Spec == Init /\ [][Next]_vars

\* The server runs every request it has taken on, a row lock is granted in the
\* order of the queue, and the deadlock detector runs.  Nothing makes a client
\* call or a connection fail.
Fairness ==
    /\ \A w \in Workers : SF_vars(Waiting(w)) /\ WF_vars(Running(w))
    /\ WF_vars(\E w \in Workers : DeadlockVictim(w))

FairSpec == Spec /\ Fairness

-----------------------------------------------------------------------------
TypeOK ==
    /\ owner \in [Requests -> Clients \cup {Null}]
    /\ reqStatus \in [Requests -> RequestStatus]
    /\ negStatus \in [Negs -> NegotiationStatus]
    /\ chain \in [Negs -> Seq(Proposal)]
    /\ agreed \in [Negs -> Amounts \cup {Null}]
    /\ audit \in [AuditEntry -> Nat]
    /\ keys \in [Keys -> Calls \cup {Null}]
    /\ reqLock \in [Requests -> Workers \cup {Null}]
    /\ negLock \in [Negs -> Workers \cup {Null}]
    /\ keyLock \in [Keys -> Workers \cup {Null}]
    /\ pc \in [Workers -> PC]
    /\ call \in [Workers -> Calls \cup {Null}]
    /\ seen \in [Workers -> Proposal \cup {Null}]
    /\ sibs \in [Workers -> SUBSET Negs]
    /\ sib \in [Workers -> Negs \cup {Null}]

\* accept: of the threads of one request at most one is ever accepted, however
\* the accepts of the client and of the suppliers interleave.
OneWinner ==
    \A n \in Negs : negStatus[n] = "accepted" =>
        \A m \in Siblings(n) : negStatus[m] # "accepted"

\* accept closes the request and supersedes its siblings in one transaction,
\* and make_offer locks the request so that no thread opens behind its back: a
\* closed request has a winner and no thread still open, and only an accept
\* closes one.
ClosedSettled ==
    \A n \in Negs :
        /\ negStatus[n] = "accepted" => reqStatus[RequestOf(n)] = "closed"
        /\ reqStatus[RequestOf(n)] = "closed" =>
              /\ negStatus[n] # "active"
              /\ \E m \in {n} \cup Siblings(n) : negStatus[m] = "accepted"

\* _load_active_for_response lets only the counterparty answer: in every chain
\* the supplier and the client take turns, from the supplier's offer on, and
\* the currency of the offer is kept.
TurnsAlternate ==
    \A n \in Negs : \A i \in 1 .. Len(chain[n]) :
        /\ chain[n][i].actor =
              IF i % 2 = 1 THEN SupplierOf(n) ELSE owner[RequestOf(n)]
        /\ chain[n][i].currency = chain[n][1].currency

\* accept reads the last proposal before it writes agreed_amount: the price
\* agreed on is that of the last proposal of the chain all the same.
AgreedIsLast ==
    \A n \in Negs :
        agreed[n] = IF negStatus[n] = "accepted" THEN LastProposal(chain[n]).amount
                    ELSE Null

\* A thread that was accepted or rejected keeps its status, its price and its
\* proposals, though _supersede_siblings updates the siblings without looking
\* at their status again.
TerminalFrozen ==
    [][\A n \in Negs : negStatus[n] \in Terminal =>
          /\ negStatus'[n] = negStatus[n]
          /\ agreed'[n] = agreed[n]
          /\ chain'[n] = chain[n]]_vars

\* make_offer: the check for an earlier negotiation and the status of the
\* request still hold when the row is inserted, so that a duplicate offer is
\* always a 409 and never meets uq_request_supplier.
OfferCheckHolds ==
    \A w \in Workers : pc[w] = "insert" =>
        /\ reqStatus[RequestOf(call[w].neg)] = "open"
        /\ negStatus[call[w].neg] = "none"

\* Idempotency: lookup runs long before save, but no effect is committed under
\* a key that has one already.
KeyedEffectOnce ==
    [][\A w \in Workers :
          pc[w] = "commit" /\ pc'[w] = "ok" /\ call[w].key # Null =>
              keys[call[w].key] = Null]_vars

RequestExplained(r) ==
    audit[<<r, "request.created">>] = IF reqStatus[r] = "none" THEN 0 ELSE 1

ThreadExplained(n) ==
    LET count(a) == audit[<<n, a>>] IN
    /\ count("offer.created") + count("negotiation.countered") = Len(chain[n])
    /\ count("offer.created") = IF negStatus[n] = "none" THEN 0 ELSE 1
    /\ count("negotiation.accepted") = IF negStatus[n] = "accepted" THEN 1 ELSE 0
    /\ count("negotiation.rejected") <= 1
    /\ count("negotiation.superseded") <= 1
    /\ (count("negotiation.rejected") + count("negotiation.superseded") > 0)
           <=> (negStatus[n] = "rejected")
    /\ count("negotiation.superseded") > 0 => reqStatus[RequestOf(n)] = "closed"

\* audit.record runs in the transaction of what it records.  However transactions
\* interleave and fail, every creation, proposal and accept has its one row; a
\* thread has the row of a reject or that of a supersession exactly if it is
\* rejected, or both (OneTerminalEntry tells when); and a supersession is logged
\* only where the request is closed.
AuditExplains ==
    /\ \A r \in Requests : RequestExplained(r)
    /\ \A n \in Negs : ThreadExplained(n)

\* make_offer locks the request before it inserts, reject and counter lock the
\* negotiation only, and the key is inserted last: in a cycle of waits every
\* transaction is an accept, and waits for an accept on the same request.
DeadlockOnlyAmongAccepts ==
    \A S \in SUBSET Workers :
        {Holder(v) : v \in S} = S =>
            \A v \in S :
                /\ call[v].kind = "accept"
                /\ RequestOf(call[Holder(v)].neg) = RequestOf(call[v].neg)

\* Every request is answered, whatever it has to wait for.
EveryCallAnswered ==
    \A w \in Workers : call[w] # Null ~> call[w] = Null

\* models.py:104 calls the audit log a trace of every state transition, and a
\* thread makes at most one transition into a terminal status.
OneTerminalEntry ==
    \A n \in Negs :
        audit[<<n, "negotiation.accepted">>] + audit[<<n, "negotiation.rejected">>]
          + audit[<<n, "negotiation.superseded">>] <= 1

\* README.md:131: a retry with the same key returns the original response.  A
\* retry whose original is stored is therefore not refused.
RetryAnswered ==
    [][\A w \in Workers :
          /\ pc[w] \in InTransaction
          /\ call[w].key # Null
          /\ keys[call[w].key] = call[w]
          => pc'[w] \notin Refusal]_vars

\* The transactions do what the service promises.
Abstract == INSTANCE Negotiation WITH
    owner <- owner, reqStatus <- reqStatus, negStatus <- negStatus,
    chain <- chain, agreed <- agreed
ImplementsNegotiation == Abstract!Spec
=============================================================================
