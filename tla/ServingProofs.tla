--------------------------- MODULE ServingProofs ---------------------------
(***************************************************************************)
(* Theorems about Serving.  Most hops only move a request: Moves says what *)
(* all of them have in common, and its lemma does their part of the        *)
(* inductive step at once.                                                 *)
(***************************************************************************)
EXTENDS ServingInvariant, TLAPS

\* Request q goes on to p, and at most draws a connection.
Moves(q, p) ==
    /\ pc[q] \notin {"new", "exit", "response", "done"}
    /\ Go(q, p)
    /\ p \in {"hop", "select", "insert", "exit", "response"}
    /\ pc[q] = "commit" => p = "exit"
    /\ Kind(q) = "health" =>
          /\ p \notin {"select", "insert"} /\ conns' = conns
          /\ p = "hop" => hops'[q] \in {<<"endpoint", "serialize">>, <<"serialize">>}
    /\ p = "response" => Kind(q) = "health"
    /\ DOMAIN hops' = Requests /\ \A r \in Requests \ {q} : hops'[r] = hops[r]
    /\ threads' \subseteq threads \cup {q}
    /\ q \in threads' => p \in {"select", "insert"}
    /\ conns' \in {conns, conns \cup {q}}
    /\ status' \in [Requests -> {0, 200, 201, 401, 403, 409, 422, 429, 500, 503}]
    /\ \A r \in Requests \ {q} : status'[r] = status[r]
    /\ UNCHANGED <<call, rid, ctx, line, pending, staged, tables>>

\* A move preserves the invariant.
LEMMA MovesKeep ==
    ASSUME ServingAssumption, IInv, NEW q \in Requests, NEW p, Moves(q, p)
    PROVE  IInv'
<1> USE DEF Moves, Go, tables, Kind, Email
<1>1. TypeOK'  BY DEF IInv, TypeOK
<1>2. CallsMade'  BY DEF IInv, TypeOK, CallsMade
<1>3. HealthApart'  BY DEF IInv, TypeOK, HealthApart
<1>4. HeldInScope'  BY DEF IInv, TypeOK, HeldInScope, HealthApart
<1>5. PendingHolds'  BY DEF IInv, TypeOK, PendingHolds
<1>6. ContextHolds'  BY DEF IInv, TypeOK, ContextHolds
<1>7. TrailHolds'  BY DEF IInv, TypeOK, TrailHolds
<1> QED  BY <1>1, <1>2, <1>3, <1>4, <1>5, <1>6, <1>7 DEF IInv

LEMMA TailOfPair == \A a, b : Tail(<<a, b>>) = <<b>>
OBVIOUS

LEMMA TailOfOne == \A a : Tail(<<a>>) = << >>
OBVIOUS

\* A hop of a request that is under way.
LEMMA HopsMove ==
    ASSUME ServingAssumption, IInv, NEW q \in Requests,
           \/ Invalid(q) \/ PlainHop(q) \/ TooMany(q) \/ Forbidden(q) \/ BadToken(q)
           \/ FirstStatement(q)
    PROVE  \E p : Moves(q, p)
<1> USE DEF At, Runs, Go, pools, Kind, tables
<1>0. /\ TypeOK /\ pc[q] = "hop"
      /\ Kind(q) = "health" => hops[q] \in {<<"endpoint", "serialize">>, <<"serialize">>}
      /\ Kind(q) = "health" => q \notin conns
  BY DEF Invalid, PlainHop, TooMany, Forbidden, BadToken, FirstStatement, IInv, HealthApart
<1>1. CASE \/ Invalid(q) \/ TooMany(q) \/ Forbidden(q) \/ BadToken(q)
  <2>1. Moves(q, "exit")
    BY <1>0, <1>1 DEF Invalid, TooMany, Forbidden, BadToken, Raise, Unheard, Moves, TypeOK
  <2> QED  BY <2>1
<1>2. CASE PlainHop(q)
  <2>1. PICK rest : rest = Tail(hops[q])
    OBVIOUS
  <2>2. /\ hops' = [hops EXCEPT ![q] = rest]
        /\ threads' = threads \ {q}
        /\ UNCHANGED <<status, Unheard>>
        /\ \/ rest # << >> /\ Go(q, "hop")
           \/ Kind(q) = "health" /\ Go(q, "response")
           \/ Kind(q) # "health" /\ Go(q, "exit")
    BY <1>2, <2>1 DEF PlainHop, Proceed
  <2>3. Kind(q) = "health" => rest \in {<<"serialize">>, << >>}
    BY <1>0, <2>1, TailOfPair, TailOfOne
  <2>4. Moves(q, "hop") \/ Moves(q, "response") \/ Moves(q, "exit")
    BY <1>0, <2>2, <2>3 DEF Unheard, Moves, TypeOK
  <2> QED  BY <2>4
<1>3. CASE FirstStatement(q)
  <2>1. Kind(q) # "health"
    BY <1>0, <1>3 DEF FirstStatement
  <2>2. Moves(q, "select") \/ Moves(q, "insert")
    BY <1>0, <1>3, <2>1 DEF FirstStatement, Moves, TypeOK
  <2> QED  BY <2>2
<1> QED  BY <1>1, <1>2, <1>3

\* A statement that is answered, or fails.
LEMMA StatementsMove ==
    ASSUME ServingAssumption, IInv, NEW q \in Requests,
           \/ LoadUser(q) \/ CheckEmail(q) \/ Authenticate(q) \/ Probe(q) \/ Refresh(q)
           \/ UniqueViolation(q) \/ PoolTimeout(q) \/ DatabaseError(q)
    PROVE  \E p : Moves(q, p)
<1> USE DEF Go, pools, Kind, tables
<1>0. /\ TypeOK /\ pc[q] \in {"select", "insert", "commit", "refresh"}
      /\ Kind(q) # "health"
  BY DEF LoadUser, CheckEmail, Authenticate, Probe, Select, Refresh, UniqueViolation,
         PoolTimeout, DatabaseError, IInv, HealthApart
<1>1. CASE UniqueViolation(q) \/ PoolTimeout(q) \/ DatabaseError(q)
  <2>1. Moves(q, "exit")
    BY <1>0, <1>1 DEF UniqueViolation, PoolTimeout, DatabaseError, Error, Raise, Unheard,
                      Moves, TypeOK
  <2> QED  BY <2>1
<1>2. CASE LoadUser(q) \/ CheckEmail(q) \/ Authenticate(q) \/ Probe(q) \/ Refresh(q)
  <2>1. Moves(q, "exit") \/ Moves(q, "hop") \/ Moves(q, "insert")
    BY <1>0, <1>2 DEF LoadUser, CheckEmail, Authenticate, Probe, Select, Refresh, Proceed,
                      Raise, Moves, TypeOK
  <2> QED  BY <2>1
<1> QED  BY <1>1, <1>2

-----------------------------------------------------------------------------
(* The steps that are not mere moves.                                      *)

LEMMA InitInv == ServingAssumption /\ Init => IInv
<1> SUFFICES ASSUME ServingAssumption, Init  PROVE IInv
  OBVIOUS
<1>1. TypeOK  BY DEF ServingAssumption, Init, TypeOK
<1>2. CallsMade /\ HealthApart /\ HeldInScope /\ ContextHolds /\ TrailHolds
  BY DEF Init, CallsMade, HealthApart, HeldInScope, ContextHolds, TrailHolds
<1>3. PendingHolds  BY DEF ServingAssumption, Init, PendingHolds
<1> QED  BY <1>1, <1>2, <1>3 DEF IInv

LEMMA ArriveKeeps ==
    ASSUME ServingAssumption, IInv, NEW q \in Requests, NEW c \in Sent[q], Arrive(q, c)
    PROVE  IInv'
<1> USE DEF Arrive, Go, Set, Kind, Email, pools, tables
<1>1. /\ c \in Calls
      /\ c.kind = "register" => c.email \in Emails
  BY DEF ServingAssumption, Calls
<1>2. IF c.header # Null THEN rid'[q] = c.header ELSE rid'[q] = q
  BY DEF IInv, TypeOK
<1>3. rid'[q] \in Ids
  BY <1>1, <1>2 DEF Calls, Ids
<1>4. TypeOK'  BY <1>1, <1>3 DEF IInv, TypeOK, Success
<1>5. CallsMade'  BY <1>1 DEF IInv, TypeOK, CallsMade
<1>6. HealthApart'  BY DEF IInv, TypeOK, HealthApart, HeldInScope, Route
<1>7. HeldInScope'  BY DEF IInv, TypeOK, HeldInScope
<1>8. PendingHolds'  BY DEF IInv, TypeOK, PendingHolds
<1>9. ContextHolds'  BY <1>3 DEF IInv, TypeOK, ContextHolds
<1>10. TrailHolds'  BY DEF IInv, TypeOK, TrailHolds
<1> QED  BY <1>4, <1>5, <1>6, <1>7, <1>8, <1>9, <1>10 DEF IInv

LEMMA InsertKeeps ==
    ASSUME ServingAssumption, IInv, NEW q \in Requests, InsertUser(q) \/ InsertRequest(q)
    PROVE  IInv'
<1> USE DEF InsertUser, InsertRequest, Flushed, CurrentId, Go, Kind, Email, pools, tables
<1>1. ctx[q] = rid[q] /\ rid[q] \in Ids
  BY DEF IInv, ContextHolds
<1>2. TypeOK'  BY <1>1 DEF IInv, TypeOK
<1>3. CallsMade'  BY DEF IInv, TypeOK, CallsMade
<1>4. HealthApart'  BY DEF IInv, TypeOK, HealthApart
<1>5. HeldInScope'  BY DEF IInv, TypeOK, HeldInScope
<1>6. PendingHolds'  BY DEF IInv, TypeOK, PendingHolds, CallsMade, ServingAssumption
<1>7. ContextHolds'  BY <1>1 DEF IInv, TypeOK, ContextHolds
<1>8. TrailHolds'  BY DEF IInv, TypeOK, TrailHolds
<1> QED  BY <1>2, <1>3, <1>4, <1>5, <1>6, <1>7, <1>8 DEF IInv

LEMMA CommitKeeps ==
    ASSUME ServingAssumption, IInv, NEW q \in Requests, Commit(q)
    PROVE  IInv'
<1> USE DEF Kind, Email, pools, tables
<1>1. /\ pc[q] = "commit" /\ Kind(q) # "health"
      /\ staged[q] = rid[q] /\ rid[q] \in Ids
  BY DEF Commit, IInv, HealthApart, ContextHolds
<1>2. /\ \/ Go(q, "refresh")
         \/ Go(q, "hop")
         \/ Go(q, "exit")
      /\ DOMAIN hops' = Requests /\ \A r \in Requests \ {q} : hops'[r] = hops[r]
      /\ threads' \in {threads, threads \ {q}}
      /\ q \in threads' => pc'[q] = "refresh"
      /\ UNCHANGED <<call, rid, ctx, line, status>>
  BY <1>1 DEF Commit, Proceed, Go, IInv, TypeOK
<1>3. /\ account' = [e \in Emails |-> IF pending[e] = q THEN q ELSE account[e]]
      /\ trail' = trail \cup {[by |-> q, id |-> rid[q]]}
      /\ conns' = conns \ {q}
      /\ pending' = [e \in Emails |-> IF pending[e] = q THEN Null ELSE pending[e]]
      /\ staged' = [staged EXCEPT ![q] = Null]
  BY <1>1 DEF Commit, Released
<1> USE DEF Go
<1>4. TypeOK'  BY <1>1, <1>2, <1>3 DEF IInv, TypeOK
<1>5. CallsMade'  BY <1>1, <1>2 DEF IInv, TypeOK, CallsMade
<1>6. HealthApart'  BY <1>1, <1>2, <1>3 DEF IInv, TypeOK, HealthApart
<1>7. HeldInScope'  BY <1>1, <1>2, <1>3 DEF IInv, TypeOK, HeldInScope
<1>8. PendingHolds'  BY <1>1, <1>2, <1>3 DEF IInv, TypeOK, PendingHolds, CallsMade, ServingAssumption
<1>9. ContextHolds'  BY <1>1, <1>2, <1>3 DEF IInv, TypeOK, ContextHolds
<1>10. TrailHolds'  BY <1>1, <1>2, <1>3 DEF IInv, TypeOK, TrailHolds
<1> QED  BY <1>4, <1>5, <1>6, <1>7, <1>8, <1>9, <1>10 DEF IInv

LEMMA ExitKeeps ==
    ASSUME ServingAssumption, IInv, NEW q \in Requests, Exit(q)
    PROVE  IInv'
<1> USE DEF Exit, Released, Go, Kind, Email, pools, tables
<1>1. TypeOK'  BY DEF IInv, TypeOK
<1>2. CallsMade'  BY DEF IInv, TypeOK, CallsMade
<1>3. HealthApart'  BY DEF IInv, TypeOK, HealthApart
<1>4. HeldInScope'  BY DEF IInv, TypeOK, HeldInScope
<1>5. PendingHolds'  BY DEF IInv, TypeOK, PendingHolds, CallsMade, ServingAssumption
<1>6. ContextHolds'  BY DEF IInv, TypeOK, ContextHolds
<1>7. TrailHolds'  BY DEF IInv, TypeOK, TrailHolds
<1> QED  BY <1>1, <1>2, <1>3, <1>4, <1>5, <1>6, <1>7 DEF IInv

LEMMA AnswerKeeps ==
    ASSUME ServingAssumption, IInv, NEW q \in Requests, Respond(q) \/ Fail(q)
    PROVE  IInv'
<1> USE DEF Respond, Fail, CurrentId, Go, Kind, Email, pools, tables
<1>1. TypeOK'  BY DEF IInv, TypeOK
<1>2. CallsMade'  BY DEF IInv, TypeOK, CallsMade
<1>3. HealthApart'  BY DEF IInv, TypeOK, HealthApart
<1>4. HeldInScope'  BY DEF IInv, TypeOK, HeldInScope
<1>5. PendingHolds'  BY DEF IInv, TypeOK, PendingHolds
<1>6. ContextHolds'  BY DEF IInv, TypeOK, ContextHolds
<1>7. TrailHolds'  BY DEF IInv, TypeOK, TrailHolds
<1> QED  BY <1>1, <1>2, <1>3, <1>4, <1>5, <1>6, <1>7 DEF IInv

LEMMA StutterKeeps == IInv /\ UNCHANGED vars => IInv'
BY DEF vars, pools, tables, IInv, TypeOK, CallsMade, HealthApart, HeldInScope, PendingHolds,
       ContextHolds, TrailHolds, Kind, Email

LEMMA NextKeeps ==
    ASSUME ServingAssumption, IInv, Next
    PROVE  IInv'
<1>1. PICK q \in Requests :
         \/ \E c \in Sent[q] : Arrive(q, c)
         \/ Progress(q)
         \/ DatabaseError(q)
  BY DEF Next
<1>2. CASE \E c \in Sent[q] : Arrive(q, c)
  BY <1>2, ArriveKeeps
<1>3. CASE \/ Invalid(q) \/ PlainHop(q) \/ TooMany(q) \/ Forbidden(q) \/ BadToken(q)
           \/ FirstStatement(q)
  BY <1>3, HopsMove, MovesKeep
<1>4. CASE \/ LoadUser(q) \/ CheckEmail(q) \/ Authenticate(q) \/ Probe(q) \/ Refresh(q)
           \/ UniqueViolation(q) \/ PoolTimeout(q) \/ DatabaseError(q)
  BY <1>4, StatementsMove, MovesKeep
<1>5. CASE InsertUser(q) \/ InsertRequest(q)
  BY <1>5, InsertKeeps
<1>6. CASE Commit(q)
  BY <1>6, CommitKeeps
<1>7. CASE Exit(q)
  BY <1>7, ExitKeeps
<1>8. CASE Respond(q) \/ Fail(q)
  BY <1>8, AnswerKeeps
<1> QED  BY <1>1, <1>2, <1>3, <1>4, <1>5, <1>6, <1>7, <1>8 DEF Progress

-----------------------------------------------------------------------------
(* What a request has stored when it is answered.                          *)

Under == {"hop"} \cup Statements

\* What a request that creates an account has left to run: the dependency, the
\* endpoint, the validation of what it returns.
LEMMA RegisterRest ==
    ASSUME NEW h \in RegisterRests
    PROVE  /\ Head(h) \in {"get_db", "endpoint", "serialize"}
           /\ Head(h) = "serialize" <=> Tail(h) = << >>
           /\ Tail(h) # << >> => Tail(h) \in RegisterRests
           /\ Tail(h) # << >> /\ Head(Tail(h)) = "serialize" => Head(h) = "endpoint"
<1>1. CASE h = <<"get_db", "endpoint", "serialize">>
  <2>1. Tail(h) = <<"endpoint", "serialize">>
    BY <1>1
  <2> QED  BY <1>1, <2>1 DEF RegisterRests
<1>2. CASE h = <<"endpoint", "serialize">>
  <2>1. Tail(h) = <<"serialize">>
    BY <1>2
  <2> QED  BY <1>2, <2>1 DEF RegisterRests
<1>3. CASE h = <<"serialize">>
  <2>1. Tail(h) = << >>
    BY <1>3
  <2> QED  BY <1>3, <2>1 DEF RegisterRests
<1> QED  BY <1>1, <1>2, <1>3 DEF RegisterRests

\* And one that runs a command: nothing behind the endpoint.
LEMMA CreateRest ==
    ASSUME NEW h \in CreateRests
    PROVE  /\ Head(h) \in {"get_db", "get_current_user", "require_role", "get_idempotency",
                           "endpoint"}
           /\ Head(h) = "endpoint" <=> Tail(h) = << >>
           /\ Tail(h) # << >> => Tail(h) \in CreateRests
<1>1. CASE h = <<"get_db", "get_current_user", "require_role", "get_idempotency", "endpoint">>
  <2>1. Tail(h) = <<"get_current_user", "require_role", "get_idempotency", "endpoint">>
    BY <1>1
  <2> QED  BY <1>1, <2>1 DEF CreateRests
<1>2. CASE h = <<"get_current_user", "require_role", "get_idempotency", "endpoint">>
  <2>1. Tail(h) = <<"require_role", "get_idempotency", "endpoint">>
    BY <1>2
  <2> QED  BY <1>2, <2>1 DEF CreateRests
<1>3. CASE h = <<"require_role", "get_idempotency", "endpoint">>
  <2>1. Tail(h) = <<"get_idempotency", "endpoint">>
    BY <1>3
  <2> QED  BY <1>3, <2>1 DEF CreateRests
<1>4. CASE h = <<"get_idempotency", "endpoint">>
  <2>1. Tail(h) = <<"endpoint">>
    BY <1>4
  <2> QED  BY <1>4, <2>1 DEF CreateRests
<1>5. CASE h = <<"endpoint">>
  <2>1. Tail(h) = << >>
    BY <1>5
  <2> QED  BY <1>5, <2>1 DEF CreateRests
<1> QED  BY <1>1, <1>2, <1>3, <1>4, <1>5 DEF CreateRests

\* What a step leaves alone of a request's own state and of what it has stored.
Untouched(r) ==
    /\ call'[r] = call[r] /\ pc'[r] = pc[r] /\ hops'[r] = hops[r] /\ status'[r] = status[r]
    /\ Stored(r)' <=> Stored(r)
    /\ \A e \in Emails : account'[e] = r <=> account[e] = r

LEMMA UntouchedKeeps ==
    ASSUME ServingAssumption, IInv, NEW r \in Requests, OutcomeHolds(r), Untouched(r)
    PROVE  OutcomeHolds(r)'
<1> USE DEF Untouched, Kind, Email
<1>1. StoredWhere(r)'  BY DEF OutcomeHolds, StoredWhere
<1>2. RegisterOnItsWay(r)'  BY DEF OutcomeHolds, RegisterOnItsWay
<1>3. CreateOnItsWay(r)'  BY DEF OutcomeHolds, CreateOnItsWay
<1>4. StatusFits(r)'  BY DEF OutcomeHolds, StatusFits
<1>5. AccountFits(r)'
  <2>1. Stored(r) /\ Kind(r) = "register" => Email(r) \in Emails
    BY DEF IInv, CallsMade, TypeOK, TrailHolds, Stored
  <2> QED  BY <2>1 DEF OutcomeHolds, AccountFits
<1> QED  BY <1>1, <1>2, <1>3, <1>4, <1>5 DEF OutcomeHolds

\* The steps of one request leave all others untouched, but for the commit
\* because it leaves the tables alone.
LEMMA OthersUntouched ==
    ASSUME IInv, NEW q \in Requests, NEW r \in Requests \ {q},
           UNCHANGED tables,
           call'[r] = call[r], pc'[r] = pc[r], hops'[r] = hops[r], status'[r] = status[r]
    PROVE  Untouched(r)
BY DEF Untouched, Stored, tables

\* A request under way raises: with a 500, or before anything is stored.
LEMMA RaiseTells ==
    ASSUME ServingAssumption, IInv, NEW q \in Requests, OutcomeHolds(q), pc[q] \in Under,
           NEW code, Raise(q, code), code # 201, code # 500 => ~Stored(q),
           UNCHANGED <<call, tables>>
    PROVE  OutcomeHolds(q)'
<1> USE DEF Kind, Email, tables, Stored, Finishing
<1>1. pc'[q] = "exit" /\ status'[q] = code
  BY DEF IInv, TypeOK, Raise, Go
<1>2. StoredWhere(q)'  BY <1>1 DEF OutcomeHolds, StoredWhere
<1>3. RegisterOnItsWay(q)'  BY <1>1 DEF RegisterOnItsWay, Statements
<1>4. CreateOnItsWay(q)'  BY <1>1 DEF CreateOnItsWay, Statements
<1>5. StatusFits(q)'  BY <1>1 DEF StatusFits, Statements
<1>6. AccountFits(q)'  BY <1>1 DEF OutcomeHolds, AccountFits
<1> QED  BY <1>2, <1>3, <1>4, <1>5, <1>6 DEF OutcomeHolds

\* A hop or a statement of it returns, and it is not the commit.  A registration
\* comes to the validation of its answer only from the endpoint, which is from its
\* re-read row.
LEMMA ProceedTells ==
    ASSUME ServingAssumption, IInv, NEW q \in Requests, OutcomeHolds(q), pc[q] \in Under,
           Proceed(q), UNCHANGED <<call, tables>>,
           Kind(q) = "register" /\ Head(hops[q]) = "endpoint" => pc[q] = "refresh",
           Kind(q) = "create" => Head(hops[q]) # "endpoint"
    PROVE  OutcomeHolds(q)'
<1> USE DEF Kind, Email, tables, Stored, Under
<1>1. PICK rest : rest = Tail(hops[q])
  OBVIOUS
<1>2. /\ hops'[q] = rest /\ status'[q] = status[q]
      /\ \/ rest # << >> /\ pc'[q] = "hop"
         \/ rest = << >> /\ pc'[q] \in {"response", "exit"}
  BY <1>1 DEF IInv, TypeOK, Proceed, Go
<1>3. ASSUME Kind(q) = "register"
      PROVE  /\ rest # << >> => rest \in RegisterRests
             /\ rest # << >> /\ Head(rest) = "serialize" => Stored(q)
             /\ rest = << >> => Stored(q)
             /\ Stored(q) /\ rest # << >> => Head(rest) = "serialize"
  <2>1. hops[q] \in RegisterRests
    BY <1>3 DEF OutcomeHolds, RegisterOnItsWay
  <2>2. /\ Head(hops[q]) \in {"get_db", "endpoint", "serialize"}
        /\ Head(hops[q]) = "serialize" <=> rest = << >>
        /\ rest # << >> => rest \in RegisterRests
        /\ rest # << >> /\ Head(rest) = "serialize" => Head(hops[q]) = "endpoint"
    BY <1>1, <2>1, RegisterRest
  <2>3. Head(hops[q]) = "endpoint" => Stored(q)
    BY <1>3 DEF OutcomeHolds, RegisterOnItsWay, Statements
  <2>4. Head(hops[q]) = "serialize" => Stored(q)
    BY <1>3 DEF OutcomeHolds, RegisterOnItsWay, Statements
  <2>5. Stored(q) => Head(hops[q]) \in {"endpoint", "serialize"}
    BY <1>3 DEF OutcomeHolds, StoredWhere, RegisterOnItsWay, Statements, Finishing
  <2>6. Head(hops[q]) = "endpoint" => Head(rest) = "serialize"
    <3>1. hops[q] # <<"get_db", "endpoint", "serialize">> /\ hops[q] # <<"serialize">>
             => hops[q] = <<"endpoint", "serialize">>
      BY <2>1 DEF RegisterRests
    <3>2. Head(hops[q]) = "endpoint" => hops[q] = <<"endpoint", "serialize">>
      BY <3>1
    <3> QED  BY <1>1, <3>2, TailOfPair
  <2> QED  BY <2>2, <2>3, <2>4, <2>5, <2>6
<1>4. ASSUME Kind(q) = "create"
      PROVE  rest # << >> /\ rest \in CreateRests /\ ~Stored(q)
  <2>1. hops[q] \in CreateRests /\ pc[q] \notin {"refresh"} \cup Finishing
    BY <1>4 DEF OutcomeHolds, CreateOnItsWay, Statements, Finishing
  <2>2. ~Stored(q)
    BY <1>4, <2>1 DEF OutcomeHolds, StoredWhere
  <2> QED  BY <1>1, <1>4, <2>1, <2>2, CreateRest
<1>5. status[q] = Success(Kind(q))
  BY DEF OutcomeHolds, StatusFits
<1>6. Stored(q)' <=> Stored(q)
  OBVIOUS
<1> HIDE DEF Stored
<1>7. Stored(q) => Kind(q) \in {"register", "create"}
  BY DEF OutcomeHolds, StoredWhere
<1>8. StoredWhere(q)'
  BY <1>2, <1>3, <1>4, <1>6, <1>7 DEF StoredWhere, Finishing
<1>9. RegisterOnItsWay(q)'
  BY <1>2, <1>3, <1>6 DEF RegisterOnItsWay, Statements
<1>10. CreateOnItsWay(q)'
  BY <1>2, <1>4 DEF CreateOnItsWay, Statements
<1>11. StatusFits(q)'
  BY <1>2, <1>3, <1>4, <1>5, <1>6, <1>7 DEF StatusFits, Statements, Finishing, Success
<1>12. AccountFits(q)'
  BY <1>2, <1>6 DEF OutcomeHolds, AccountFits
<1> QED  BY <1>8, <1>9, <1>10, <1>11, <1>12 DEF OutcomeHolds

\* A request that has stored nothing comes to a statement before the commit.
LEMMA ReachTells ==
    ASSUME ServingAssumption, IInv, NEW q \in Requests, OutcomeHolds(q),
           pc[q] \in {"hop", "select", "insert"}, NEW p \in {"select", "insert", "commit"},
           Go(q, p), UNCHANGED <<call, hops, status, tables>>,
           Kind(q) = "register" => Head(hops[q]) = "endpoint",
           Kind(q) = "create" /\ p # "select" => Head(hops[q]) = "endpoint"
    PROVE  OutcomeHolds(q)'
<1> USE DEF Kind, Email, tables
<1>1. pc'[q] = p
  BY DEF IInv, TypeOK, Go
<1>2. Stored(q)' <=> Stored(q)
  BY DEF Stored
<1>3. ~Stored(q)
  BY DEF OutcomeHolds, StoredWhere, RegisterOnItsWay, CreateOnItsWay, Statements, Finishing
<1>4. StoredWhere(q)'  BY <1>2, <1>3 DEF StoredWhere
<1>5. RegisterOnItsWay(q)'
  BY <1>1 DEF OutcomeHolds, RegisterOnItsWay, Statements
<1>6. CreateOnItsWay(q)'
  BY <1>1 DEF OutcomeHolds, CreateOnItsWay, Statements
<1>7. StatusFits(q)'
  BY <1>1 DEF OutcomeHolds, StatusFits, Statements, Finishing
<1>8. AccountFits(q)'
  BY <1>1, <1>2, <1>3 DEF OutcomeHolds, AccountFits
<1> QED  BY <1>4, <1>5, <1>6, <1>7, <1>8 DEF OutcomeHolds

\* The hops.
LEMMA HopsTell ==
    ASSUME ServingAssumption, IInv, Outcomes, NEW q \in Requests,
           \/ Invalid(q) \/ PlainHop(q) \/ TooMany(q) \/ Forbidden(q) \/ BadToken(q)
           \/ FirstStatement(q)
    PROVE  OutcomeHolds(q)'
<1> USE DEF At, Runs, Unheard, tables
<1>0. OutcomeHolds(q) /\ pc[q] = "hop" /\ pc[q] \in Under
  BY DEF Outcomes, Invalid, PlainHop, TooMany, Forbidden, BadToken, FirstStatement, Under
<1>1. Kind(q) = "register" => hops[q] \in RegisterRests
  BY <1>0 DEF OutcomeHolds, RegisterOnItsWay
<1>2. Kind(q) = "create" => hops[q] \in CreateRests
  BY <1>0 DEF OutcomeHolds, CreateOnItsWay
<1>3. Head(hops[q]) # "serialize" => ~Stored(q)
  BY <1>0 DEF OutcomeHolds, StoredWhere, CreateOnItsWay, Finishing
<1>4. CASE Invalid(q) \/ TooMany(q) \/ Forbidden(q) \/ BadToken(q)
  <2>1. PICK code \in {401, 403, 422, 429} : Raise(q, code)
    BY <1>4 DEF Invalid, TooMany, Forbidden, BadToken
  <2>2. Head(hops[q]) # "serialize" /\ UNCHANGED <<call, tables>>
    BY <1>4 DEF Invalid, TooMany, Forbidden, BadToken
  <2> QED  BY <1>0, <1>3, <2>1, <2>2, RaiseTells
<1>5. CASE PlainHop(q)
  <2>1. Proceed(q) /\ UNCHANGED <<call, tables>>
    BY <1>5 DEF PlainHop
  <2>2. Kind(q) \in {"register", "create"} => Head(hops[q]) # "endpoint"
    BY <1>5 DEF PlainHop
  <2> QED  BY <1>0, <2>1, <2>2, ProceedTells
<1>6. CASE FirstStatement(q)
  <2>1. /\ \/ Head(hops[q]) = "get_current_user" /\ Go(q, "select")
           \/ Head(hops[q]) = "endpoint" /\ Kind(q) # "create" /\ Go(q, "select")
           \/ Head(hops[q]) = "endpoint" /\ Go(q, "insert")
        /\ UNCHANGED <<call, hops, status, tables>>
    BY <1>6 DEF FirstStatement
  <2>2. Kind(q) = "register" => Head(hops[q]) # "get_current_user"
    BY <1>1, RegisterRest
  <2>3. Kind(q) = "register" => Head(hops[q]) = "endpoint"
    BY <2>1, <2>2
  <2>4. CASE Go(q, "select")
    BY <1>0, <2>1, <2>3, <2>4, ReachTells
  <2>5. CASE Head(hops[q]) = "endpoint" /\ Go(q, "insert")
    BY <1>0, <2>1, <2>3, <2>5, ReachTells
  <2> QED  BY <2>1, <2>4, <2>5
<1> QED  BY <1>4, <1>5, <1>6

\* The statements before and after the commit.  What they raise behind it, which
\* only the re-read of the account can, is a 500.
LEMMA StatementsTell ==
    ASSUME ServingAssumption, IInv, Outcomes, NEW q \in Requests,
           \/ LoadUser(q) \/ CheckEmail(q) \/ Authenticate(q) \/ Probe(q) \/ Refresh(q)
           \/ UniqueViolation(q) \/ PoolTimeout(q) \/ DatabaseError(q)
           \/ InsertUser(q) \/ InsertRequest(q)
    PROVE  OutcomeHolds(q)'
<1> USE DEF Unheard, tables
<1>0. /\ OutcomeHolds(q) /\ pc[q] \in Statements /\ pc[q] \in Under
      /\ UNCHANGED <<call, tables>>
  BY DEF Outcomes, LoadUser, CheckEmail, Authenticate, Probe, Select, Refresh, UniqueViolation,
         PoolTimeout, DatabaseError, Error, InsertUser, InsertRequest, Flushed, Under, Statements
<1>1. Kind(q) = "register" => Head(hops[q]) = "endpoint"
  BY <1>0 DEF OutcomeHolds, RegisterOnItsWay
<1>2. pc[q] # "refresh" => ~Stored(q)
  BY <1>0 DEF OutcomeHolds, StoredWhere, Statements, Finishing
<1>3. CASE UniqueViolation(q) \/ PoolTimeout(q) \/ DatabaseError(q)
  <2>1. PICK code \in {500, 503} : Raise(q, code) /\ (code = 503 => Kind(q) = "ready")
    BY <1>3 DEF UniqueViolation, PoolTimeout, DatabaseError, Error
  <2>2. Kind(q) = "ready" => ~Stored(q)
    BY <1>0 DEF OutcomeHolds, StoredWhere
  <2> QED  BY <1>0, <2>1, <2>2, RaiseTells
<1>4. CASE LoadUser(q)
  <2>1. /\ Raise(q, 401) \/ Proceed(q)
        /\ pc[q] = "select" /\ Head(hops[q]) = "get_current_user"
    BY <1>4 DEF LoadUser, Select
  <2>2. CASE Raise(q, 401)
    BY <1>0, <1>2, <2>1, <2>2, RaiseTells
  <2>3. CASE Proceed(q)
    BY <1>0, <1>1, <2>1, <2>3, ProceedTells
  <2> QED  BY <2>1, <2>2, <2>3
<1>5. CASE CheckEmail(q)
  <2>1. /\ \/ Raise(q, 409)
           \/ Go(q, "insert") /\ UNCHANGED <<hops, status>>
        /\ pc[q] = "select" /\ Head(hops[q]) = "endpoint"
    BY <1>5 DEF CheckEmail, Select
  <2>2. CASE Raise(q, 409)
    BY <1>0, <1>2, <2>1, <2>2, RaiseTells
  <2>3. CASE Go(q, "insert") /\ UNCHANGED <<hops, status>>
    BY <1>0, <2>1, <2>3, ReachTells
  <2> QED  BY <2>1, <2>2, <2>3
<1>6. CASE Authenticate(q) \/ Probe(q)
  <2>1. /\ Raise(q, 401) \/ Proceed(q)
        /\ pc[q] = "select" /\ Kind(q) \in {"login", "ready"}
    BY <1>6 DEF Authenticate, Probe, Select
  <2>2. CASE Raise(q, 401)
    BY <1>0, <1>2, <2>1, <2>2, RaiseTells
  <2>3. CASE Proceed(q)
    BY <1>0, <2>1, <2>3, ProceedTells
  <2> QED  BY <2>1, <2>2, <2>3
<1>7. CASE Refresh(q)
  <2>1. pc[q] = "refresh" /\ Proceed(q)
    BY <1>7 DEF Refresh
  <2>2. Kind(q) # "create"
    BY <1>0, <2>1 DEF OutcomeHolds, CreateOnItsWay
  <2> QED  BY <1>0, <2>1, <2>2, ProceedTells
<1>8. CASE InsertUser(q) \/ InsertRequest(q)
  <2>1. pc[q] = "insert" /\ Go(q, "commit") /\ UNCHANGED <<hops, status>>
    BY <1>8 DEF InsertUser, InsertRequest, Flushed
  <2>2. Kind(q) = "create" => Head(hops[q]) = "endpoint"
    BY <1>0, <2>1 DEF OutcomeHolds, CreateOnItsWay
  <2> QED  BY <1>0, <1>1, <2>1, <2>2, ReachTells
<1> QED  BY <1>3, <1>4, <1>5, <1>6, <1>7, <1>8

\* The commit stores the account and the entry of its request, and nothing else.
LEMMA CommitTells ==
    ASSUME ServingAssumption, IInv, Outcomes, NEW q \in Requests, Commit(q)
    PROVE  Outcomes'
<1> USE DEF Kind, Email
<1>1. /\ OutcomeHolds(q) /\ pc[q] = "commit" /\ pc[q] \in Statements
      /\ Kind(q) \in {"register", "create"}
  BY DEF Commit, Outcomes, IInv, PendingHolds, Statements
<1>2. /\ account' = [e \in Emails |-> IF pending[e] = q THEN q ELSE account[e]]
      /\ trail' = trail \cup {[by |-> q, id |-> staged[q]]}
      /\ call' = call
  BY DEF Commit
<1>3. \A e \in Emails : pending[e] = q <=> Kind(q) = "register" /\ Email(q) = e
  BY <1>1 DEF IInv, PendingHolds
<1>4. \A e \in Emails : pending[e] = q => account[e] = Null
  BY DEF IInv, PendingHolds
<1>5. Stored(q)'
  <2>1. PICK row : row = [by |-> q, id |-> staged[q]]
    OBVIOUS
  <2>2. row \in trail' /\ row.by = q
    BY <1>2, <2>1
  <2> QED  BY <2>2 DEF Stored
<1>6. ASSUME NEW r \in Requests \ {q}
      PROVE  OutcomeHolds(r)'
  <2>1. /\ pc'[r] = pc[r] /\ hops'[r] = hops[r] /\ status'[r] = status[r]
    BY <1>6 DEF Commit, Proceed, Go, IInv, TypeOK
  <2>2. Stored(r)' <=> Stored(r)
    <3>1. \A row \in trail' : row.by = r => row \in trail
      BY <1>2, <1>6
    <3> QED  BY <1>2, <3>1 DEF Stored
  <2>3. \A e \in Emails : account'[e] = r <=> account[e] = r
    BY <1>2, <1>4, <1>6 DEF ServingAssumption
  <2>4. Untouched(r)
    BY <1>2, <2>1, <2>2, <2>3 DEF Untouched
  <2> QED  BY <2>4, UntouchedKeeps DEF Outcomes
<1>7. \A e \in Emails : account'[e] = q => Kind(q) = "register"
  BY <1>1, <1>2, <1>3 DEF OutcomeHolds, AccountFits
<1>8. Kind(q) = "register" => account'[Email(q)] = q
  BY <1>1, <1>2, <1>3 DEF IInv, CallsMade
<1>9. CASE Kind(q) = "register"
  <2>1. pc'[q] = "refresh" /\ hops' = hops /\ status' = status
    BY <1>9 DEF Commit, Go, IInv, TypeOK
  <2>2. /\ hops[q] \in RegisterRests /\ Head(hops[q]) = "endpoint"
        /\ status[q] = Success("register")
    BY <1>1, <1>9 DEF OutcomeHolds, RegisterOnItsWay, StatusFits
  <2>3. StoredWhere(q)'  BY <1>2, <1>9, <2>1 DEF StoredWhere
  <2>4. RegisterOnItsWay(q)'  BY <1>5, <2>1, <2>2 DEF RegisterOnItsWay
  <2>5. CreateOnItsWay(q)'  BY <1>2, <1>9 DEF CreateOnItsWay
  <2>6. StatusFits(q)'  BY <1>2, <1>9, <2>1, <2>2 DEF StatusFits, Finishing
  <2>7. AccountFits(q)'  BY <1>2, <1>5, <1>7, <1>8, <1>9, <2>1 DEF AccountFits
  <2>8. OutcomeHolds(q)'  BY <2>3, <2>4, <2>5, <2>6, <2>7 DEF OutcomeHolds
  <2> QED  BY <1>6, <2>8 DEF Outcomes
<1>10. CASE Kind(q) = "create"
  <2>1. hops[q] \in CreateRests /\ Head(hops[q]) = "endpoint" /\ status[q] = Success("create")
    BY <1>1, <1>10 DEF OutcomeHolds, CreateOnItsWay, StatusFits
  <2>2. Tail(hops[q]) = << >>
    BY <2>1, CreateRest
  <2>3. pc'[q] = "exit" /\ status' = status
    BY <1>10, <2>2 DEF Commit, Proceed, Go, IInv, TypeOK
  <2>4. StoredWhere(q)'  BY <1>2, <1>10, <2>3 DEF StoredWhere, Finishing
  <2>5. RegisterOnItsWay(q)'  BY <1>2, <1>10 DEF RegisterOnItsWay
  <2>6. CreateOnItsWay(q)'  BY <2>3 DEF CreateOnItsWay, Statements
  <2>7. StatusFits(q)'  BY <1>5, <2>1, <2>3 DEF StatusFits, Statements, Success
  <2>8. AccountFits(q)'  BY <1>2, <1>7, <1>10 DEF AccountFits
  <2>9. OutcomeHolds(q)'  BY <2>4, <2>5, <2>6, <2>7, <2>8 DEF OutcomeHolds
  <2> QED  BY <1>6, <2>9 DEF Outcomes
<1> QED  BY <1>1, <1>9, <1>10

\* The way back changes nothing of it.
LEMMA ReturnTells ==
    ASSUME ServingAssumption, IInv, Outcomes, NEW q \in Requests,
           Exit(q) \/ Respond(q) \/ Fail(q)
    PROVE  OutcomeHolds(q)'
<1> USE DEF Kind, Email, Stored, tables
<1>1. /\ OutcomeHolds(q) /\ pc[q] \in Finishing /\ pc'[q] \in Finishing
      /\ UNCHANGED <<call, status, tables>>
  BY DEF Outcomes, Exit, Respond, Fail, Go, IInv, TypeOK, Finishing
<1>2. pc'[q] \notin {"new", "hop"} \cup Statements
  BY <1>1 DEF Finishing, Statements
<1>3. StoredWhere(q)'  BY <1>1, <1>2 DEF OutcomeHolds, StoredWhere
<1>4. RegisterOnItsWay(q)'  BY <1>2 DEF RegisterOnItsWay
<1>5. CreateOnItsWay(q)'  BY <1>2 DEF CreateOnItsWay
<1>6. StatusFits(q)'  BY <1>1, <1>2 DEF OutcomeHolds, StatusFits
<1>7. AccountFits(q)'  BY <1>1, <1>2 DEF OutcomeHolds, AccountFits
<1> QED  BY <1>3, <1>4, <1>5, <1>6, <1>7 DEF OutcomeHolds

\* A request arrives with nothing stored.
LEMMA ArriveTells ==
    ASSUME ServingAssumption, IInv, Outcomes, NEW q \in Requests, NEW c \in Sent[q],
           Arrive(q, c)
    PROVE  OutcomeHolds(q)'
<1> USE DEF Kind, Email, tables
<1>1. /\ OutcomeHolds(q) /\ pc[q] = "new" /\ pc'[q] = "hop" /\ call'[q] = c
      /\ hops'[q] = Route(c.kind) /\ status'[q] = Success(c.kind)
      /\ UNCHANGED tables
  BY DEF Outcomes, Arrive, Go, IInv, TypeOK
<1>2. ~Stored(q) /\ (Stored(q)' <=> Stored(q))
  BY <1>1 DEF OutcomeHolds, StoredWhere, Finishing, Stored
<1>3. \A e \in Emails : account[e] # q
  BY <1>1 DEF OutcomeHolds, AccountFits
<1>4. StoredWhere(q)'  BY <1>2 DEF StoredWhere
<1>5. RegisterOnItsWay(q)'
  <2>1. Route("register") \in RegisterRests /\ Head(Route("register")) = "get_db"
    BY DEF Route, RegisterRests
  <2> QED  BY <1>1, <2>1 DEF RegisterOnItsWay, Statements
<1>6. CreateOnItsWay(q)'
  <2>1. Route("create") \in CreateRests
    BY DEF Route, CreateRests
  <2> QED  BY <1>1, <2>1 DEF CreateOnItsWay, Statements
<1>7. StatusFits(q)'  BY <1>1 DEF StatusFits, Finishing
<1>8. AccountFits(q)'  BY <1>1, <1>2, <1>3 DEF AccountFits
<1> QED  BY <1>4, <1>5, <1>6, <1>7, <1>8 DEF OutcomeHolds

LEMMA OutcomesKept ==
    ASSUME ServingAssumption, IInv, Outcomes, [Next]_vars
    PROVE  Outcomes'
<1>1. CASE UNCHANGED vars
  <2>1. \A r \in Requests : Untouched(r)
    BY <1>1 DEF vars, tables, Untouched, Stored
  <2> QED  BY <2>1, UntouchedKeeps DEF Outcomes
<1>2. CASE Next
  <2>1. PICK q \in Requests :
           \/ \E c \in Sent[q] : Arrive(q, c)
           \/ Progress(q)
           \/ DatabaseError(q)
    BY <1>2 DEF Next
  <2>2. CASE Commit(q)
    BY <2>2, CommitTells
  <2>3. ASSUME ~Commit(q)
        PROVE  Outcomes'
    <3>1. \/ \E c \in Sent[q] : Arrive(q, c)
          \/ \E p : Moves(q, p)
          \/ InsertUser(q) \/ InsertRequest(q) \/ Exit(q) \/ Respond(q) \/ Fail(q)
      BY <2>1, <2>3, HopsMove, StatementsMove DEF Progress
    <3>2. \A r \in Requests \ {q} : Untouched(r)
      <4>1. /\ UNCHANGED tables
            /\ \A r \in Requests \ {q} : /\ call'[r] = call[r] /\ pc'[r] = pc[r]
                                         /\ hops'[r] = hops[r] /\ status'[r] = status[r]
        <5>1. CASE \E c \in Sent[q] : Arrive(q, c)
          BY <5>1 DEF Arrive, Go, tables, IInv, TypeOK
        <5>2. CASE \E p : Moves(q, p)
          BY <5>2 DEF Moves, Go, tables, IInv, TypeOK
        <5>3. CASE InsertUser(q) \/ InsertRequest(q) \/ Exit(q) \/ Respond(q) \/ Fail(q)
          BY <5>3 DEF InsertUser, InsertRequest, Flushed, Exit, Respond, Fail, Go, tables,
                      IInv, TypeOK
        <5> QED  BY <3>1, <5>1, <5>2, <5>3
      <4> QED  BY <4>1, OthersUntouched
    <3>3. \A r \in Requests \ {q} : OutcomeHolds(r)'
      BY <3>2, UntouchedKeeps DEF Outcomes
    <3>4. OutcomeHolds(q)'
      BY <2>1, <2>3, ArriveTells, HopsTell, StatementsTell, ReturnTells DEF Progress
    <3> QED  BY <3>3, <3>4 DEF Outcomes
  <2> QED  BY <2>2, <2>3
<1> QED  BY <1>1, <1>2

-----------------------------------------------------------------------------
(* Theorems.                                                               *)

\* The inductive invariant of the serving of requests holds in every run.
THEOREM ServingInvariance == Spec => []IInv
<1>1. Init => IInv  BY InitInv, ServingAssumption
<1>2. IInv /\ [Next]_vars => IInv'
  BY ServingAssumption, NextKeeps, StutterKeeps
<1> QED  BY <1>1, <1>2, PTL DEF Spec

\* Type correctness of every variable, whatever the requests do.
THEOREM ServingTypeCorrect == Spec => []TypeOK
<1>1. IInv => TypeOK  BY DEF IInv
<1> QED  BY <1>1, ServingInvariance, PTL

\* However a request fails, once it is answered it holds neither a thread nor a
\* connection nor an uncommitted row: get_db (database.py:44) gives everything
\* back, for every number of requests, threads and connections.
THEOREM NothingEverKept == Spec => []NothingKept
<1>1. IInv => NothingKept
  BY DEF IInv, TypeOK, HeldInScope, PendingHolds, NothingKept
<1> QED  BY <1>1, ServingInvariance, PTL

\* Every row of the audit trail has the id of the request that wrote it: what
\* record (audit.py:26) reads from the context variable is never that of another.
THEOREM AuditAlwaysTagged == Spec => []AuditTagged
<1>1. IInv => AuditTagged
  BY DEF IInv, TrailHolds, AuditTagged
<1> QED  BY <1>1, ServingInvariance, PTL

\* What a request has stored, and what it will be told, in every run.
THEOREM OutcomesInvariance == Spec => []Outcomes
<1>1. Init => Outcomes
  <2>1. ASSUME Init, NEW q \in Requests
        PROVE  OutcomeHolds(q)
    <3>1. ~Stored(q) /\ pc[q] = "new"
      BY <2>1 DEF Init, Stored
    <3>2. \A e \in Emails : account[e] # q
      BY <2>1, ServingAssumption DEF Init, ServingAssumption
    <3> QED  BY <3>1, <3>2 DEF OutcomeHolds, StoredWhere, RegisterOnItsWay, CreateOnItsWay,
                               StatusFits, AccountFits, Statements, Finishing
  <2> QED  BY <2>1 DEF Outcomes
<1>2. IInv /\ Outcomes /\ [Next]_vars => Outcomes'
  BY ServingAssumption, OutcomesKept
<1> QED  BY <1>1, <1>2, ServingInvariance, PTL DEF Spec

\* The status tells the caller what its request has stored, though registration
\* commits before it has its answer (users.py:36): a 201 only with row and audit
\* entry, a refusal or a 503 with neither, and never one of them alone, for every
\* number of requests, threads and connections.
THEOREM AnswerAlwaysTells == Spec => []AnswerTells
<1>1. ASSUME IInv, Outcomes, NEW q \in Requests, pc[q] = "done"
      PROVE  /\ status[q] = 201 => Stored(q)
             /\ status[q] \notin {201, 500} =>
                   ~Stored(q) /\ ~\E e \in Emails : account[e] = q
             /\ Kind(q) = "register" => (Stored(q) <=> \E e \in Emails : account[e] = q)
  <2>1. StatusFits(q) /\ AccountFits(q)
    BY <1>1 DEF Outcomes, OutcomeHolds
  <2>2. Kind(q) = "register" => Email(q) \in Emails
    BY <1>1 DEF IInv, CallsMade
  <2> QED  BY <1>1, <2>1, <2>2 DEF StatusFits, AccountFits, Finishing
<1>2. IInv /\ Outcomes => AnswerTells
  BY <1>1 DEF AnswerTells, Stored
<1> QED  BY <1>2, ServingInvariance, OutcomesInvariance, PTL

-----------------------------------------------------------------------------
(* Registration implements Accounts.                                       *)

Registrations == {row \in trail : Kind(row.by) = "register"}
Entries == {<<row.by, Email(row.by)>> : row \in Registrations}

\* As long as no row is added, the entries stay: a request with a row is under way
\* or answered, and makes no other call.
LEMMA EntriesStay ==
    ASSUME IInv, UNCHANGED trail, \A row \in trail : call'[row.by] = call[row.by]
    PROVE  UNCHANGED Entries
<1>1. UNCHANGED Registrations
  BY DEF Registrations, Kind
<1>2. \A row \in Registrations : Email(row.by)' = Email(row.by)
  BY DEF Registrations, Email
<1> QED  BY <1>1, <1>2 DEF Entries

\* The commit of a registration is the promised step, any other step a stutter.
LEMMA StepPromised ==
    ASSUME ServingAssumption, IInv, [Next]_vars
    PROVE  \/ \E q \in Requests, e \in Emails :
                 /\ account[e] = Null
                 /\ account' = [account EXCEPT ![e] = q]
                 /\ Entries' = Entries \cup {<<q, e>>}
           \/ UNCHANGED <<account, Entries>>
<1>1. CASE UNCHANGED vars
  BY <1>1, EntriesStay DEF vars, tables
<1>2. CASE \E q \in Requests : Commit(q)
  <2>1. PICK q \in Requests : Commit(q)
    BY <1>2
  <2>2. /\ pc[q] = "commit"
        /\ account' = [e \in Emails |-> IF pending[e] = q THEN q ELSE account[e]]
        /\ call' = call
    BY <2>1 DEF Commit
  <2>3. PICK row : row = [by |-> q, id |-> staged[q]]
    OBVIOUS
  <2>4. trail' = trail \cup {row} /\ row.by = q
    BY <2>1, <2>3 DEF Commit
  <2>5. CASE Kind(q) = "register"
    <3>1. /\ Email(q) \in Emails /\ account[Email(q)] = Null
          /\ \A e \in Emails : pending[e] = q <=> e = Email(q)
      BY <2>2, <2>5 DEF IInv, CallsMade, PendingHolds
    <3>2. account' = [account EXCEPT ![Email(q)] = q]
      <4>1. account \in [Emails -> Requests \cup {Null, Earlier}]
        BY DEF IInv, TypeOK
      <4> QED  BY <2>2, <3>1, <4>1
    <3>3. Entries' = Entries \cup {<<q, Email(q)>>}
      <4>1. Registrations' = Registrations \cup {row}
        BY <2>2, <2>4, <2>5 DEF Registrations, Kind
      <4>2. \A r : Email(r.by)' = Email(r.by)
        BY <2>2 DEF Email
      <4> QED  BY <2>4, <4>1, <4>2 DEF Entries
    <3> QED  BY <3>1, <3>2, <3>3
  <2>6. CASE Kind(q) # "register"
    <3>1. account' = account
      BY <2>2, <2>6 DEF IInv, TypeOK, PendingHolds
    <3>2. Entries' = Entries
      <4>1. Registrations' = Registrations
        BY <2>2, <2>4, <2>6 DEF Registrations, Kind
      <4> QED  BY <2>2, <4>1 DEF Entries, Email
    <3> QED  BY <3>1, <3>2
  <2> QED  BY <2>5, <2>6
<1>3. CASE \E q \in Requests : \E c \in Sent[q] : Arrive(q, c)
  <2>1. PICK q \in Requests : \E c \in Sent[q] : Arrive(q, c)
    BY <1>3
  <2>2. /\ pc[q] = "new" /\ UNCHANGED <<account, trail>>
        /\ \A r \in Requests \ {q} : call'[r] = call[r]
    BY <2>1 DEF Arrive, tables, IInv, TypeOK
  <2>3. \A row \in trail : call'[row.by] = call[row.by]
    BY <2>2 DEF IInv, TypeOK, TrailHolds
  <2> QED  BY <2>2, <2>3, EntriesStay
<1>4. CASE \E q \in Requests :
              \/ \E p : Moves(q, p)
              \/ InsertUser(q) \/ InsertRequest(q) \/ Exit(q) \/ Respond(q) \/ Fail(q)
  <2>1. UNCHANGED <<call, account, trail>>
    BY <1>4 DEF Moves, InsertUser, InsertRequest, Flushed, Exit, Respond, Fail, tables
  <2> QED  BY <2>1, EntriesStay
<1> QED
  <2>1. CASE Next
    <3>1. PICK q \in Requests :
             \/ \E c \in Sent[q] : Arrive(q, c)
             \/ Progress(q)
             \/ DatabaseError(q)
      BY <2>1 DEF Next
    <3>2. \/ \E c \in Sent[q] : Arrive(q, c)
          \/ \E p : Moves(q, p)
          \/ Commit(q)
          \/ InsertUser(q) \/ InsertRequest(q) \/ Exit(q) \/ Respond(q) \/ Fail(q)
      BY <3>1, HopsMove, StatementsMove DEF Progress
    <3> QED  BY <3>2, <1>2, <1>3, <1>4
  <2> QED  BY <2>1, <1>1

\* register_user (users.py:15), though it checks first and inserts later, on any
\* number of threads, implements the atomic registration that Accounts promises.
THEOREM RegistrationImplements == Spec => ImplementsAccounts
<1>1. Init => Promise!Init
  BY DEF Init, Promise!Init
<1>2. IInv /\ [Next]_vars => [Promise!Next]_(Promise!vars)
  BY ServingAssumption, StepPromised
     DEF Promise!Next, Promise!Register, Promise!vars, Entries, Registrations
<1> QED  BY <1>1, <1>2, ServingInvariance, PTL DEF Spec, ImplementsAccounts, Promise!Spec
=============================================================================
