-------------------------- MODULE ServingInvariant --------------------------
(***************************************************************************)
(* The inductive invariants of Serving: IInv of what requests hold, and    *)
(* Outcomes, inductive together with it, of what they have stored.         *)
(***************************************************************************)
EXTENDS Serving

\* Someone has called, and an account is registered for an address.
CallsMade ==
    \A q \in Requests :
        /\ pc[q] # "new" => call[q] \in Calls
        /\ pc[q] # "new" /\ Kind(q) = "register" => Email(q) \in Emails

\* The probe of the process never meets the database.
HealthApart ==
    \A q \in Requests : pc[q] # "new" /\ Kind(q) = "health" =>
        /\ pc[q] \in {"hop", "exit", "response", "done"}
        /\ pc[q] = "hop" => hops[q] \in {<<"endpoint", "serialize">>, <<"serialize">>}
        /\ q \notin conns

\* A thread is held inside a statement; a connection until the session is
\* closed, a flushed row until the transaction ends.
HeldInScope ==
    \A q \in Requests :
        /\ q \in threads => pc[q] \in {"select", "insert", "commit", "refresh"}
        /\ q \in conns => pc[q] \notin {"new", "response", "done"}
        /\ staged[q] # Null => pc[q] \in {"commit", "exit"}

\* An uncommitted account is that of a registration under way, for an address
\* that has no account yet.
PendingHolds ==
    /\ \A e \in Emails, q \in Requests : pending[e] = q =>
          /\ pc[q] \in {"commit", "exit"}
          /\ Kind(q) = "register" /\ Email(q) = e
          /\ account[e] = Null
    /\ \A q \in Requests : pc[q] = "commit" =>
          /\ Kind(q) \in {"register", "create"}
          /\ Kind(q) = "register" => pending[Email(q)] = q

\* The context of a request holds its id until it is answered, and so does the
\* audit row it has flushed.
ContextHolds ==
    \A q \in Requests :
        /\ pc[q] \notin {"new", "done"} => ctx[q] = rid[q]
        /\ pc[q] # "new" => rid[q] \in Ids
        /\ pc[q] = "commit" => staged[q] = rid[q]

TrailHolds == \A row \in trail : pc[row.by] # "new" /\ row.id = rid[row.by]

IInv ==
    /\ TypeOK
    /\ CallsMade
    /\ HealthApart
    /\ HeldInScope
    /\ PendingHolds
    /\ ContextHolds
    /\ TrailHolds

-----------------------------------------------------------------------------
(* What a request has stored so far, and what it will be told.             *)

Stored(q) == \E row \in trail : row.by = q

\* What is left of the routes of the two calls that store something.
RegisterRests == {<<"get_db", "endpoint", "serialize">>, <<"endpoint", "serialize">>,
                  <<"serialize">>}
CreateRests == {<<"get_db", "get_current_user", "require_role", "get_idempotency", "endpoint">>,
                <<"get_current_user", "require_role", "get_idempotency", "endpoint">>,
                <<"require_role", "get_idempotency", "endpoint">>,
                <<"get_idempotency", "endpoint">>, <<"endpoint">>}

Statements == {"select", "insert", "commit", "refresh"}
Finishing == {"exit", "response", "done"}

\* Only the commit stores, and what comes after it: the re-read of the account
\* and the validation of the answer, or the end.
StoredWhere(q) ==
    Stored(q) =>
        /\ Kind(q) \in {"register", "create"}
        /\ \/ pc[q] \in {"refresh"} \cup Finishing
           \/ pc[q] = "hop" /\ Kind(q) = "register" /\ Head(hops[q]) = "serialize"

RegisterOnItsWay(q) ==
    pc[q] \in {"hop"} \cup Statements /\ Kind(q) = "register" =>
        /\ hops[q] \in RegisterRests
        /\ pc[q] \in Statements => Head(hops[q]) = "endpoint"
        /\ pc[q] = "refresh" => Stored(q)
        /\ pc[q] = "hop" /\ Head(hops[q]) = "serialize" => Stored(q)

CreateOnItsWay(q) ==
    pc[q] \in {"hop"} \cup Statements /\ Kind(q) = "create" =>
        /\ hops[q] \in CreateRests
        /\ pc[q] \in {"insert", "commit"} => Head(hops[q]) = "endpoint"
        /\ pc[q] # "refresh"

\* Until something is raised the status is that of success, and the end is
\* reached with it only behind the commit; what is raised behind the commit
\* is a 500.
StatusFits(q) ==
    /\ pc[q] \in {"hop"} \cup Statements => status[q] = Success(Kind(q))
    /\ pc[q] \in Finishing /\ status[q] = 201 => Stored(q)
    /\ pc[q] \in Finishing /\ status[q] \notin {201, 500} => ~Stored(q)

\* The account of a registration and its audit entry come together.
AccountFits(q) ==
    /\ \A e \in Emails : account[e] = q => pc[q] # "new" /\ Kind(q) = "register" /\ Stored(q)
    /\ Stored(q) /\ Kind(q) = "register" => account[Email(q)] = q

OutcomeHolds(q) ==
    /\ StoredWhere(q)
    /\ RegisterOnItsWay(q)
    /\ CreateOnItsWay(q)
    /\ StatusFits(q)
    /\ AccountFits(q)

Outcomes == \A q \in Requests : OutcomeHolds(q)
=============================================================================
