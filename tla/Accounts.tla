------------------------------ MODULE Accounts ------------------------------
(***************************************************************************)
(* What registration promises (app/services/users.py): an address gets at  *)
(* most one account, and the account appears together with its one entry   *)
(* in the audit trail.  How requests are served does not appear; Serving   *)
(* has that and implements this specification.                             *)
(***************************************************************************)
CONSTANTS Emails,      \* addresses
          Registered,  \* those that have an account from before
          Requests,    \* HTTP requests
          Null, Earlier

VARIABLES account,  \* users: the request that created an address's account
          entries   \* audit_log: the rows "user.registered"

vars == <<account, entries>>

Init ==
    /\ account = [e \in Emails |-> IF e \in Registered THEN Earlier ELSE Null]
    /\ entries = {}

Register(q, e) ==
    /\ account[e] = Null
    /\ account' = [account EXCEPT ![e] = q]
    /\ entries' = entries \cup {<<q, e>>}

Next == \E q \in Requests, e \in Emails : Register(q, e)

Spec == Init /\ [][Next]_vars
=============================================================================
