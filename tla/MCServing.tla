----------------------------- MODULE MCServing -----------------------------
(* Instances of Serving for TLC. *)
EXTENDS ServingInvariant, TLC

CONSTANTS q1, q2, q3, q4, e1, e2, h1

Plain(kind, email, body) == [kind |-> kind, email |-> email, body |-> body, header |-> Null]

\* Two registrations of e1 race while others come and go.  With two threads and
\* two connections there can be two holders of a connection that wait for a
\* thread and two holders of a thread that wait for a connection.
Racing == {Plain("register", e1, "valid")}
Passing == {Plain("me", e2, "valid")}
Various == {Plain("ready", Null, "valid"), Plain("health", Null, "valid"),
        [Plain("login", e2, "valid") EXCEPT !.header = h1], Plain("login", e2, "wrong"),
        Plain("create", e1, "valid"), Plain("create", Null, "valid"),
        Plain("create", e2, "valid"), Plain("register", e1, "invalid")}
Mixed == (q1 :> Racing) @@ (q2 :> Racing) @@ (q3 :> Various) @@ (q4 :> Passing)
=============================================================================
