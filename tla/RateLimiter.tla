---------------------------- MODULE RateLimiter ----------------------------
(***************************************************************************)
(* The login rate limiter of app/ratelimit.py: a deque of time stamps per  *)
(* client address, shared by the threads that run rate_limit_login, behind *)
(* one lock.  The time is read before the lock is asked for.               *)
(*                                                                         *)
(* Time is counted in ticks, Second of them to the second, so that the     *)
(* rounding of Retry-After to whole seconds is visible.  MaxClock bounds   *)
(* the runs that TLC explores.                                             *)
(***************************************************************************)
EXTENDS Integers, Sequences

CONSTANTS Threads,    \* threads of the server's pool
          Addresses,  \* client addresses
          Limit,      \* settings.login_rate_limit
          Window,     \* settings.login_rate_window_seconds
          Second,     \* ticks in a second
          MaxClock    \* the last tick

ASSUME LimitAssumption == Limit \in Nat \ {0}
ASSUME WindowAssumption == Window \in Nat \ {0}
ASSUME SecondAssumption == Second \in Nat \ {0}
ASSUME MaxClockAssumption == MaxClock \in Nat

WindowTicks == Window * Second

VARIABLES clock,  \* time.monotonic()
          hits,   \* _hits: the deque of each address
          pc,     \* where each thread is in rate_limit_login
          addr,   \* key
          now,    \* the time a thread has read; 0 outside a call
          \* History, for the properties:
          admitted,    \* the admitted attempts: their stamps and when they were admitted
          due     \* the earliest time announced by Retry-After since the last
                  \* admission, 0 if none was

vars == <<clock, hits, pc, addr, now, admitted, due>>

Admission == [stamp : Nat, at : Nat]

TypeOK ==
    /\ clock \in Nat
    /\ hits \in [Addresses -> Seq(Nat)]
    /\ pc \in [Threads -> {"idle", "waiting", "locked", "passed"}]
    /\ addr \in [Threads -> Addresses]
    /\ now \in [Threads -> Nat]
    /\ admitted \in [Addresses -> Seq(Admission)]
    /\ due \in [Addresses -> Nat]

Init ==
    /\ clock = 0
    /\ hits = [a \in Addresses |-> << >>]
    /\ pc = [t \in Threads |-> "idle"]
    /\ addr \in [Threads -> Addresses]
    /\ now = [t \in Threads |-> 0]
    /\ admitted = [a \in Addresses |-> << >>]
    /\ due = [a \in Addresses |-> 0]

Tick ==
    /\ clock < MaxClock
    /\ clock' = clock + 1
    /\ UNCHANGED <<hits, pc, addr, now, admitted, due>>

\* A login arrives: its address and the time are read.
ReadClock(t, a) ==
    /\ pc[t] = "idle"
    /\ pc' = [pc EXCEPT ![t] = "waiting"]
    /\ addr' = [addr EXCEPT ![t] = a]
    /\ now' = [now EXCEPT ![t] = clock]
    /\ UNCHANGED <<clock, hits, admitted, due>>

Holds(t) == pc[t] \in {"locked", "passed"}

\* Variant of Free: no lock is taken.
NoLock == TRUE

\* The lock is held from Prune to Admit or Refuse.
Free == \A t \in Threads : ~Holds(t)

\* Variant of Expired: a stamp is dropped a moment too early.
ExpiredAtOnce(stamp, time) == time - stamp >= WindowTicks

Expired(stamp, time) == time - stamp > WindowTicks

\* The lock is granted and the loop drops expired stamps from the head, up to
\* the first that has not expired.
Prune(t) ==
    /\ pc[t] = "waiting"
    /\ Free
    /\ pc' = [pc EXCEPT ![t] = "locked"]
    /\ LET bucket == hits[addr[t]] IN
       \E k \in 0 .. Len(bucket) :
          /\ \A i \in 1 .. k : Expired(bucket[i], now[t])
          /\ k < Len(bucket) => ~Expired(bucket[k + 1], now[t])
          /\ hits' = [hits EXCEPT ![addr[t]] = SubSeq(bucket, k + 1, Len(bucket))]
    /\ UNCHANGED <<clock, addr, now, admitted, due>>

\* The check against the budget, apart from the append that rests on it.
Pass(t) ==
    /\ pc[t] = "locked"
    /\ Len(hits[addr[t]]) < Limit
    /\ pc' = [pc EXCEPT ![t] = "passed"]
    /\ UNCHANGED <<clock, hits, addr, now, admitted, due>>

Admit(t) ==
    /\ pc[t] = "passed"
    /\ pc' = [pc EXCEPT ![t] = "idle"]
    /\ hits' = [hits EXCEPT ![addr[t]] = Append(@, now[t])]
    /\ admitted' = [admitted EXCEPT ![addr[t]] = Append(@, [stamp |-> now[t], at |-> clock])]
    /\ due' = [due EXCEPT ![addr[t]] = 0]
    /\ now' = [now EXCEPT ![t] = 0]
    /\ UNCHANGED <<clock, addr>>

\* Variant of RetryAfter: the fraction of a second is cut off.
RetryAfterCut(ticks) == ticks \div Second

\* int(...) + 1, in seconds.
RetryAfter(ticks) == ticks \div Second + 1

\* The 429 with its Retry-After; leaving the with block gives the lock up.
Refuse(t) ==
    LET a == addr[t]
        promised == now[t] + Second * RetryAfter(WindowTicks - (now[t] - Head(hits[a]))) IN
    /\ pc[t] = "locked"
    /\ Len(hits[a]) >= Limit
    /\ pc' = [pc EXCEPT ![t] = "idle"]
    /\ due' = [due EXCEPT ![a] = IF @ = 0 \/ promised < @ THEN promised ELSE @]
    /\ now' = [now EXCEPT ![t] = 0]
    /\ UNCHANGED <<clock, hits, addr, admitted>>

Next ==
    \/ Tick
    \/ \E t \in Threads :
          \/ \E a \in Addresses : ReadClock(t, a)
          \/ Prune(t)
          \/ Pass(t)
          \/ Admit(t)
          \/ Refuse(t)

Spec == Init /\ [][Next]_vars

-----------------------------------------------------------------------------
(* Properties.                                                             *)

\* The deque of an address holds at most login_rate_limit stamps, though many
\* threads compare its length and append to it.
BucketBounded == \A a \in Addresses : Len(hits[a]) <= Limit

\* The budget that rate_limit_login enforces whatever the interleaving: an
\* attempt is admitted only when more than a window has passed since the stamp
\* of the attempt admitted login_rate_limit admissions earlier.
Budget ==
    \A a \in Addresses : \A i \in 1 .. Len(admitted[a]) :
        i + Limit <= Len(admitted[a]) => admitted[a][i + Limit].at - admitted[a][i].stamp > WindowTicks

\* Retry-After keeps its word: an attempt made when the announced delay is over
\* is not refused, unless another one was admitted in between.
RetryAfterKept ==
    \A t \in Threads :
        /\ pc[t] = "locked"
        /\ due[addr[t]] # 0
        /\ now[t] >= due[addr[t]]
        => Len(hits[addr[t]]) < Limit
=============================================================================
