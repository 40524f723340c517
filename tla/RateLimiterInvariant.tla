------------------------ MODULE RateLimiterInvariant ------------------------
(* The inductive invariant of RateLimiter. *)
EXTENDS RateLimiter

\* How many admissions of a have left its deque.
Dropped(a) == Len(admitted[a]) - Len(hits[a])

\* Only one thread holds the lock.
Mutex ==
    \A t, u \in Threads : Holds(t) /\ Holds(u) => t = u

\* The check still holds when its thread comes to append.
HasRoom == \A t \in Threads : pc[t] = "passed" => Len(hits[addr[t]]) < Limit

\* No time is read, and no attempt stamped, in the future.
Past ==
    /\ \A t \in Threads : now[t] <= clock
    /\ \A a \in Addresses : \A i \in 1 .. Len(admitted[a]) : admitted[a][i].at <= clock

\* The deque holds the stamps of the last admissions, in their order.
BucketIsTail ==
    \A a \in Addresses :
        /\ Len(hits[a]) <= Len(admitted[a])
        /\ \A i \in 1 .. Len(hits[a]) : hits[a][i] = admitted[a][Dropped(a) + i].stamp

\* What has left the deque had expired.
DroppedExpired ==
    \A a \in Addresses : \A i \in 1 .. Dropped(a) :
        clock - admitted[a][i].stamp > WindowTicks

\* While the deque is full, its head expires before the announced time.
DueAfterHead ==
    \A a \in Addresses :
        due[a] # 0 /\ Len(hits[a]) >= Limit => due[a] - Head(hits[a]) > WindowTicks

\* The thread that holds the lock has dropped what it found expired.
HeadFresh ==
    \A t \in Threads :
        pc[t] = "locked" /\ hits[addr[t]] # << >> =>
            ~(now[t] - Head(hits[addr[t]]) > WindowTicks)

IInv ==
    /\ TypeOK
    /\ Mutex
    /\ Past
    /\ BucketIsTail
    /\ BucketBounded
    /\ DroppedExpired
    /\ Budget
    /\ DueAfterHead
    /\ HeadFresh
    /\ HasRoom
=============================================================================
