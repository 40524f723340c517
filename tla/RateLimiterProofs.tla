------------------------- MODULE RateLimiterProofs -------------------------
(***************************************************************************)
(* What rate_limit_login guarantees for every number of threads, limit,    *)
(* window and resolution of the clock, although the stamps may enter the   *)
(* deque out of order.  The argument follows the deque as the tail of the  *)
(* history of admissions: what is no longer in it has expired, and an      *)
(* admission needs room, so the one Limit places earlier has left.         *)
(***************************************************************************)
EXTENDS RateLimiterInvariant, TLAPS

LEMMA WindowTicksNat == WindowTicks \in Nat
BY WindowAssumption, SecondAssumption DEF WindowTicks

\* The announced delay is longer than the time it rounds to whole seconds.
LEMMA RetryAfterCovers ==
    ASSUME NEW x \in Nat
    PROVE  RetryAfter(x) \in Nat \ {0} /\ Second * RetryAfter(x) > x
<1>1. x \div Second \in Nat
  BY SecondAssumption
<1>2. Second * (x \div Second + 1) > x
  BY SecondAssumption
<1> QED BY <1>1, <1>2 DEF RetryAfter

LEMMA AdmittedParts ==
    ASSUME IInv, NEW a \in Addresses
    PROVE  /\ hits[a] \in Seq(Nat) /\ admitted[a] \in Seq(Admission)
           /\ Len(hits[a]) \in 0 .. Len(admitted[a]) /\ Len(admitted[a]) \in Nat
           /\ Dropped(a) \in 0 .. Len(admitted[a])
           /\ \A i \in 1 .. Len(admitted[a]) : admitted[a][i].stamp \in Nat /\ admitted[a][i].at \in Nat
           /\ \A i \in 1 .. Dropped(a) : admitted[a][i].stamp \in Nat
<1> DEFINE h == hits[a]
           l == admitted[a]
<1>1. h \in Seq(Nat) /\ l \in Seq(Admission) /\ Len(h) <= Len(l) /\ Dropped(a) = Len(l) - Len(h)
  BY DEF IInv, TypeOK, BucketIsTail, Dropped
<1> HIDE DEF h, l
<1>2. Len(h) \in 0 .. Len(l) /\ Len(l) \in Nat /\ Dropped(a) \in 0 .. Len(l)
  BY <1>1
<1>3. ASSUME NEW i \in 1 .. Len(l) PROVE l[i].stamp \in Nat /\ l[i].at \in Nat
  <2>1. l[i] \in Admission
    BY <1>1
  <2> QED BY <2>1 DEF Admission
<1>4. \A i \in 1 .. Dropped(a) : l[i].stamp \in Nat
  BY <1>2, <1>3
<1> QED BY <1>1, <1>2, <1>3, <1>4 DEF h, l

LEMMA InitInv == Init => IInv
BY LimitAssumption DEF Init, IInv, TypeOK, Mutex, Past, BucketIsTail, BucketBounded, Dropped,
   DroppedExpired, Budget, DueAfterHead, HeadFresh, HasRoom, Holds

LEMMA TickInv == IInv /\ Tick => IInv'
<1> SUFFICES ASSUME IInv, Tick PROVE IInv'
  OBVIOUS
<1>1. clock' = clock + 1 /\ UNCHANGED <<hits, pc, addr, now, admitted, due>> /\ clock \in Nat
  BY DEF Tick, IInv, TypeOK
<1>2. TypeOK' /\ Mutex' /\ HeadFresh' /\ HasRoom'
  BY <1>1 DEF IInv, TypeOK, Mutex, HeadFresh, HasRoom, Holds
<1>3. Past'
  <2>1. \A t \in Threads : now[t] <= clock /\ now[t] \in Nat
    BY DEF IInv, TypeOK, Past
  <2>2. \A a \in Addresses : \A i \in 1 .. Len(admitted[a]) :
          admitted[a][i].at <= clock /\ admitted[a][i].at \in Nat
    BY AdmittedParts DEF IInv, Past
  <2>3. \A t \in Threads : now[t] <= clock + 1
    BY <1>1, <2>1
  <2>4. \A a \in Addresses : \A i \in 1 .. Len(admitted[a]) : admitted[a][i].at <= clock + 1
    BY <1>1, <2>2
  <2> QED BY <1>1, <2>3, <2>4 DEF Past
<1>4. DroppedExpired'
  <2> SUFFICES ASSUME NEW a \in Addresses, NEW i \in 1 .. Dropped(a)
               PROVE  clock' - admitted[a][i].stamp > WindowTicks
    BY <1>1 DEF DroppedExpired, Dropped
  <2>1. clock - admitted[a][i].stamp > WindowTicks
    BY DEF IInv, DroppedExpired
  <2>2. admitted[a][i].stamp \in Nat
    BY AdmittedParts
  <2> QED BY <1>1, <2>1, <2>2, WindowTicksNat
<1>5. BucketIsTail' /\ BucketBounded' /\ Budget' /\ DueAfterHead'
  BY <1>1 DEF IInv, BucketIsTail, BucketBounded, Dropped, Budget, DueAfterHead
<1> QED BY <1>2, <1>3, <1>4, <1>5 DEF IInv

LEMMA ReadClockInv ==
    ASSUME IInv, NEW t \in Threads, NEW a \in Addresses, ReadClock(t, a)
    PROVE  IInv'
<1>1. /\ pc' = [pc EXCEPT ![t] = "waiting"]
      /\ addr' = [addr EXCEPT ![t] = a]
      /\ now' = [now EXCEPT ![t] = clock]
      /\ UNCHANGED <<clock, hits, admitted, due>>
  BY DEF ReadClock
<1>2. TypeOK'
  BY <1>1 DEF IInv, TypeOK
<1>3. Mutex' /\ HeadFresh' /\ HasRoom'
  BY <1>1 DEF IInv, TypeOK, Mutex, HeadFresh, HasRoom, Holds
<1>4. Past'
  BY <1>1 DEF IInv, TypeOK, Past
<1>5. BucketIsTail' /\ BucketBounded' /\ DroppedExpired' /\ Budget' /\ DueAfterHead'
  BY <1>1 DEF IInv, BucketIsTail, BucketBounded, Dropped, DroppedExpired, Budget, DueAfterHead
<1> QED BY <1>2, <1>3, <1>4, <1>5 DEF IInv

LEMMA PruneInv ==
    ASSUME IInv, NEW t \in Threads, Prune(t)
    PROVE  IInv'
<1> DEFINE a == addr[t]
           bucket == hits[a]
           past == admitted[a]
           gone == Len(past) - Len(bucket)
<1>1. /\ a \in Addresses /\ now[t] \in Nat /\ clock \in Nat /\ now[t] <= clock
      /\ bucket \in Seq(Nat) /\ past \in Seq(Admission)
      /\ Len(bucket) <= Len(past) /\ Len(bucket) <= Limit
      /\ \A i \in 1 .. Len(bucket) : bucket[i] = past[gone + i].stamp
      /\ \A i \in 1 .. gone : clock - past[i].stamp > WindowTicks
  BY DEF IInv, TypeOK, Past, BucketIsTail, BucketBounded, DroppedExpired, Dropped
<1>2. PICK k \in 0 .. Len(bucket) :
        /\ \A i \in 1 .. k : Expired(bucket[i], now[t])
        /\ k < Len(bucket) => ~Expired(bucket[k + 1], now[t])
        /\ hits' = [hits EXCEPT ![a] = SubSeq(bucket, k + 1, Len(bucket))]
  BY DEF Prune
<1> DEFINE rest == SubSeq(bucket, k + 1, Len(bucket))
<1>3. /\ hits' = [hits EXCEPT ![a] = rest]
      /\ pc' = [pc EXCEPT ![t] = "locked"]
      /\ UNCHANGED <<clock, addr, now, admitted, due>>
      /\ \A u \in Threads : ~Holds(u)
  BY <1>2 DEF Prune, Free
<1>4. hits'[a] = rest /\ \A b \in Addresses : b # a => hits'[b] = hits[b]
  BY <1>1, <1>3 DEF IInv, TypeOK
<1>5. bucket = hits[a] /\ past = admitted[a] /\ past = admitted'[a]
  BY <1>3
<1> HIDE DEF bucket, past
<1>6. Len(bucket) \in Nat /\ Len(past) \in Nat /\ k \in Nat /\ k <= Len(bucket)
  BY <1>1, <1>2
<1>7. /\ rest \in Seq(Nat) /\ Len(rest) = Len(bucket) - k
      /\ \A i \in 1 .. Len(rest) : rest[i] = bucket[k + i]
      /\ k = 0 => rest = bucket
  <2>1. rest \in Seq(Nat)
    BY <1>1, <1>6
  <2>2. Len(rest) = Len(bucket) - k
    BY <1>1, <1>6
  <2>3. ASSUME NEW i \in 1 .. Len(rest) PROVE rest[i] = bucket[k + i]
    <3>1. rest[i] = bucket[i + (k + 1) - 1]
      BY <1>1, <1>6, <2>2
    <3>2. i + (k + 1) - 1 = k + i
      BY <1>6
    <3> QED BY <3>1, <3>2
  <2>4. k = 0 => rest = bucket
    BY <1>1, <1>6
  <2> QED BY <2>1, <2>2, <2>3, <2>4
<1> HIDE DEF rest
<1>8. TypeOK' /\ Mutex' /\ Past' /\ Budget' /\ HasRoom'
  BY <1>1, <1>3, <1>7 DEF IInv, TypeOK, Mutex, Past, Budget, HasRoom, Holds
<1>9. BucketIsTail' /\ BucketBounded'
  <2>1. /\ Len(rest) <= Len(past) /\ Len(rest) <= Limit
        /\ \A i \in 1 .. Len(rest) : rest[i] = past[Len(past) - Len(rest) + i].stamp
    <3>1. Len(rest) <= Len(past) /\ Len(rest) <= Limit
      BY <1>1, <1>6, <1>7, LimitAssumption
    <3>2. ASSUME NEW i \in 1 .. Len(rest)
          PROVE  rest[i] = past[Len(past) - Len(rest) + i].stamp
      <4>1. k + i \in 1 .. Len(bucket) /\ rest[i] = bucket[k + i]
        BY <1>6, <1>7
      <4>2. gone + (k + i) = Len(past) - Len(rest) + i
        BY <1>6, <1>7
      <4> QED BY <1>1, <4>1, <4>2
    <3> QED BY <3>1, <3>2
  <2>2. ASSUME NEW b \in Addresses
        PROVE  /\ Len(hits'[b]) <= Limit /\ Len(hits'[b]) <= Len(admitted'[b])
               /\ \A i \in 1 .. Len(hits'[b]) :
                     hits'[b][i] = admitted'[b][Len(admitted'[b]) - Len(hits'[b]) + i].stamp
    <3>1. CASE b = a
      BY <1>4, <1>5, <2>1, <3>1
    <3>2. CASE b # a
      <4>1. /\ Len(hits[b]) <= Limit /\ Len(hits[b]) <= Len(admitted[b])
            /\ \A i \in 1 .. Len(hits[b]) :
                  hits[b][i] = admitted[b][Len(admitted[b]) - Len(hits[b]) + i].stamp
        BY DEF IInv, BucketIsTail, BucketBounded, Dropped
      <4>2. hits'[b] = hits[b] /\ admitted'[b] = admitted[b]
        BY <1>3, <1>4, <3>2
      <4> QED BY <4>1, <4>2
    <3> QED BY <3>1, <3>2
  <2> QED BY <2>2 DEF BucketIsTail, BucketBounded, Dropped
<1>10. DroppedExpired'
  <2>1. ASSUME NEW i \in 1 .. Len(past) - Len(rest)
        PROVE  clock - past[i].stamp > WindowTicks
    <3>1. CASE i <= gone
      BY <1>1, <1>6, <3>1
    <3>2. CASE i > gone
      <4> DEFINE j == i - gone
      <4>1. j \in 1 .. k /\ j \in 1 .. Len(bucket) /\ gone + j = i
        BY <1>1, <1>6, <1>7, <3>2
      <4>2. bucket[j] \in Nat
        <5>1. bucket \in Seq(Nat) /\ j \in 1 .. Len(bucket)
          BY <1>1, <4>1
        <5> HIDE DEF j
        <5> QED BY <5>1
      <4>4. bucket[j] = past[i].stamp
        BY <1>1, <4>1
      <4>3. now[t] - bucket[j] > WindowTicks
        BY <1>2, <4>1 DEF Expired
      <4>5. clock - bucket[j] > WindowTicks
        <5> DEFINE stamp == bucket[j]
        <5>1. stamp \in Nat /\ now[t] - stamp > WindowTicks
          BY <4>2, <4>3
        <5> HIDE DEF stamp
        <5>2. clock - stamp > WindowTicks
          BY <1>1, <5>1, WindowTicksNat
        <5> QED BY <5>2 DEF stamp
      <4> QED BY <4>4, <4>5
    <3> QED BY <1>6, <3>1, <3>2
  <2> QED BY <1>3, <1>4, <1>5, <2>1 DEF IInv, DroppedExpired, Dropped
<1>11. DueAfterHead'
  <2>1. Len(rest) >= Limit => rest = bucket
    BY <1>1, <1>6, <1>7, LimitAssumption
  <2> QED BY <1>3, <1>4, <1>5, <2>1 DEF IInv, DueAfterHead
<1>12. HeadFresh'
  <2>1. ASSUME rest # << >> PROVE ~(now[t] - Head(rest) > WindowTicks)
    <3>1. Len(rest) > 0 /\ Head(rest) = rest[1]
      BY <1>7, <2>1
    <3>2. rest[1] = bucket[k + 1] /\ k < Len(bucket)
      BY <1>6, <1>7, <3>1
    <3> QED BY <1>2, <3>1, <3>2 DEF Expired
  <2> QED BY <1>3, <1>4, <2>1 DEF HeadFresh, IInv, TypeOK, Holds
<1> QED BY <1>8, <1>9, <1>10, <1>11, <1>12 DEF IInv

LEMMA PassInv ==
    ASSUME IInv, NEW t \in Threads, Pass(t)
    PROVE  IInv'
<1>1. /\ pc[t] = "locked" /\ Len(hits[addr[t]]) < Limit
      /\ pc' = [pc EXCEPT ![t] = "passed"]
      /\ UNCHANGED <<clock, hits, addr, now, admitted, due>>
  BY DEF Pass
<1>2. TypeOK' /\ Mutex' /\ HeadFresh' /\ HasRoom'
  BY <1>1 DEF IInv, TypeOK, Mutex, HeadFresh, HasRoom, Holds
<1>3. Past' /\ BucketIsTail' /\ BucketBounded' /\ DroppedExpired' /\ Budget' /\ DueAfterHead'
  BY <1>1 DEF IInv, Past, BucketIsTail, BucketBounded, Dropped, DroppedExpired, Budget, DueAfterHead
<1> QED BY <1>2, <1>3 DEF IInv

LEMMA AdmitInv ==
    ASSUME IInv, NEW t \in Threads, Admit(t)
    PROVE  IInv'
<1> DEFINE a == addr[t]
           bucket == hits[a]
           past == admitted[a]
           gone == Len(past) - Len(bucket)
           stamp == now[t]
           entry == [stamp |-> stamp, at |-> clock]
<1>1. /\ a \in Addresses /\ stamp \in Nat /\ clock \in Nat /\ stamp <= clock
      /\ bucket \in Seq(Nat) /\ past \in Seq(Admission)
      /\ Len(bucket) <= Len(past)
      /\ \A i \in 1 .. Len(bucket) : bucket[i] = past[gone + i].stamp
      /\ \A i \in 1 .. gone : clock - past[i].stamp > WindowTicks
      /\ \A i \in 1 .. Len(past) : past[i].at <= clock
      /\ \A i \in 1 .. Len(past) :
            i + Limit <= Len(past) => past[i + Limit].at - past[i].stamp > WindowTicks
  BY DEF IInv, TypeOK, Past, BucketIsTail, DroppedExpired, Dropped, Budget
<1>2. /\ Len(bucket) < Limit /\ pc[t] = "passed"
      /\ pc' = [pc EXCEPT ![t] = "idle"]
      /\ hits' = [hits EXCEPT ![a] = Append(bucket, stamp)]
      /\ admitted' = [admitted EXCEPT ![a] = Append(past, entry)]
      /\ due' = [due EXCEPT ![a] = 0]
      /\ now' = [now EXCEPT ![t] = 0]
      /\ UNCHANGED <<clock, addr>>
  BY DEF Admit, IInv, HasRoom
<1>3. /\ hits'[a] = Append(bucket, stamp) /\ admitted'[a] = Append(past, entry)
      /\ \A b \in Addresses : b # a => hits'[b] = hits[b] /\ admitted'[b] = admitted[b]
  BY <1>1, <1>2 DEF IInv, TypeOK
<1>4. entry \in Admission /\ entry.stamp = stamp /\ entry.at = clock
  BY <1>1 DEF Admission
<1>5. bucket = hits[a] /\ past = admitted[a]
  OBVIOUS
<1> HIDE DEF bucket, past, entry
<1> DEFINE fuller == Append(bucket, stamp)
           longer == Append(past, entry)
<1>6. Len(bucket) \in Nat /\ Len(past) \in Nat
  BY <1>1
<1>7. /\ fuller \in Seq(Nat) /\ Len(fuller) = Len(bucket) + 1
      /\ \A i \in 1 .. Len(bucket) : fuller[i] = bucket[i]
      /\ fuller[Len(bucket) + 1] = stamp
  BY <1>1, <1>6
<1>8. /\ longer \in Seq(Admission) /\ Len(longer) = Len(past) + 1
      /\ \A i \in 1 .. Len(past) : longer[i] = past[i]
      /\ longer[Len(past) + 1] = entry
  BY <1>1, <1>4, <1>6
<1>9. hits'[a] = fuller /\ admitted'[a] = longer
  BY <1>3
<1> HIDE DEF fuller, longer
<1>10. TypeOK'
  BY <1>1, <1>2, <1>3, <1>7, <1>8, <1>9 DEF IInv, TypeOK
<1>11. Mutex' /\ HeadFresh' /\ HasRoom' /\ DueAfterHead'
  <2>1. \A u \in Threads : pc'[u] \notin {"locked", "passed"}
    BY <1>2 DEF IInv, TypeOK, Mutex, Holds
  <2>2. \A b \in Addresses : due'[b] # 0 => b # a /\ due'[b] = due[b]
    BY <1>1, <1>2 DEF IInv, TypeOK
  <2> QED BY <1>3, <2>1, <2>2 DEF Mutex, HeadFresh, HasRoom, Holds, DueAfterHead, IInv
<1>12. Past'
  <2>1. \A u \in Threads : now'[u] <= clock
    BY <1>1, <1>2 DEF IInv, TypeOK, Past
  <2>2. ASSUME NEW i \in 1 .. Len(longer) PROVE longer[i].at <= clock
    <3>1. CASE i \in 1 .. Len(past)
      BY <1>1, <1>8, <3>1
    <3>2. CASE i = Len(past) + 1
      BY <1>1, <1>4, <1>8, <3>2
    <3> QED BY <1>6, <1>8, <3>1, <3>2
  <2> QED BY <1>2, <1>3, <1>9, <2>1, <2>2 DEF IInv, Past
<1>13. BucketIsTail' /\ BucketBounded'
  <2>1. Len(fuller) <= Len(longer) /\ Len(fuller) <= Limit
    BY <1>1, <1>2, <1>6, <1>7, <1>8, LimitAssumption
  <2>2. ASSUME NEW i \in 1 .. Len(fuller)
        PROVE  fuller[i] = longer[Len(longer) - Len(fuller) + i].stamp
    <3>1. Len(longer) - Len(fuller) + i = gone + i
      BY <1>6, <1>7, <1>8
    <3>2. CASE i \in 1 .. Len(bucket)
      <4>1. gone + i \in 1 .. Len(past)
        BY <1>1, <1>6, <3>2
      <4> QED BY <1>1, <1>7, <1>8, <3>1, <3>2, <4>1
    <3>3. CASE i = Len(bucket) + 1
      <4>1. gone + i = Len(past) + 1
        BY <1>6, <3>3
      <4> QED BY <1>4, <1>7, <1>8, <3>1, <3>3, <4>1
    <3> QED BY <1>6, <1>7, <3>2, <3>3
  <2>3. ASSUME NEW b \in Addresses
        PROVE  /\ Len(hits'[b]) <= Limit /\ Len(hits'[b]) <= Len(admitted'[b])
               /\ \A i \in 1 .. Len(hits'[b]) :
                     hits'[b][i] = admitted'[b][Len(admitted'[b]) - Len(hits'[b]) + i].stamp
    <3>1. CASE b = a
      BY <1>9, <2>1, <2>2, <3>1
    <3>2. CASE b # a
      <4>1. /\ Len(hits[b]) <= Limit /\ Len(hits[b]) <= Len(admitted[b])
            /\ \A i \in 1 .. Len(hits[b]) :
                  hits[b][i] = admitted[b][Len(admitted[b]) - Len(hits[b]) + i].stamp
        BY DEF IInv, BucketIsTail, BucketBounded, Dropped
      <4>2. hits'[b] = hits[b] /\ admitted'[b] = admitted[b]
        BY <1>3, <3>2
      <4> QED BY <4>1, <4>2
    <3> QED BY <3>1, <3>2
  <2> QED BY <2>3 DEF BucketIsTail, BucketBounded, Dropped
<1>14. DroppedExpired'
  <2>1. ASSUME NEW i \in 1 .. Len(longer) - Len(fuller)
        PROVE  clock - longer[i].stamp > WindowTicks
    <3>1. i \in 1 .. gone /\ i \in 1 .. Len(past)
      BY <1>1, <1>6, <1>7, <1>8
    <3> QED BY <1>1, <1>8, <3>1
  <2> QED BY <1>2, <1>3, <1>9, <2>1 DEF IInv, DroppedExpired, Dropped
<1>15. Budget'
  <2>1. ASSUME NEW i \in 1 .. Len(longer), i + Limit <= Len(longer)
        PROVE  longer[i + Limit].at - longer[i].stamp > WindowTicks
    <3>1. CASE i + Limit <= Len(past)
      <4>1. i \in 1 .. Len(past) /\ i + Limit \in 1 .. Len(past)
        BY <1>6, <1>8, <3>1, LimitAssumption
      <4> QED BY <1>1, <1>8, <3>1, <4>1
    <3>2. CASE i + Limit = Len(past) + 1
      <4>1. i \in 1 .. gone /\ i \in 1 .. Len(past)
        BY <1>1, <1>2, <1>6, <1>8, <3>2, LimitAssumption
      <4> QED BY <1>1, <1>4, <1>8, <3>2, <4>1
    <3> QED BY <1>6, <1>8, <2>1, <3>1, <3>2, LimitAssumption
  <2> QED BY <1>3, <1>9, <2>1 DEF IInv, Budget
<1> QED BY <1>10, <1>11, <1>12, <1>13, <1>14, <1>15 DEF IInv

LEMMA RefuseInv ==
    ASSUME IInv, NEW t \in Threads, Refuse(t)
    PROVE  IInv'
<1> DEFINE a == addr[t]
           bucket == hits[a]
           left == WindowTicks - (now[t] - Head(bucket))
           promised == now[t] + Second * RetryAfter(left)
<1>1. /\ a \in Addresses /\ now[t] \in Nat /\ due[a] \in Nat
      /\ bucket \in Seq(Nat) /\ Len(bucket) >= Limit
  BY DEF Refuse, IInv, TypeOK
<1>2. /\ pc[t] = "locked"
      /\ pc' = [pc EXCEPT ![t] = "idle"]
      /\ due' = [due EXCEPT ![a] = IF due[a] = 0 \/ promised < due[a] THEN promised ELSE due[a]]
      /\ now' = [now EXCEPT ![t] = 0]
      /\ UNCHANGED <<clock, hits, addr, admitted>>
  BY DEF Refuse
<1>3. bucket # << >> /\ Head(bucket) \in Nat
  <2>1. Len(bucket) > 0
    BY <1>1, LimitAssumption
  <2> QED BY <1>1, <2>1
<1>4. ~(now[t] - Head(bucket) > WindowTicks)
  BY <1>2, <1>3 DEF IInv, HeadFresh
<1>5. left \in Nat
  BY <1>1, <1>3, <1>4, WindowTicksNat
<1>6. promised \in Nat /\ promised - Head(bucket) > WindowTicks
  <2> DEFINE delay == Second * RetryAfter(left)
  <2>1. delay \in Nat /\ delay > left
    BY <1>5, RetryAfterCovers, SecondAssumption
  <2>2. promised = now[t] + delay
    OBVIOUS
  <2> DEFINE head == Head(bucket)
  <2>3. now[t] \in Nat /\ head \in Nat /\ delay > WindowTicks - (now[t] - head)
    BY <1>1, <1>3, <2>1
  <2> HIDE DEF delay, promised, head
  <2>4. promised \in Nat /\ promised - head > WindowTicks
    BY <2>1, <2>2, <2>3, WindowTicksNat
  <2> QED BY <2>4 DEF head
<1> HIDE DEF promised
<1>7. TypeOK'
  BY <1>1, <1>2, <1>6 DEF IInv, TypeOK
<1>8. Mutex' /\ HeadFresh' /\ HasRoom'
  <2>1. \A u \in Threads : pc'[u] \notin {"locked", "passed"}
    BY <1>2 DEF IInv, TypeOK, Mutex, Holds
  <2> QED BY <2>1 DEF Mutex, HeadFresh, HasRoom, Holds
<1>9. Past'
  BY <1>1, <1>2 DEF IInv, TypeOK, Past
<1>10. DueAfterHead'
  <2>1. due[a] # 0 => due[a] - Head(bucket) > WindowTicks
    BY <1>1 DEF IInv, DueAfterHead
  <2>2. due'[a] - Head(bucket) > WindowTicks
    BY <1>1, <1>2, <1>6, <2>1 DEF IInv, TypeOK
  <2>3. \A b \in Addresses : b # a => due'[b] = due[b]
    BY <1>2 DEF IInv, TypeOK
  <2> QED BY <1>2, <2>2, <2>3 DEF IInv, DueAfterHead
<1>11. BucketIsTail' /\ BucketBounded' /\ DroppedExpired' /\ Budget'
  BY <1>2 DEF IInv, BucketIsTail, BucketBounded, DroppedExpired, Budget, Dropped
<1> QED BY <1>7, <1>8, <1>9, <1>10, <1>11 DEF IInv

-----------------------------------------------------------------------------
(* The theorems.                                                           *)

\* The inductive invariant holds of every run of rate_limit_login.
THEOREM RateInvariance == Spec => []IInv
<1>1. IInv /\ [Next]_vars => IInv'
  <2> SUFFICES ASSUME IInv, [Next]_vars PROVE IInv'
    OBVIOUS
  <2>1. CASE Next
    BY <2>1, TickInv, ReadClockInv, PruneInv, PassInv, AdmitInv, RefuseInv DEF Next
  <2>2. CASE UNCHANGED vars
    BY <2>2 DEF vars, IInv, TypeOK, Mutex, Past, BucketIsTail, BucketBounded, Dropped,
       DroppedExpired, Budget, DueAfterHead, HeadFresh, HasRoom, Holds
  <2> QED BY <2>1, <2>2
<1> QED BY InitInv, <1>1, PTL DEF Spec

\* The deque of an address never holds more than login_rate_limit stamps.
THEOREM BucketBoundedAlways == Spec => []BucketBounded
<1>1. IInv => BucketBounded
  BY DEF IInv
<1> QED BY RateInvariance, <1>1, PTL

\* An attempt is admitted only when a window has passed since the stamp of the
\* one admitted login_rate_limit admissions earlier.
THEOREM BudgetAlways == Spec => []Budget
<1>1. IInv => Budget
  BY DEF IInv
<1> QED BY RateInvariance, <1>1, PTL

\* Whoever waits as long as Retry-After says is not refused, unless another
\* attempt was admitted in between.
THEOREM RetryAfterAlwaysKept == Spec => []RetryAfterKept
<1>1. IInv => RetryAfterKept
  <2> SUFFICES ASSUME IInv, NEW t \in Threads, pc[t] = "locked", due[addr[t]] # 0,
                      now[t] >= due[addr[t]], ~(Len(hits[addr[t]]) < Limit)
               PROVE  FALSE
    BY DEF RetryAfterKept
  <2> DEFINE bucket == hits[addr[t]]
             promised == due[addr[t]]
  <2>1. bucket \in Seq(Nat) /\ promised \in Nat /\ now[t] \in Nat /\ addr[t] \in Addresses
    BY DEF IInv, TypeOK
  <2>2. Len(bucket) \in Nat /\ Len(bucket) >= Limit
    BY <2>1, LimitAssumption
  <2>3. bucket # << >> /\ Head(bucket) \in Nat
    BY <2>1, <2>2, LimitAssumption
  <2>4. promised - Head(bucket) > WindowTicks
    BY <2>1, <2>2 DEF IInv, DueAfterHead
  <2>5. ~(now[t] - Head(bucket) > WindowTicks)
    BY <2>3 DEF IInv, HeadFresh
  <2> QED BY <2>1, <2>3, <2>4, <2>5, WindowTicksNat
<1> QED BY RateInvariance, <1>1, PTL
=============================================================================
