------------------------ MODULE NegotiationTxnLocks ------------------------
(***************************************************************************)
(* Which deadlocks the transactions can get into.  LocksFit, which says    *)
(* that a transaction holds no lock beyond those its statements have taken *)
(* for its own call, is proved to be invariant on top of IInv; with both,  *)
(* a cycle of waits is made of accepts on one request only.                *)
(***************************************************************************)
EXTENDS NegotiationTxnProofs

HoldsOnly(w) == RequestLocks(w) /\ NegotiationLocks(w) /\ KeyLocks(w)

\* No lock is held before the first statement that takes one, nor between calls.
LEMMA HoldsNothing ==
    ASSUME NEW w \in Workers, HoldsOnly(w),
           pc[w] \notin {"insert", "close", "supersede", "save", "commit"}
    PROVE  /\ \A r \in Requests : reqLock[r] # w
           /\ \A n \in Negs : negLock[n] # w
           /\ \A k \in Keys : keyLock[k] # w
BY DEF HoldsOnly, RequestLocks, NegotiationLocks, KeyLocks

LEMMA OthersHold ==
    ASSUME NEW w \in Workers, NEW v \in Workers \ {w}, OthersKeep(w), HoldsOnly(v)
    PROVE  HoldsOnly(v)'
BY DEF OthersKeep, HoldsOnly, RequestLocks, NegotiationLocks, KeyLocks

LEMMA EndHolds ==
    ASSUME TypeOK, NEW w \in Workers, NEW o \in Outcome, End(w, o)
    PROVE  HoldsOnly(w)'
<1>1. /\ \A r \in Requests : reqLock'[r] # w
      /\ \A n \in Negs : negLock'[n] # w
      /\ \A k \in Keys : keyLock'[k] # w
  BY NullAssumption DEF TypeOK, End, Released
<1> QED BY <1>1 DEF HoldsOnly, RequestLocks, NegotiationLocks, KeyLocks

\* The steps that begin a call or only look a key up: nothing is held before.
LEMMA StartHolds ==
    ASSUME IInv, NEW w \in Workers, HoldsOnly(w),
           (\E c \in Calls : Receive(w, c)) \/ LookupMiss(w)
    PROVE  HoldsOnly(w)'
<1>1. pc[w] \notin {"insert", "close", "supersede", "save", "commit"}
  BY DEF IInv, WorkerInv, CallFits, InTransaction, Receive, LookupMiss
<1>2. UNCHANGED locks
  BY DEF Receive, LookupMiss
<1> QED BY <1>1, <1>2, HoldsNothing DEF HoldsOnly, RequestLocks, NegotiationLocks, KeyLocks, locks

LEMMA CreateHoldsOnly ==
    ASSUME IInv, NEW w \in Workers, HoldsOnly(w), NEW r \in Requests, CreateRequest(w, r)
    PROVE  HoldsOnly(w)'
<1>1. /\ pc'[w] = SaveOrCommit(w) /\ call'[w] = call[w] /\ call[w].kind = "create"
      /\ negLock' = negLock /\ keyLock' = keyLock
  BY DEF IInv, TypeOK, WorkerInv, CallFits, CreateRequest, Go
<1>2. /\ \A n \in Negs : negLock[n] # w
      /\ \A k \in Keys : keyLock[k] # w
  BY HoldsNothing DEF CreateRequest
<1>3. RequestLocks(w)'
  BY <1>1 DEF RequestLocks, SaveOrCommit
<1> QED BY <1>1, <1>2, <1>3 DEF HoldsOnly, NegotiationLocks, KeyLocks

LEMMA OfferHoldsOnly ==
    ASSUME IInv, NEW w \in Workers, HoldsOnly(w), OfferOnRequest(w)
    PROVE  HoldsOnly(w)'
<1>1. /\ pc'[w] = "insert" /\ call'[w] = call[w] /\ call[w].kind = "offer"
      /\ reqLock' = [reqLock EXCEPT ![RequestOf(call[w].neg)] = w]
      /\ negLock' = negLock /\ keyLock' = keyLock
  BY DEF IInv, TypeOK, WorkerInv, CallFits, OfferOnRequest, ForUpdateRequest, Go
<1>2. /\ \A r \in Requests : reqLock[r] # w
      /\ \A n \in Negs : negLock[n] # w
      /\ \A k \in Keys : keyLock[k] # w
  BY HoldsNothing DEF OfferOnRequest
<1>3. RequestLocks(w)'
  BY <1>1, <1>2 DEF RequestLocks, IInv, TypeOK
<1> QED BY <1>1, <1>2, <1>3 DEF HoldsOnly, NegotiationLocks, KeyLocks

LEMMA InsertHoldsOnly ==
    ASSUME IInv, NEW w \in Workers, HoldsOnly(w), InsertNegotiation(w)
    PROVE  HoldsOnly(w)'
<1>1. /\ pc[w] = "insert" /\ pc'[w] \in {"save", "commit"}
      /\ call'[w] = call[w] /\ call[w].kind = "offer"
      /\ negLock' = [negLock EXCEPT ![call[w].neg] = w]
      /\ reqLock' = reqLock /\ keyLock' = keyLock
  BY DEF IInv, TypeOK, WorkerInv, CallFits, InsertNegotiation, SaveOrCommit, Go
<1>2. RequestLocks(w)'
  BY <1>1 DEF HoldsOnly, RequestLocks
<1>3. NegotiationLocks(w)'
  BY <1>1 DEF HoldsOnly, NegotiationLocks, IInv, TypeOK
<1> QED BY <1>1, <1>2, <1>3 DEF HoldsOnly, KeyLocks

LEMMA LoadHoldsOnly ==
    ASSUME IInv, NEW w \in Workers, HoldsOnly(w), LoadActiveForResponse(w)
    PROVE  HoldsOnly(w)'
<1>1. /\ pc'[w] \in {"close", "save", "commit"} /\ call'[w] = call[w]
      /\ negLock' = [negLock EXCEPT ![call[w].neg] = w]
      /\ reqLock' = reqLock /\ keyLock' = keyLock
  BY DEF IInv, TypeOK, LoadActiveForResponse, ForUpdateNegotiation, AfterLoad, SaveOrCommit, Go
<1>2. /\ \A r \in Requests : reqLock[r] # w
      /\ \A n \in Negs : negLock[n] # w
      /\ \A k \in Keys : keyLock[k] # w
  BY HoldsNothing DEF LoadActiveForResponse
<1>3. NegotiationLocks(w)'
  BY <1>1, <1>2 DEF NegotiationLocks, IInv, TypeOK
<1> QED BY <1>1, <1>2, <1>3 DEF HoldsOnly, RequestLocks, KeyLocks

LEMMA CloseHoldsOnly ==
    ASSUME IInv, NEW w \in Workers, HoldsOnly(w), CloseRequest(w)
    PROVE  HoldsOnly(w)'
<1>1. /\ pc[w] = "close" /\ pc'[w] \in {"supersede", "save", "commit"}
      /\ call'[w] = call[w] /\ call[w].kind = "accept"
      /\ reqLock' = [reqLock EXCEPT ![RequestOf(call[w].neg)] = w]
      /\ negLock' = negLock /\ keyLock' = keyLock
  BY DEF IInv, TypeOK, WorkerInv, CallFits, CloseRequest, ForUpdateRequest, SaveOrCommit, Go
<1>2. RequestLocks(w)'
  BY <1>1 DEF HoldsOnly, RequestLocks, IInv, TypeOK
<1>3. NegotiationLocks(w)'
  BY <1>1 DEF HoldsOnly, NegotiationLocks
<1> QED BY <1>1, <1>2, <1>3 DEF HoldsOnly, KeyLocks

LEMMA SupersedeHoldsOnly ==
    ASSUME IInv, NEW w \in Workers, HoldsOnly(w), SupersedeSibling(w)
    PROVE  HoldsOnly(w)'
<1>1. /\ pc[w] = "supersede" /\ pc'[w] \in {"supersede", "save", "commit"}
      /\ call'[w] = call[w] /\ call[w].kind = "accept"
      /\ negLock' = [negLock EXCEPT ![sib[w]] = w]
      /\ sibs'[w] = sibs[w] /\ sib[w] \in sibs[w]
      /\ reqLock' = reqLock /\ keyLock' = keyLock
  BY DEF IInv, TypeOK, WorkerInv, CallFits, SiblingChosen, SupersedeSibling, SaveOrCommit, Go
<1>2. RequestLocks(w)'
  BY <1>1 DEF HoldsOnly, RequestLocks
<1>3. NegotiationLocks(w)'
  BY <1>1 DEF HoldsOnly, NegotiationLocks, IInv, TypeOK
<1> QED BY <1>1, <1>2, <1>3 DEF HoldsOnly, KeyLocks

LEMMA SaveHoldsOnly ==
    ASSUME IInv, NEW w \in Workers, HoldsOnly(w), SaveKey(w)
    PROVE  HoldsOnly(w)'
<1>1. /\ pc[w] = "save" /\ pc'[w] = "commit" /\ call'[w] = call[w] /\ sibs'[w] = sibs[w]
      /\ keyLock' = [keyLock EXCEPT ![call[w].key] = w]
      /\ reqLock' = reqLock /\ negLock' = negLock
  BY DEF IInv, TypeOK, SaveKey, Go, reads
<1>2. KeyLocks(w)'
  BY <1>1 DEF HoldsOnly, KeyLocks, IInv, TypeOK
<1> QED BY <1>1, <1>2 DEF HoldsOnly, RequestLocks, NegotiationLocks

\* Every other step ends the transaction.
LEMMA StepHolds ==
    ASSUME IInv, NEW w \in Workers, HoldsOnly(w), Step(w)
    PROVE  HoldsOnly(w)'
<1>1. CASE \E o \in Outcome : End(w, o)
  BY <1>1, EndHolds DEF IInv
<1>2. CASE ~ \E o \in Outcome : End(w, o)
  <2>1. \/ (\E c \in Calls : Receive(w, c)) \/ LookupMiss(w)
        \/ \E r \in Requests : CreateRequest(w, r)
        \/ OfferOnRequest(w) \/ InsertNegotiation(w) \/ LoadActiveForResponse(w)
        \/ CloseRequest(w) \/ SupersedeSibling(w) \/ SaveKey(w)
    BY <1>2 DEF Step, Waiting, Running, LookupHit, OfferRefused, LoadRefused, UniqueViolation,
       Commit, Abort, DeadlockVictim, Outcome, Refusal
  <2> QED BY <2>1, StartHolds, CreateHoldsOnly, OfferHoldsOnly, InsertHoldsOnly, LoadHoldsOnly,
          CloseHoldsOnly, SupersedeHoldsOnly, SaveHoldsOnly
<1> QED BY <1>1, <1>2

\* No transaction holds a lock that its own call has not asked for.
THEOREM LocksFitAlways == Spec => []LocksFit
<1>1. Init => LocksFit
  BY NullAssumption DEF Init, LocksFit, RequestLocks, NegotiationLocks, KeyLocks
<1>2. IInv /\ LocksFit /\ [Next]_vars => LocksFit'
  <2> SUFFICES ASSUME IInv, LocksFit, [Next]_vars, NEW v \in Workers
               PROVE  HoldsOnly(v)'
    BY DEF LocksFit, HoldsOnly
  <2>1. HoldsOnly(v)
    BY DEF LocksFit, HoldsOnly
  <2>2. CASE UNCHANGED vars
    BY <2>1, <2>2 DEF vars, locks, reads, HoldsOnly, RequestLocks, NegotiationLocks, KeyLocks
  <2>3. CASE Next
    <3>1. PICK w \in Workers : Step(w)
      BY <2>3 DEF Next, Step
    <3>2. CASE v = w
      BY <2>1, <3>1, <3>2, StepHolds
    <3>3. CASE v # w
      BY <2>1, <3>1, <3>3, StepOf, OthersHold
    <3> QED BY <3>2, <3>3
  <2> QED BY <2>2, <2>3
<1> QED BY <1>1, <1>2, Invariance, PTL DEF Spec

-----------------------------------------------------------------------------
(* The cycles of waits.                                                    *)

Waits == {"offer", "insert", "load", "close", "supersede", "save"}

\* Where a worker waits, and for the holder of which lock.
LEMMA WaitsFor ==
    ASSUME NEW w \in Workers, Holder(w) \in Workers
    PROVE  /\ pc[w] \in Waits
           /\ pc[w] = "insert" => /\ negStatus[call[w].neg] = "none"
                                  /\ Holder(w) = negLock[call[w].neg]
           /\ pc[w] = "close" => Holder(w) = reqLock[RequestOf(call[w].neg)]
           /\ pc[w] = "supersede" => Holder(w) = negLock[sib[w]]
           /\ pc[w] = "save" => Holder(w) = keyLock[call[w].key]
BY NullAssumption DEF Holder, Waits

\* A key is locked by a transaction that only has to commit.
LEMMA SaveWaitsForCommit ==
    ASSUME IInv, LocksFit, NEW w \in Workers, Holder(w) \in Workers, pc[w] = "save"
    PROVE  Holder(Holder(w)) \notin Workers
<1>1. call[w].key \in Keys
  BY CallParts DEF IInv, TypeOK, WorkerInv, CallFits, InTransaction
<1>2. pc[Holder(w)] = "commit"
  BY <1>1, WaitsFor DEF LocksFit, KeyLocks
<1> QED BY <1>2, WaitsFor DEF Waits

\* Nobody who waits has locked a thread that is not there: an offer on it has
\* locked the request, and only to commit.
LEMMA InsertWaitsForNobody ==
    ASSUME IInv, LocksFit, NEW w \in Workers, pc[w] = "insert"
    PROVE  Holder(w) \notin Workers
<1> SUFFICES ASSUME Holder(w) \in Workers PROVE FALSE
  OBVIOUS
<1> DEFINE n == call[w].neg
<1>1. PICK x \in Workers : x = negLock[n] /\ negStatus[n] = "none"
  BY WaitsFor
<1>2. n \in Negs /\ call[w].kind = "offer" /\ reqLock[RequestOf(n)] = w
  BY CallParts DEF IInv, TypeOK, WorkerInv, CallFits, OfferHolds, InTransaction
<1>3. \/ pc[x] \in {"close", "supersede", "save", "commit"} /\ n = call[x].neg
      \/ /\ call[x].kind = "accept"
         /\ pc[x] \in {"supersede", "save", "commit"}
         /\ n \in sibs[x]
  BY <1>1, <1>2 DEF LocksFit, NegotiationLocks
<1>4. call[x] \in Calls /\ WorkerInv(x)
  BY <1>3 DEF IInv, TypeOK, WorkerInv, CallFits, InTransaction
<1>5. CASE call[x].kind = "accept" /\ n \in sibs[x]
  BY <1>1, <1>3, <1>4, <1>5, CallParts DEF WorkerInv, SiblingsHold, DecisionHolds, IsActive, Decision
<1>6. CASE pc[x] \in {"close", "supersede", "save", "commit"} /\ n = call[x].neg
  <2>1. CASE call[x].kind \in Decision
    BY <1>1, <1>4, <1>6, <2>1 DEF WorkerInv, DecisionHolds, IsActive
  <2>2. CASE call[x].kind = "offer"
    <3>1. reqLock[RequestOf(n)] = x /\ pc[x] # "insert"
      BY <1>4, <1>6, <2>2 DEF WorkerInv, CallFits, OfferHolds
    <3> QED BY <1>2, <3>1
  <2>3. call[x].kind # "create"
    BY <1>2, <1>4, <1>6, NullAssumption DEF Calls, CreateCall, OfferCall, DecideCall, CounterCall
  <2> QED BY <1>4, <2>1, <2>2, <2>3, CallParts
<1> QED BY <1>3, <1>5, <1>6

\* An accept waits for the lock of its request, or of a thread of its request:
\* if the one that has it still waits too and has locked anything, the two
\* accept threads of the same request.
LEMMA AcceptWaitsForAccept ==
    ASSUME IInv, LocksFit, NEW w \in Workers, NEW x \in Workers, x = Holder(w),
           pc[w] \in {"close", "supersede"}, pc[x] \in {"close", "supersede"}
    PROVE  /\ call[w].kind = "accept"
           /\ RequestOf(call[x].neg) = RequestOf(call[w].neg)
<1>1. /\ call[w].kind = "accept" /\ call[x].kind = "accept"
      /\ call[w].neg \in Negs /\ call[x].neg \in Negs
      /\ WorkerInv(w) /\ WorkerInv(x)
  BY CallParts DEF IInv, TypeOK, WorkerInv, CallFits, InTransaction, Decision
<1>2. CASE pc[w] = "close"
  <2>1. x = reqLock[RequestOf(call[w].neg)]
    BY <1>2, WaitsFor
  <2> QED BY <1>1, <2>1, NegParts DEF LocksFit, RequestLocks
<1>3. CASE pc[w] = "supersede"
  <2>1. x = negLock[sib[w]] /\ sib[w] \in Siblings(call[w].neg)
    BY <1>1, <1>3, WaitsFor DEF WorkerInv, SiblingChosen, SiblingsHold
  <2>2. sib[w] \in Negs /\ RequestOf(sib[w]) = RequestOf(call[w].neg)
    BY <2>1 DEF Siblings
  <2>3. sib[w] = call[x].neg \/ (pc[x] = "supersede" /\ sib[w] \in sibs[x])
    BY <2>1, <2>2 DEF LocksFit, NegotiationLocks
  <2>4. pc[x] = "supersede" => sibs[x] \subseteq Siblings(call[x].neg)
    BY <1>1 DEF WorkerInv, SiblingsHold
  <2>5. \A m \in Siblings(call[x].neg) : RequestOf(m) = RequestOf(call[x].neg)
    BY DEF Siblings
  <2> QED BY <1>1, <2>2, <2>3, <2>4, <2>5
<1> QED BY <1>1, <1>2, <1>3

\* Everybody in a cycle waits, and somebody waits for everybody in it.  So nobody
\* in it is at a statement before the first lock, none waits for a key or to
\* insert a thread, and what is left are accepts.
LEMMA CyclesOfAccepts ==
    ASSUME IInv, LocksFit PROVE DeadlockOnlyAmongAccepts
<1> SUFFICES ASSUME NEW S \in SUBSET Workers, {Holder(v) : v \in S} = S
             PROVE  \A v \in S : /\ call[v].kind = "accept"
                                 /\ RequestOf(call[Holder(v)].neg) = RequestOf(call[v].neg)
  BY DEF DeadlockOnlyAmongAccepts
<1>1. \A v \in S : Holder(v) \in S /\ \E u \in S : v = Holder(u)
  OBVIOUS
<1>2. \A v \in S : pc[v] \in {"close", "supersede"}
  <2> TAKE v \in S
  <2>1. pc[v] \in Waits
    BY <1>1, WaitsFor
  <2>2. pc[v] # "save" /\ pc[v] # "insert"
    BY <1>1, SaveWaitsForCommit, InsertWaitsForNobody
  <2>3. pc[v] # "offer" /\ pc[v] # "load"
    <3> SUFFICES ASSUME pc[v] \in {"offer", "load"} PROVE FALSE
      OBVIOUS
    <3>1. PICK u \in S : v = Holder(u)
      BY <1>1
    <3>2. /\ \A r \in Requests : reqLock[r] # v
          /\ \A n \in Negs : negLock[n] # v
          /\ \A k \in Keys : keyLock[k] # v
      BY HoldsNothing DEF LocksFit, HoldsOnly
    <3>3. \/ v = reqLock[RequestOf(call[u].neg)] /\ pc[u] \in {"offer", "close"}
          \/ v = negLock[call[u].neg] /\ pc[u] \in {"insert", "load"}
          \/ v = negLock[sib[u]] /\ pc[u] = "supersede"
          \/ v = keyLock[call[u].key] /\ pc[u] = "save"
      BY <3>1, NullAssumption DEF Holder
    <3>4. call[u] \in Calls /\ WorkerInv(u)
      BY <3>3 DEF IInv, TypeOK, WorkerInv, CallFits, InTransaction
    <3>5. pc[u] \in {"offer", "close", "insert", "load"} =>
            call[u].neg \in Negs /\ RequestOf(call[u].neg) \in Requests
      BY <3>4, CallParts, NegParts DEF WorkerInv, CallFits, Decision
    <3>6. pc[u] = "save" => call[u].key \in Keys
      BY <3>4, CallParts DEF WorkerInv, CallFits
    <3>7. pc[u] = "supersede" => sib[u] \in Negs
      BY <3>4 DEF WorkerInv, SiblingChosen, IInv, TypeOK
    <3> QED BY <3>2, <3>3, <3>5, <3>6, <3>7
  <2> QED BY <2>1, <2>2, <2>3 DEF Waits
<1> QED BY <1>1, <1>2, AcceptWaitsForAccept

\* Transactions wait for each other in a circle only where accepts on the
\* threads of one request take their rows crosswise: offers, rejects, counters
\* and retries with a key are never aborted as deadlock victims.
THEOREM DeadlockOnlyAmongAcceptsAlways == Spec => []DeadlockOnlyAmongAccepts
BY CyclesOfAccepts, Invariance, LocksFitAlways, PTL
=============================================================================
