------------------------ MODULE NegotiationTxnProofs ------------------------
(***************************************************************************)
(* IInv of NegotiationTxnInvariant is an invariant of the specification,   *)
(* for every set of users, requests, workers and keys.  A step is that of  *)
(* one worker w: the proof shows what w changes (StepOf: only rows it has  *)
(* locked, and only locks nobody else holds), that this leaves what the    *)
(* other workers rely on alone (OthersKeepInv), and that w reaches the     *)
(* next statement with what it needs.                                      *)
(***************************************************************************)
EXTENDS NegotiationTxnInvariant, TLAPS

\* The step of w leaves the state of the other workers and their locks alone.
OthersKeep(w) ==
    \A v \in Workers \ {w} :
        /\ pc'[v] = pc[v] /\ call'[v] = call[v]
        /\ seen'[v] = seen[v] /\ sibs'[v] = sibs[v] /\ sib'[v] = sib[v]
        /\ \A r \in Requests : reqLock[r] = v <=> reqLock'[r] = v
        /\ \A n \in Negs : negLock[n] = v <=> negLock'[n] = v
        /\ \A k \in Keys : keyLock[k] = v <=> keyLock'[k] = v

\* A row changes only under a lock of w; a new thread and an accept need that
\* on the request as well.
OwnRows(w) ==
    /\ \A r \in Requests :
          /\ reqLock[r] # w => reqStatus'[r] = reqStatus[r]
          /\ reqStatus[r] # "none" => owner'[r] = owner[r]
    /\ \A n \in Negs :
          /\ negLock[n] # w => negStatus'[n] = negStatus[n] /\ chain'[n] = chain[n]
          /\ reqLock[RequestOf(n)] # w =>
                \/ negStatus'[n] = negStatus[n]
                \/ negStatus[n] = "active" /\ negStatus'[n] = "rejected"
    /\ \A k \in Keys : keyLock[k] # w => keys'[k] = keys[k]

-----------------------------------------------------------------------------
LEMMA NegParts ==
    ASSUME NEW n \in Negs
    PROVE  RequestOf(n) \in Requests /\ SupplierOf(n) \in Suppliers
BY DEF Negs, RequestOf, SupplierOf

LEMMA CallParts ==
    ASSUME NEW c \in Calls
    PROVE  /\ c.key \in Keys \cup {Null}
           /\ c.user \in Users
           /\ c.kind \in {"create", "offer"} \cup Decision
           /\ c.kind = "create" => c.user \in Clients
           /\ c.kind = "offer" => /\ c.neg \in Negs /\ c.user = SupplierOf(c.neg)
                                  /\ c.amount \in Amounts /\ c.currency \in Currencies
           /\ c.kind \in Decision => c.neg \in Negs
           /\ c.kind = "counter" => c.amount \in Amounts
BY DEF Calls, CreateCall, OfferCall, DecideCall, CounterCall, KeyHeader, Users, Decision

\* What WorkerInv says of the call and the lock on a row another worker holds
\* survives the step of w.
LEMMA OthersKeepInv ==
    ASSUME TypeOK, RowsInv, NEW w \in Workers, NEW v \in Workers \ {w},
           WorkerInv(v), OthersKeep(w), OwnRows(w)
    PROVE  WorkerInv(v)'
<1> USE NegParts, CallParts, NullAssumption
<1>0. /\ pc'[v] = pc[v] /\ call'[v] = call[v]
      /\ seen'[v] = seen[v] /\ sibs'[v] = sibs[v] /\ sib'[v] = sib[v]
      /\ \A r \in Requests : reqLock[r] = v <=> reqLock'[r] = v
      /\ \A n \in Negs : negLock[n] = v <=> negLock'[n] = v
      /\ \A k \in Keys : keyLock[k] = v <=> keyLock'[k] = v
  BY DEF OthersKeep
<1>1. CallFits(v)'
  BY <1>0 DEF WorkerInv, CallFits
<1>c. call[v] # Null => call[v] \in Calls
  BY DEF TypeOK
<1>2. DecisionHolds(v)'
  BY <1>0, <1>c DEF WorkerInv, CallFits, InTransaction, DecisionHolds, OwnRows, RowsInv,
     ForeignKeyInv, Party, MyTurn, IsActive
<1>3. SiblingsHold(v)'
  BY <1>0, <1>c DEF WorkerInv, CallFits, InTransaction, SiblingsHold, OwnRows, IsActive, Siblings, Decision
<1>4. SiblingChosen(v)'
  BY <1>0 DEF WorkerInv, SiblingChosen
<1>5. OfferHolds(v)'
  BY <1>0, <1>c DEF WorkerInv, CallFits, InTransaction, OfferHolds, OwnRows
<1>6. CreateHolds(v)'
  BY <1>0 DEF WorkerInv, CreateHolds, OwnRows
<1>7. KeyHolds(v)'
  BY <1>0, <1>c DEF WorkerInv, CallFits, InTransaction, KeyHolds, OwnRows, KeyUnused
<1> QED BY <1>1, <1>2, <1>3, <1>4, <1>5, <1>6, <1>7 DEF WorkerInv

-----------------------------------------------------------------------------
\* The end of a transaction: its locks go, its call is over.
LEMMA EndLemma ==
    ASSUME TypeOK, NEW w \in Workers, NEW o \in Outcome, End(w, o)
    PROVE  /\ pc' \in [Workers -> PC]
           /\ call' \in [Workers -> Calls \cup {Null}]
           /\ reqLock' \in [Requests -> Workers \cup {Null}]
           /\ negLock' \in [Negs -> Workers \cup {Null}]
           /\ keyLock' \in [Keys -> Workers \cup {Null}]
           /\ seen' \in [Workers -> Proposal \cup {Null}]
           /\ sibs' \in [Workers -> SUBSET Negs]
           /\ sib' \in [Workers -> Negs \cup {Null}]
           /\ OthersKeep(w)
           /\ WorkerInv(w)'
<1>1. /\ pc' \in [Workers -> PC]
      /\ call' \in [Workers -> Calls \cup {Null}]
      /\ seen' \in [Workers -> Proposal \cup {Null}]
      /\ sibs' \in [Workers -> SUBSET Negs]
      /\ sib' \in [Workers -> Negs \cup {Null}]
  BY DEF TypeOK, End, Go, PC
<1>2. /\ reqLock' \in [Requests -> Workers \cup {Null}]
      /\ negLock' \in [Negs -> Workers \cup {Null}]
      /\ keyLock' \in [Keys -> Workers \cup {Null}]
  BY DEF TypeOK, End, Released
<1>3. OthersKeep(w)
  BY NullAssumption DEF TypeOK, End, Go, Released, OthersKeep
<1>4. pc'[w] = o /\ call'[w] = Null
  BY DEF TypeOK, End, Go
<1>5. WorkerInv(w)'
  <2>1. CreateHolds(w)'
    BY NullAssumption DEF TypeOK, End, Released, CreateHolds
  <2> QED BY <1>4, <2>1 DEF WorkerInv, CallFits, DecisionHolds, SiblingsHold, SiblingChosen,
          OfferHolds, KeyHolds, Outcome, Refusal, InTransaction
<1> QED BY <1>1, <1>2, <1>3, <1>5

LEMMA FailStep ==
    ASSUME TypeOK, RowsInv, NEW w \in Workers, NEW o \in Outcome, End(w, o),
           UNCHANGED <<tables, keys>>
    PROVE  TypeOK' /\ RowsInv' /\ OthersKeep(w) /\ OwnRows(w) /\ WorkerInv(w)'
<1>1. TypeOK' /\ OthersKeep(w) /\ WorkerInv(w)'
  BY EndLemma DEF TypeOK, tables
<1>2. RowsInv'
  BY DEF RowsInv, tables, OneWinner, ClosedSettled, ForeignKeyInv, ChainInv, AgreedIsLast
<1>3. OwnRows(w)
  BY DEF OwnRows, tables
<1> QED BY <1>1, <1>2, <1>3

\* A step that stays inside the transaction: the rows are as they were, and
\* what w takes was free.
LEMMA QuietRows ==
    ASSUME RowsInv, NEW w \in Workers, UNCHANGED <<tables, keys>>
    PROVE  RowsInv' /\ OwnRows(w)
BY DEF RowsInv, tables, OneWinner, ClosedSettled, ForeignKeyInv, ChainInv, AgreedIsLast, OwnRows

LEMMA FirstStatementPC ==
    ASSUME NEW c \in Calls
    PROVE  /\ FirstStatement(c) \in {"create", "offer", "load"}
           /\ FirstStatement(c) = "create" => c.kind = "create"
           /\ FirstStatement(c) = "offer" => c.kind = "offer"
           /\ FirstStatement(c) = "load" => c.kind \in Decision
BY CallParts DEF FirstStatement, Decision

LEMMA ReceiveStep ==
    ASSUME IInv, NEW w \in Workers, NEW c \in Calls, Receive(w, c)
    PROVE  TypeOK' /\ RowsInv' /\ OthersKeep(w) /\ OwnRows(w) /\ WorkerInv(w)'
<1>1. RowsInv' /\ OwnRows(w)
  BY QuietRows DEF IInv, Receive
<1>2. /\ pc'[w] = IF c.key = Null THEN FirstStatement(c) ELSE "lookup"
      /\ call'[w] = c
  BY DEF IInv, TypeOK, Receive, Go
<1>3. TypeOK'
  BY FirstStatementPC DEF IInv, TypeOK, Receive, Go, tables, locks, reads, PC, InTransaction
<1>4. OthersKeep(w)
  BY DEF IInv, TypeOK, Receive, Go, OthersKeep, locks, reads
<1>5. WorkerInv(w)'
  <2>1. CallFits(w)'
    BY <1>2, FirstStatementPC, NullAssumption DEF CallFits, InTransaction
  <2>2. CreateHolds(w)'
    BY DEF IInv, WorkerInv, Receive, CreateHolds, locks
  <2> QED BY <1>2, <2>1, <2>2, FirstStatementPC DEF WorkerInv, DecisionHolds, SiblingsHold,
          SiblingChosen, OfferHolds, KeyHolds
<1> QED BY <1>1, <1>3, <1>4, <1>5

LEMMA LookupMissStep ==
    ASSUME IInv, NEW w \in Workers, LookupMiss(w)
    PROVE  TypeOK' /\ RowsInv' /\ OthersKeep(w) /\ OwnRows(w) /\ WorkerInv(w)'
<1>1. RowsInv' /\ OwnRows(w)
  BY QuietRows DEF IInv, LookupMiss
<1>2. call[w] \in Calls
  BY DEF IInv, WorkerInv, CallFits, InTransaction, LookupMiss, TypeOK
<1>3. pc'[w] = FirstStatement(call[w]) /\ call'[w] = call[w]
  BY DEF IInv, TypeOK, LookupMiss, Go
<1>4. TypeOK'
  BY <1>2, FirstStatementPC DEF IInv, TypeOK, LookupMiss, Go, tables, locks, reads, PC, InTransaction
<1>5. OthersKeep(w)
  BY DEF IInv, TypeOK, LookupMiss, Go, OthersKeep, locks, reads
<1>6. WorkerInv(w)'
  <2>1. CallFits(w)'
    BY <1>2, <1>3, FirstStatementPC, NullAssumption DEF CallFits, InTransaction
  <2>2. CreateHolds(w)'
    BY <1>3 DEF IInv, WorkerInv, LookupMiss, CreateHolds, tables, locks
  <2> QED BY <1>2, <1>3, <2>1, <2>2, FirstStatementPC DEF WorkerInv, DecisionHolds, SiblingsHold,
          SiblingChosen, OfferHolds, KeyHolds
<1> QED BY <1>1, <1>4, <1>5, <1>6

\* The statement that ends a service function leads to save or commit, and
\* SaveOrCommit keeps CallFits and KeyHolds.
LEMMA SaveOrCommitLemma ==
    ASSUME NEW w \in Workers, call[w] \in Calls,
           pc'[w] = SaveOrCommit(w), call'[w] = call[w]
    PROVE  CallFits(w)' /\ KeyHolds(w)' /\ pc'[w] \in {"save", "commit"}
BY NullAssumption DEF SaveOrCommit, CallFits, KeyHolds, InTransaction

LEMMA CreateRequestStep ==
    ASSUME IInv, NEW w \in Workers, NEW r \in Requests, CreateRequest(w, r)
    PROVE  TypeOK' /\ RowsInv' /\ OthersKeep(w) /\ OwnRows(w) /\ WorkerInv(w)'
<1>1. RowsInv' /\ OwnRows(w)
  BY QuietRows DEF IInv, CreateRequest
<1>2. call[w] \in Calls /\ call[w].kind = "create"
  BY DEF IInv, WorkerInv, CallFits, InTransaction, CreateRequest, TypeOK
<1>3. pc'[w] = SaveOrCommit(w) /\ call'[w] = call[w]
  BY DEF IInv, TypeOK, CreateRequest, Go
<1>4. CallFits(w)' /\ KeyHolds(w)' /\ pc'[w] \in {"save", "commit"}
  BY <1>2, <1>3, SaveOrCommitLemma
<1>5. TypeOK'
  BY <1>3, <1>4 DEF IInv, TypeOK, CreateRequest, Go, tables, reads, PC, InTransaction
<1>6. OthersKeep(w)
  BY NullAssumption DEF IInv, TypeOK, CreateRequest, Go, OthersKeep, reads
<1>7. CreateHolds(w)'
  BY <1>2, <1>3, NullAssumption DEF IInv, TypeOK, WorkerInv, CreateRequest, CreateHolds, tables
<1>8. WorkerInv(w)'
  BY <1>2, <1>3, <1>4, <1>7 DEF WorkerInv, DecisionHolds, SiblingsHold, SiblingChosen,
     OfferHolds, Decision
<1> QED BY <1>1, <1>5, <1>6, <1>8

LEMMA OfferOnRequestStep ==
    ASSUME IInv, NEW w \in Workers, OfferOnRequest(w)
    PROVE  TypeOK' /\ RowsInv' /\ OthersKeep(w) /\ OwnRows(w) /\ WorkerInv(w)'
<1>1. RowsInv' /\ OwnRows(w)
  BY QuietRows DEF IInv, OfferOnRequest
<1>2. call[w] \in Calls /\ call[w].kind = "offer" /\ RequestOf(call[w].neg) \in Requests
  BY CallParts, NegParts DEF IInv, WorkerInv, CallFits, InTransaction, OfferOnRequest, TypeOK
<1>3. pc'[w] = "insert" /\ call'[w] = call[w]
  BY DEF IInv, TypeOK, OfferOnRequest, Go
<1>4. TypeOK'
  BY <1>2 DEF IInv, TypeOK, OfferOnRequest, ForUpdateRequest, Go, tables, reads, PC, InTransaction
<1>5. OthersKeep(w)
  BY <1>2, NullAssumption DEF IInv, TypeOK, OfferOnRequest, ForUpdateRequest, Free, Go, OthersKeep, reads
<1>6. CallFits(w)'
  BY <1>2, <1>3, NullAssumption DEF CallFits, InTransaction
<1>7. OfferHolds(w)'
  BY <1>2, <1>3 DEF IInv, TypeOK, OfferOnRequest, ForUpdateRequest, OfferHolds, tables
<1>8. CreateHolds(w)'
  BY <1>2, <1>3, NullAssumption DEF CreateHolds
<1>9. WorkerInv(w)'
  BY <1>3, <1>6, <1>7, <1>8 DEF WorkerInv, DecisionHolds, SiblingsHold, SiblingChosen, KeyHolds
<1> QED BY <1>1, <1>4, <1>5, <1>9

LEMMA InsertNegotiationStep ==
    ASSUME IInv, NEW w \in Workers, InsertNegotiation(w)
    PROVE  TypeOK' /\ RowsInv' /\ OthersKeep(w) /\ OwnRows(w) /\ WorkerInv(w)'
<1>1. RowsInv' /\ OwnRows(w)
  BY QuietRows DEF IInv, InsertNegotiation
<1>2. call[w] \in Calls /\ call[w].kind = "offer" /\ call[w].neg \in Negs
  BY CallParts DEF IInv, WorkerInv, CallFits, InTransaction, InsertNegotiation, TypeOK
<1>3. pc'[w] = SaveOrCommit(w) /\ call'[w] = call[w]
  BY DEF IInv, TypeOK, InsertNegotiation, Go
<1>4. CallFits(w)' /\ KeyHolds(w)' /\ pc'[w] \in {"save", "commit"}
  BY <1>2, <1>3, SaveOrCommitLemma
<1>5. TypeOK'
  BY <1>2, <1>3, <1>4 DEF IInv, TypeOK, InsertNegotiation, Go, tables, reads, PC, InTransaction
<1>6. OthersKeep(w)
  BY <1>2, NullAssumption DEF IInv, TypeOK, InsertNegotiation, Free, Go, OthersKeep, reads
<1>7. OfferHolds(w)'
  BY <1>2, <1>3 DEF IInv, TypeOK, WorkerInv, InsertNegotiation, OfferHolds, tables
<1>8. CreateHolds(w)'
  BY <1>2, <1>3, NullAssumption DEF CreateHolds
<1>9. WorkerInv(w)'
  BY <1>2, <1>3, <1>4, <1>7, <1>8 DEF WorkerInv, DecisionHolds, SiblingsHold, SiblingChosen, Decision
<1> QED BY <1>1, <1>5, <1>6, <1>9

-----------------------------------------------------------------------------
LEMMA LoadActiveStep ==
    ASSUME IInv, NEW w \in Workers, LoadActiveForResponse(w)
    PROVE  TypeOK' /\ RowsInv' /\ OthersKeep(w) /\ OwnRows(w) /\ WorkerInv(w)'
<1>1. RowsInv' /\ OwnRows(w)
  BY QuietRows DEF IInv, LoadActiveForResponse
<1>2. call[w] \in Calls /\ call[w].kind \in Decision /\ call[w].neg \in Negs
  BY CallParts DEF IInv, WorkerInv, CallFits, InTransaction, LoadActiveForResponse, TypeOK
<1>3. pc'[w] = AfterLoad(w) /\ call'[w] = call[w]
  BY DEF IInv, TypeOK, LoadActiveForResponse, Go
<1>4. /\ CallFits(w)' /\ KeyHolds(w)'
      /\ pc'[w] \in {"close", "save", "commit"}
      /\ call[w].kind = "accept" => pc'[w] = "close"
  <2>1. CASE call[w].kind = "accept"
    BY <1>2, <1>3, <2>1, NullAssumption DEF AfterLoad, CallFits, KeyHolds, InTransaction
  <2>2. CASE call[w].kind # "accept"
    BY <1>2, <1>3, <2>2, SaveOrCommitLemma DEF AfterLoad
  <2> QED BY <2>1, <2>2
<1>5. LastProposal(chain[call[w].neg]) \in Proposal
  <2>1. chain[call[w].neg] \in Seq(Proposal) /\ chain[call[w].neg] # << >>
    BY <1>2 DEF IInv, TypeOK, RowsInv, ChainInv, LoadActiveForResponse
  <2> QED BY <2>1 DEF LastProposal
<1>6. TypeOK'
  BY <1>2, <1>3, <1>4, <1>5 DEF IInv, TypeOK, LoadActiveForResponse, ForUpdateNegotiation, Go,
     tables, PC, InTransaction
<1>7. OthersKeep(w)
  BY <1>2, NullAssumption DEF IInv, TypeOK, LoadActiveForResponse, ForUpdateNegotiation, Free, Go, OthersKeep
<1>8. DecisionHolds(w)'
  BY <1>2, <1>3 DEF IInv, TypeOK, LoadActiveForResponse, ForUpdateNegotiation, DecisionHolds,
     IsActive, Party, MyTurn, tables
<1>9. CreateHolds(w)'
  BY <1>2, <1>3, NullAssumption DEF CreateHolds, Decision
<1>10. WorkerInv(w)'
  BY <1>2, <1>3, <1>4, <1>8, <1>9 DEF WorkerInv, SiblingsHold, SiblingChosen, OfferHolds, Decision
<1> QED BY <1>1, <1>6, <1>7, <1>10

LEMMA CloseRequestStep ==
    ASSUME IInv, NEW w \in Workers, CloseRequest(w)
    PROVE  TypeOK' /\ RowsInv' /\ OthersKeep(w) /\ OwnRows(w) /\ WorkerInv(w)'
<1> DEFINE n == call[w].neg
           active == {m \in Siblings(n) : negStatus[m] = "active"}
<1>1. RowsInv' /\ OwnRows(w)
  BY QuietRows DEF IInv, CloseRequest
<1>2. call[w] \in Calls /\ call[w].kind = "accept" /\ n \in Negs /\ RequestOf(n) \in Requests
  BY CallParts, NegParts DEF IInv, WorkerInv, CallFits, InTransaction, CloseRequest, TypeOK, Decision
<1>3. /\ call'[w] = call[w]
      /\ sibs'[w] = active
      /\ \/ pc'[w] = "supersede" /\ sib'[w] \in active
         \/ pc'[w] = SaveOrCommit(w) /\ active = {}
  BY DEF IInv, TypeOK, CloseRequest, Go
<1>4. active \subseteq Negs
  BY DEF Siblings
<1>5. pc'[w] \in {"supersede", "save", "commit"}
  BY <1>3 DEF SaveOrCommit
<1>6. CallFits(w)' /\ KeyHolds(w)'
  <2>1. CASE pc'[w] = "supersede"
    BY <1>2, <1>3, <2>1, NullAssumption DEF CallFits, KeyHolds, InTransaction
  <2>2. CASE pc'[w] = SaveOrCommit(w)
    BY <1>2, <1>3, <2>2, SaveOrCommitLemma
  <2> QED BY <1>3, <2>1, <2>2
<1>7. TypeOK'
  <2>1. SaveOrCommit(w) \in PC /\ "supersede" \in PC
    BY DEF SaveOrCommit, PC, InTransaction
  <2>2. pc' \in [Workers -> PC]
    BY <2>1 DEF IInv, TypeOK, CloseRequest, Go
  <2>3. sib' \in [Workers -> Negs \cup {Null}]
    BY <1>4 DEF IInv, TypeOK, CloseRequest
  <2>4. sibs' \in [Workers -> SUBSET Negs]
    BY <1>4 DEF IInv, TypeOK, CloseRequest
  <2> QED BY <1>2, <2>2, <2>3, <2>4 DEF IInv, TypeOK, CloseRequest, ForUpdateRequest, tables
<1>8. OthersKeep(w)
  BY <1>2, NullAssumption DEF IInv, TypeOK, CloseRequest, ForUpdateRequest, Free, Go, OthersKeep
<1>9. DecisionHolds(w)'
  BY <1>2, <1>3 DEF IInv, WorkerInv, CloseRequest, DecisionHolds, IsActive, Party, MyTurn, tables
<1>10. SiblingsHold(w)'
  <2>1. reqLock'[RequestOf(n)] = w
    BY <1>2 DEF IInv, TypeOK, CloseRequest, ForUpdateRequest
  <2>2. pc'[w] # "supersede" => sibs'[w] = {}
    BY <1>3
  <2>3. negStatus' = negStatus
    BY DEF CloseRequest, tables
  <2> QED BY <1>3, <2>1, <2>2, <2>3 DEF SiblingsHold, IsActive
<1>11. CreateHolds(w)'
  BY <1>2, <1>3, NullAssumption DEF CreateHolds
<1>12. SiblingChosen(w)'
  BY <1>3 DEF SiblingChosen, SaveOrCommit
<1>13. WorkerInv(w)'
  BY <1>2, <1>3, <1>5, <1>6, <1>9, <1>10, <1>11, <1>12 DEF WorkerInv, OfferHolds
<1> QED BY <1>1, <1>7, <1>8, <1>13

LEMMA SupersedeSiblingStep ==
    ASSUME IInv, NEW w \in Workers, SupersedeSibling(w)
    PROVE  TypeOK' /\ RowsInv' /\ OthersKeep(w) /\ OwnRows(w) /\ WorkerInv(w)'
<1> DEFINE n == call[w].neg
           left == {m \in sibs[w] : negLock[m] # w} \ {sib[w]}
<1>1. RowsInv' /\ OwnRows(w)
  BY QuietRows DEF IInv, SupersedeSibling
<1>2. call[w] \in Calls /\ call[w].kind = "accept" /\ n \in Negs /\ RequestOf(n) \in Requests
  BY CallParts, NegParts DEF IInv, WorkerInv, CallFits, InTransaction, SupersedeSibling, TypeOK, Decision
<1>3. /\ call'[w] = call[w]
      /\ \/ pc'[w] = "supersede" /\ sib'[w] \in left
         \/ pc'[w] = SaveOrCommit(w) /\ left = {}
  BY DEF IInv, TypeOK, SupersedeSibling, Go
<1>4. sibs[w] \subseteq Negs /\ sib[w] \in sibs[w]
  BY DEF IInv, TypeOK, WorkerInv, SiblingChosen, SupersedeSibling
<1>5. pc'[w] \in {"supersede", "save", "commit"}
  BY <1>3 DEF SaveOrCommit
<1>6. CallFits(w)' /\ KeyHolds(w)'
  <2>1. CASE pc'[w] = "supersede"
    BY <1>2, <1>3, <2>1, NullAssumption DEF CallFits, KeyHolds, InTransaction
  <2>2. CASE pc'[w] = SaveOrCommit(w)
    BY <1>2, <1>3, <2>2, SaveOrCommitLemma
  <2> QED BY <1>3, <2>1, <2>2
<1>7. TypeOK'
  <2>1. SaveOrCommit(w) \in PC
    BY DEF SaveOrCommit, PC, InTransaction
  <2>2. pc' \in [Workers -> PC]
    BY <2>1 DEF IInv, TypeOK, SupersedeSibling, Go
  <2>3. sib' \in [Workers -> Negs \cup {Null}]
    BY <1>4 DEF IInv, TypeOK, SupersedeSibling
  <2>4. negLock' \in [Negs -> Workers \cup {Null}]
    BY <1>4 DEF IInv, TypeOK, SupersedeSibling
  <2> QED BY <2>2, <2>3, <2>4 DEF IInv, TypeOK, SupersedeSibling, tables
<1>8. OthersKeep(w)
  BY <1>4, NullAssumption DEF IInv, TypeOK, SupersedeSibling, Free, Go, OthersKeep
<1>9. \A m \in Negs : negLock[m] = w \/ m = sib[w] => negLock'[m] = w
  BY <1>4 DEF IInv, TypeOK, SupersedeSibling
<1>10. DecisionHolds(w)'
  BY <1>2, <1>3, <1>9 DEF IInv, WorkerInv, SupersedeSibling, DecisionHolds, IsActive, Party, MyTurn, tables
<1>11. SiblingsHold(w)'
  <2>1. left = {} => \A m \in sibs[w] : negLock'[m] = w
    BY <1>4, <1>9
  <2>2. negStatus' = negStatus /\ reqLock' = reqLock /\ sibs' = sibs /\ pc[w] = "supersede"
    BY DEF SupersedeSibling, tables
  <2> QED BY <1>2, <1>3, <2>1, <2>2 DEF IInv, WorkerInv, SiblingsHold, IsActive
<1>12. CreateHolds(w)'
  BY <1>2, <1>3, NullAssumption DEF CreateHolds
<1>13. SiblingChosen(w)'
  BY <1>3 DEF SiblingChosen, SupersedeSibling, SaveOrCommit
<1>14. WorkerInv(w)'
  BY <1>2, <1>3, <1>5, <1>6, <1>10, <1>11, <1>12, <1>13 DEF WorkerInv, OfferHolds
<1> QED BY <1>1, <1>7, <1>8, <1>14

LEMMA SaveKeyStep ==
    ASSUME IInv, NEW w \in Workers, SaveKey(w)
    PROVE  TypeOK' /\ RowsInv' /\ OthersKeep(w) /\ OwnRows(w) /\ WorkerInv(w)'
<1>1. RowsInv' /\ OwnRows(w)
  BY QuietRows DEF IInv, SaveKey
<1>2. call[w] \in Calls /\ call[w].key \in Keys
  BY CallParts DEF IInv, WorkerInv, CallFits, InTransaction, SaveKey, TypeOK
<1>3. pc[w] = "save" /\ pc'[w] = "commit" /\ call'[w] = call[w]
  BY DEF IInv, TypeOK, SaveKey, Go
<1>4. TypeOK'
  BY <1>2 DEF IInv, TypeOK, SaveKey, Go, tables, reads, PC, InTransaction
<1>5. OthersKeep(w)
  BY <1>2, NullAssumption DEF IInv, TypeOK, SaveKey, Free, Go, OthersKeep, reads
<1>6. KeyHolds(w)'
  BY <1>2, <1>3 DEF IInv, TypeOK, SaveKey, KeyHolds, KeyUnused
<1>7. CallFits(w)' /\ SiblingChosen(w)'
  BY <1>2, <1>3, NullAssumption DEF CallFits, SiblingChosen, InTransaction
<1>8. DecisionHolds(w)' /\ SiblingsHold(w)' /\ OfferHolds(w)' /\ CreateHolds(w)'
  BY <1>3 DEF IInv, WorkerInv, SaveKey, DecisionHolds, SiblingsHold, OfferHolds, CreateHolds,
     IsActive, Party, MyTurn, tables, reads
<1> QED BY <1>1, <1>4, <1>5, <1>6, <1>7, <1>8 DEF WorkerInv

-----------------------------------------------------------------------------
(* The commits.  Each keeps the type of the rows, RowsInv and OwnRows.     *)

RowsTyped ==
    /\ owner \in [Requests -> Clients \cup {Null}]
    /\ reqStatus \in [Requests -> RequestStatus]
    /\ negStatus \in [Negs -> NegotiationStatus]
    /\ chain \in [Negs -> Seq(Proposal)]
    /\ agreed \in [Negs -> Amounts \cup {Null}]
    /\ audit \in [AuditEntry -> Nat]

LEMMA LoggedType ==
    ASSUME TypeOK, NEW entries, Logged(entries)
    PROVE  audit' \in [AuditEntry -> Nat]
BY DEF TypeOK, Logged

\* What the worker of a commit may rely on.
LEMMA AtCommit ==
    ASSUME IInv, NEW w \in Workers, pc[w] = "commit"
    PROVE  /\ call[w] \in Calls
           /\ CallFits(w) /\ DecisionHolds(w) /\ SiblingsHold(w)
           /\ OfferHolds(w) /\ CreateHolds(w) /\ KeyHolds(w)
BY DEF IInv, TypeOK, WorkerInv, CallFits, InTransaction

LEMMA CommitKeys ==
    ASSUME IInv, NEW w \in Workers, Commit(w)
    PROVE  /\ keys' \in [Keys -> Calls \cup {Null}]
           /\ \A k \in Keys : keyLock[k] # w => keys'[k] = keys[k]
BY AtCommit, NullAssumption DEF IInv, TypeOK, Commit, KeyHolds

LEMMA CreateEffectStep ==
    ASSUME IInv, NEW w \in Workers, pc[w] = "commit", call[w].kind = "create", CreateEffect(w),
           \A k \in Keys : keyLock[k] # w => keys'[k] = keys[k]
    PROVE  RowsTyped' /\ RowsInv' /\ OwnRows(w)
<1>1. PICK r \in Requests :
        /\ reqLock[r] = w
        /\ owner' = [owner EXCEPT ![r] = call[w].user]
        /\ reqStatus' = [reqStatus EXCEPT ![r] = "open"]
        /\ Logged({<<r, "request.created">>})
        /\ UNCHANGED <<negStatus, chain, agreed>>
  BY DEF CreateEffect
<1>2. reqStatus[r] = "none" /\ call[w].user \in Clients
  BY <1>1, AtCommit, CallParts DEF CreateHolds
<1>3. RowsTyped'
  BY <1>1, <1>2, LoggedType DEF IInv, TypeOK, RowsTyped, RequestStatus
<1>4. OwnRows(w)
  BY <1>1, <1>2 DEF IInv, TypeOK, OwnRows
<1>5. RowsInv'
  BY <1>1, <1>2, NegParts DEF IInv, TypeOK, RowsInv, OneWinner, ClosedSettled, ForeignKeyInv,
     ChainInv, AgreedIsLast
<1> QED BY <1>3, <1>4, <1>5

LEMMA OfferEffectStep ==
    ASSUME IInv, NEW w \in Workers, pc[w] = "commit", call[w].kind = "offer", OfferEffect(w),
           \A k \in Keys : keyLock[k] # w => keys'[k] = keys[k]
    PROVE  RowsTyped' /\ RowsInv' /\ OwnRows(w)
<1> DEFINE n == call[w].neg
           p == NewProposal(call[w].user, call[w].amount, call[w].currency)
<1>1. n \in Negs /\ RequestOf(n) \in Requests /\ p \in Proposal
  BY AtCommit, CallParts, NegParts DEF NewProposal, Proposal
<1>2. /\ reqLock[RequestOf(n)] = w /\ reqStatus[RequestOf(n)] = "open"
      /\ negStatus[n] = "none" /\ negLock[n] = w
  BY AtCommit DEF OfferHolds
<1>3. /\ negStatus' = [negStatus EXCEPT ![n] = "active"]
      /\ chain' = [chain EXCEPT ![n] = <<p>>]
      /\ UNCHANGED <<owner, reqStatus, agreed>>
      /\ <<p>> \in Seq(Proposal) /\ <<p>> # << >>
  BY <1>1 DEF OfferEffect
<1> HIDE DEF p
<1>4. RowsTyped'
  BY <1>1, <1>3, LoggedType DEF IInv, TypeOK, RowsTyped, OfferEffect, NegotiationStatus
<1>5. OwnRows(w)
  BY <1>1, <1>2, <1>3 DEF IInv, TypeOK, OwnRows
<1>6. RowsInv'
  <2>1. OneWinner'
    BY <1>1, <1>2, <1>3 DEF IInv, TypeOK, RowsInv, OneWinner, Siblings
  <2>2. ClosedSettled'
    <3>1. \A m \in Negs : negStatus'[m] = IF m = n THEN "active" ELSE negStatus[m]
      BY <1>3 DEF IInv, TypeOK
    <3> SUFFICES ASSUME NEW m \in Negs
                 PROVE  /\ negStatus'[m] = "accepted" => reqStatus'[RequestOf(m)] = "closed"
                        /\ reqStatus'[RequestOf(m)] = "closed" =>
                              /\ negStatus'[m] # "active"
                              /\ \E x \in {m} \cup Siblings(m) : negStatus'[x] = "accepted"
      BY DEF ClosedSettled
    <3>2. CASE m = n
      BY <1>2, <1>3, <3>1, <3>2
    <3>3. CASE m # n
      <4>1. /\ negStatus[m] = "accepted" => reqStatus[RequestOf(m)] = "closed"
            /\ reqStatus[RequestOf(m)] = "closed" =>
                  /\ negStatus[m] # "active"
                  /\ \E x \in {m} \cup Siblings(m) : negStatus[x] = "accepted"
        BY DEF IInv, RowsInv, ClosedSettled
      <4>2. \A x \in {m} \cup Siblings(m) :
              negStatus[x] = "accepted" => negStatus'[x] = "accepted"
        BY <1>2, <3>1 DEF Siblings
      <4> QED BY <1>3, <3>1, <3>3, <4>1, <4>2
    <3> QED BY <3>2, <3>3
  <2>3. ForeignKeyInv' /\ ChainInv'
    BY <1>1, <1>2, <1>3 DEF IInv, TypeOK, RowsInv, ForeignKeyInv, ChainInv
  <2>4. AgreedIsLast'
    BY <1>1, <1>2, <1>3 DEF IInv, TypeOK, RowsInv, AgreedIsLast
  <2> QED BY <2>1, <2>2, <2>3, <2>4 DEF RowsInv
<1> QED BY <1>4, <1>5, <1>6

LEMMA RejectEffectStep ==
    ASSUME IInv, NEW w \in Workers, pc[w] = "commit", call[w].kind = "reject", RejectEffect(w),
           \A k \in Keys : keyLock[k] # w => keys'[k] = keys[k]
    PROVE  RowsTyped' /\ RowsInv' /\ OwnRows(w)
<1> DEFINE n == call[w].neg
<1>1. n \in Negs /\ negLock[n] = w /\ negStatus[n] = "active"
  BY AtCommit, CallParts DEF DecisionHolds, Decision, IsActive
<1>2. /\ negStatus' = [negStatus EXCEPT ![n] = "rejected"]
      /\ UNCHANGED <<owner, reqStatus, chain, agreed>>
  BY DEF RejectEffect
<1>3. RowsTyped'
  BY <1>1, <1>2, LoggedType DEF IInv, TypeOK, RowsTyped, RejectEffect, NegotiationStatus
<1>4. OwnRows(w)
  BY <1>1, <1>2 DEF IInv, TypeOK, OwnRows
<1>5. RowsInv'
  <2>1. OneWinner'
    BY <1>1, <1>2 DEF IInv, TypeOK, RowsInv, OneWinner, Siblings
  <2>2. ClosedSettled'
    <3>1. \A m \in Negs :
            /\ (negStatus'[m] = "accepted") <=> (negStatus[m] = "accepted")
            /\ (negStatus'[m] = "active") => (negStatus[m] = "active")
      BY <1>1, <1>2 DEF IInv, TypeOK
    <3>2. \A m \in Negs : {m} \cup Siblings(m) \subseteq Negs
      BY DEF Siblings
    <3> SUFFICES ASSUME NEW m \in Negs
                 PROVE  /\ negStatus'[m] = "accepted" => reqStatus[RequestOf(m)] = "closed"
                        /\ reqStatus[RequestOf(m)] = "closed" =>
                              /\ negStatus'[m] # "active"
                              /\ \E x \in {m} \cup Siblings(m) : negStatus'[x] = "accepted"
      BY <1>2 DEF ClosedSettled
    <3>3. /\ negStatus[m] = "accepted" => reqStatus[RequestOf(m)] = "closed"
          /\ reqStatus[RequestOf(m)] = "closed" =>
                /\ negStatus[m] # "active"
                /\ \E x \in {m} \cup Siblings(m) : negStatus[x] = "accepted"
      BY DEF IInv, RowsInv, ClosedSettled
    <3>4. ASSUME NEW x \in {m} \cup Siblings(m), negStatus[x] = "accepted"
          PROVE  negStatus'[x] = "accepted"
      BY <3>1, <3>2, <3>4
    <3> QED BY <3>1, <3>3, <3>4
  <2>3. ForeignKeyInv' /\ ChainInv'
    BY <1>1, <1>2 DEF IInv, TypeOK, RowsInv, ForeignKeyInv, ChainInv
  <2>4. AgreedIsLast'
    BY <1>1, <1>2 DEF IInv, TypeOK, RowsInv, AgreedIsLast
  <2> QED BY <2>1, <2>2, <2>3, <2>4 DEF RowsInv
<1> QED BY <1>3, <1>4, <1>5

LEMMA CounterEffectStep ==
    ASSUME IInv, NEW w \in Workers, pc[w] = "commit", call[w].kind = "counter", CounterEffect(w),
           \A k \in Keys : keyLock[k] # w => keys'[k] = keys[k]
    PROVE  RowsTyped' /\ RowsInv' /\ OwnRows(w)
<1> DEFINE n == call[w].neg
           p == NewProposal(call[w].user, call[w].amount, seen[w].currency)
<1>1. n \in Negs /\ negLock[n] = w /\ negStatus[n] = "active"
  BY AtCommit, CallParts DEF DecisionHolds, Decision, IsActive
<1>2. chain[n] \in Seq(Proposal) /\ chain[n] # << >> /\ seen[w] = LastProposal(chain[n])
  BY <1>1, AtCommit DEF IInv, TypeOK, RowsInv, ChainInv, DecisionHolds, Decision
<1>3. p \in Proposal
  <2>1. seen[w] \in Proposal
    BY <1>2 DEF LastProposal
  <2> QED BY <2>1, AtCommit, CallParts DEF NewProposal, Proposal
<1>4. /\ chain' = [chain EXCEPT ![n] = Append(chain[n], p)]
      /\ UNCHANGED <<owner, reqStatus, negStatus, agreed>>
      /\ Append(chain[n], p) \in Seq(Proposal) /\ Append(chain[n], p) # << >>
  <2>1. /\ chain' = [chain EXCEPT ![n] = Append(chain[n], p)]
        /\ UNCHANGED <<owner, reqStatus, negStatus, agreed>>
    BY DEF CounterEffect
  <2> HIDE DEF p
  <2>2. Append(chain[n], p) \in Seq(Proposal) /\ Append(chain[n], p) # << >>
    BY <1>2, <1>3
  <2> QED BY <2>1, <2>2
<1> HIDE DEF p
<1>5. RowsTyped'
  BY <1>1, <1>4, LoggedType DEF IInv, TypeOK, RowsTyped, CounterEffect
<1>6. OwnRows(w)
  BY <1>1, <1>4 DEF IInv, TypeOK, OwnRows
<1>7. RowsInv'
  <2>1. OneWinner'
    BY <1>1, <1>4 DEF IInv, TypeOK, RowsInv, OneWinner, Siblings
  <2>2. ClosedSettled'
    BY <1>1, <1>4, NegParts DEF IInv, TypeOK, RowsInv, ClosedSettled, Siblings
  <2>3. ForeignKeyInv' /\ ChainInv'
    BY <1>1, <1>4 DEF IInv, TypeOK, RowsInv, ForeignKeyInv, ChainInv
  <2>4. AgreedIsLast'
    BY <1>1, <1>4 DEF IInv, TypeOK, RowsInv, AgreedIsLast
  <2> QED BY <2>1, <2>2, <2>3, <2>4 DEF RowsInv
<1> QED BY <1>5, <1>6, <1>7

LEMMA AcceptEffectStep ==
    ASSUME IInv, NEW w \in Workers, pc[w] = "commit", call[w].kind = "accept", AcceptEffect(w),
           \A k \in Keys : keyLock[k] # w => keys'[k] = keys[k]
    PROVE  RowsTyped' /\ RowsInv' /\ OwnRows(w)
<1> DEFINE n == call[w].neg
           r == RequestOf(n)
<1>1. /\ n \in Negs /\ r \in Requests
      /\ negLock[n] = w /\ negStatus[n] = "active" /\ reqLock[r] = w
  BY AtCommit, CallParts, NegParts DEF DecisionHolds, SiblingsHold, Decision, IsActive
<1>2. /\ sibs[w] \subseteq Siblings(n)
      /\ \A m \in sibs[w] : negStatus[m] \in {"active", "rejected"} /\ negLock[m] = w
      /\ \A m \in Siblings(n) : negStatus[m] = "active" => m \in sibs[w]
  BY <1>1, AtCommit DEF SiblingsHold, IsActive
<1>3. /\ chain[n] \in Seq(Proposal) /\ chain[n] # << >>
      /\ seen[w] = LastProposal(chain[n]) /\ seen[w].amount \in Amounts
  <2>1. chain[n] \in Seq(Proposal) /\ chain[n] # << >> /\ seen[w] = LastProposal(chain[n])
    BY <1>1, AtCommit DEF IInv, TypeOK, RowsInv, ChainInv, DecisionHolds, Decision
  <2>2. seen[w] \in Proposal
    BY <2>1 DEF LastProposal
  <2> QED BY <2>1, <2>2 DEF Proposal
<1>4. /\ agreed' = [agreed EXCEPT ![n] = seen[w].amount]
      /\ reqStatus' = [reqStatus EXCEPT ![r] = "closed"]
      /\ UNCHANGED <<owner, chain>>
  BY DEF AcceptEffect
<1>5. \A m \in Negs :
        negStatus'[m] = IF m = n THEN "accepted"
                        ELSE IF m \in sibs[w] THEN "rejected" ELSE negStatus[m]
  BY DEF AcceptEffect, Settled
<1>6. RowsTyped'
  <2>1. negStatus' \in [Negs -> NegotiationStatus]
    BY <1>1 DEF AcceptEffect, Settled, IInv, TypeOK, NegotiationStatus
  <2>2. audit' \in [AuditEntry -> Nat]
    BY LoggedType DEF AcceptEffect, IInv
  <2> QED BY <1>1, <1>3, <1>4, <2>1, <2>2 DEF IInv, TypeOK, RowsTyped, RequestStatus
<1>7. \A m \in Negs : m \in sibs[w] => RequestOf(m) = r /\ m # n
  BY <1>2 DEF Siblings
<1>8. OwnRows(w)
  BY <1>1, <1>2, <1>4, <1>5, <1>7 DEF IInv, TypeOK, OwnRows
\* The request was open, so no thread of it was accepted.
<1>9. \A m \in Negs : RequestOf(m) = r => negStatus[m] # "accepted"
  BY <1>1 DEF IInv, RowsInv, ClosedSettled
<1>10. \A m \in Negs : RequestOf(m) = r => (m = n \/ m \in Siblings(n))
  BY DEF Siblings
<1>11. RowsInv'
  <2>1. OneWinner'
    BY <1>5, <1>7, <1>9 DEF IInv, RowsInv, OneWinner, Siblings
  <2>2. ClosedSettled'
    <3> SUFFICES ASSUME NEW m \in Negs
                 PROVE  /\ negStatus'[m] = "accepted" => reqStatus'[RequestOf(m)] = "closed"
                        /\ reqStatus'[RequestOf(m)] = "closed" =>
                              /\ negStatus'[m] # "active"
                              /\ \E x \in {m} \cup Siblings(m) : negStatus'[x] = "accepted"
      BY DEF ClosedSettled
    <3>1. CASE RequestOf(m) = r
      <4>1. reqStatus'[RequestOf(m)] = "closed" /\ negStatus'[m] # "active"
        BY <1>1, <1>2, <1>4, <1>5, <1>10, <3>1 DEF IInv, TypeOK
      <4>2. n \in {m} \cup Siblings(m) /\ negStatus'[n] = "accepted"
        BY <1>1, <1>5, <3>1 DEF Siblings
      <4> QED BY <4>1, <4>2
    <3>2. CASE RequestOf(m) # r
      <4>1. \A x \in {m} \cup Siblings(m) : x \in Negs /\ negStatus'[x] = negStatus[x]
        BY <1>5, <1>7, <3>2 DEF Siblings
      <4>2. reqStatus'[RequestOf(m)] = reqStatus[RequestOf(m)]
        BY <1>4, <3>2, NegParts DEF IInv, TypeOK
      <4>3. /\ negStatus[m] = "accepted" => reqStatus[RequestOf(m)] = "closed"
            /\ reqStatus[RequestOf(m)] = "closed" =>
                  /\ negStatus[m] # "active"
                  /\ \E x \in {m} \cup Siblings(m) : negStatus[x] = "accepted"
        BY DEF IInv, RowsInv, ClosedSettled
      <4> QED BY <4>1, <4>2, <4>3
    <3> QED BY <3>1, <3>2
  <2>3. ForeignKeyInv'
    <3>1. \A x \in Requests : reqStatus[x] # "none" => reqStatus'[x] # "none"
      BY <1>4 DEF IInv, TypeOK
    <3>2. \A m \in Negs : negStatus'[m] # "none" => negStatus[m] # "none"
      BY <1>1, <1>2, <1>5
    <3> QED BY <3>1, <3>2, NegParts DEF IInv, RowsInv, ForeignKeyInv
  <2>4. ChainInv'
    BY <1>1, <1>2, <1>4, <1>5 DEF IInv, RowsInv, ChainInv
  <2>5. AgreedIsLast'
    BY <1>1, <1>2, <1>3, <1>4, <1>5, <1>7 DEF IInv, TypeOK, RowsInv, AgreedIsLast
  <2> QED BY <2>1, <2>2, <2>3, <2>4, <2>5 DEF RowsInv
<1> QED BY <1>6, <1>8, <1>11

LEMMA CommitStep ==
    ASSUME IInv, NEW w \in Workers, Commit(w)
    PROVE  TypeOK' /\ RowsInv' /\ OthersKeep(w) /\ OwnRows(w) /\ WorkerInv(w)'
<1>1. RowsTyped' /\ RowsInv' /\ OwnRows(w)
  BY CommitKeys, CreateEffectStep, OfferEffectStep, AcceptEffectStep, RejectEffectStep,
     CounterEffectStep DEF Commit, Effect
<1>2. End(w, "ok") /\ "ok" \in Outcome
  BY DEF Commit, Outcome
<1>3. TypeOK' /\ OthersKeep(w) /\ WorkerInv(w)'
  BY <1>1, <1>2, CommitKeys, EndLemma DEF IInv, TypeOK, RowsTyped
<1> QED BY <1>1, <1>3

-----------------------------------------------------------------------------
(* The theorems.                                                           *)

LEMMA InitInv == Init => IInv
<1> SUFFICES ASSUME Init PROVE IInv
  OBVIOUS
<1>1. TypeOK
  BY DEF Init, TypeOK, RequestStatus, NegotiationStatus, PC
<1>2. RowsInv
  BY NegParts DEF Init, RowsInv, OneWinner, ClosedSettled, ForeignKeyInv, ChainInv, AgreedIsLast
<1>3. \A w \in Workers : WorkerInv(w)
  BY NullAssumption DEF Init, WorkerInv, CallFits, DecisionHolds, SiblingsHold, SiblingChosen,
     OfferHolds, CreateHolds, KeyHolds, InTransaction
<1> QED BY <1>1, <1>2, <1>3 DEF IInv

\* A worker whose transaction ends early leaves the rows as they were.
LEMMA FailsStep ==
    ASSUME IInv, NEW w \in Workers,
           \/ LookupHit(w) \/ OfferRefused(w) \/ LoadRefused(w)
           \/ UniqueViolation(w) \/ Abort(w) \/ DeadlockVictim(w)
    PROVE  TypeOK' /\ RowsInv' /\ OthersKeep(w) /\ OwnRows(w) /\ WorkerInv(w)'
<1>1. PICK o \in Outcome : End(w, o) /\ UNCHANGED <<tables, keys>>
  BY DEF LookupHit, OfferRefused, LoadRefused, UniqueViolation, Abort, DeadlockVictim,
     Outcome, Refusal
<1> QED BY <1>1, FailStep DEF IInv

\* What Next does for one worker.
Step(w) ==
    \/ \E c \in Calls : Receive(w, c)
    \/ Waiting(w) \/ Running(w) \/ DeadlockVictim(w) \/ Abort(w)

LEMMA StepOf ==
    ASSUME IInv, NEW w \in Workers, Step(w)
    PROVE  TypeOK' /\ RowsInv' /\ OthersKeep(w) /\ OwnRows(w) /\ WorkerInv(w)'
<1>1. CASE \E c \in Calls : Receive(w, c)
  BY <1>1, ReceiveStep
<1>2. CASE Waiting(w)
  BY <1>2, FailsStep, OfferOnRequestStep, InsertNegotiationStep, LoadActiveStep,
     CloseRequestStep, SupersedeSiblingStep, SaveKeyStep DEF Waiting
<1>3. CASE Running(w)
  BY <1>3, FailsStep, CreateRequestStep, LookupMissStep, CommitStep DEF Running
<1>4. CASE DeadlockVictim(w) \/ Abort(w)
  BY <1>4, FailsStep
<1> QED BY <1>1, <1>2, <1>3, <1>4 DEF Step

LEMMA NextInv == IInv /\ [Next]_vars => IInv'
<1> SUFFICES ASSUME IInv, [Next]_vars PROVE IInv'
  OBVIOUS
<1>1. CASE UNCHANGED vars
  BY <1>1 DEF vars, tables, locks, reads, IInv, TypeOK, RowsInv, OneWinner, ClosedSettled,
     ForeignKeyInv, ChainInv, AgreedIsLast, WorkerInv, CallFits, DecisionHolds, SiblingsHold,
     SiblingChosen, OfferHolds, CreateHolds, KeyHolds, IsActive, Party, MyTurn, KeyUnused
<1>2. CASE Next
  <2>1. PICK w \in Workers : Step(w)
    BY <1>2 DEF Next, Step
  <2>2. ASSUME NEW v \in Workers PROVE WorkerInv(v)'
    BY <2>1, StepOf, OthersKeepInv DEF IInv
  <2> QED BY <2>1, <2>2, StepOf DEF IInv
<1> QED BY <1>1, <1>2

\* IInv holds of every run, whatever the number of workers.
THEOREM Invariance == Spec => []IInv
BY InitInv, NextInv, PTL DEF Spec
=============================================================================
