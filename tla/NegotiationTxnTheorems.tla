----------------------- MODULE NegotiationTxnTheorems -----------------------
(***************************************************************************)
(* What follows from the invariant: the safety properties that the runs    *)
(* check on small instances, for every set of users, requests, prices,     *)
(* workers and keys, and that the transactions implement Negotiation.      *)
(***************************************************************************)
EXTENDS NegotiationTxnProofs

\* The variables keep their types.
THEOREM TypeCorrect == Spec => []TypeOK
BY Invariance, PTL DEF IInv

\* However the accepts on the threads of a request interleave, fail or are
\* aborted as deadlock victims, at most one of them succeeds.
THEOREM OneWinnerAlways == Spec => []OneWinner
<1>1. IInv => OneWinner
  BY DEF IInv, RowsInv
<1> QED BY <1>1, Invariance, PTL

\* A request is closed exactly when one of its threads is accepted, and no
\* thread of it is then left active.
THEOREM ClosedSettledAlways == Spec => []ClosedSettled
<1>1. IInv => ClosedSettled
  BY DEF IInv, RowsInv
<1> QED BY <1>1, Invariance, PTL

\* The agreed price is that of the last proposal of the accepted thread.
THEOREM AgreedIsLastAlways == Spec => []AgreedIsLast
<1>1. IInv => AgreedIsLast
  BY DEF IInv, RowsInv
<1> QED BY <1>1, Invariance, PTL

\* What make_offer checked is still so when it inserts: a duplicate offer never
\* reaches the unique constraint.
THEOREM OfferCheckAlwaysHolds == Spec => []OfferCheckHolds
<1>1. IInv => OfferCheckHolds
  BY DEF IInv, WorkerInv, CallFits, OfferHolds, OfferCheckHolds
<1> QED BY <1>1, Invariance, PTL

\* No effect is committed under a key that already has one.
THEOREM KeyedEffectOnceAlways == Spec => KeyedEffectOnce
<1>1. IInv => [\A w \in Workers :
                 pc[w] = "commit" /\ pc'[w] = "ok" /\ call[w].key # Null =>
                     keys[call[w].key] = Null]_vars
  BY DEF IInv, WorkerInv, KeyHolds, KeyUnused
<1> QED BY <1>1, Invariance, PTL DEF KeyedEffectOnce

-----------------------------------------------------------------------------
\* Only a commit changes the committed rows.
LEMMA OnlyCommit ==
    ASSUME Next
    PROVE  UNCHANGED tables \/ \E w \in Workers : Commit(w)
BY DEF Next, Waiting, Running, Receive, LookupHit, LookupMiss, CreateRequest, OfferRefused,
   OfferOnRequest, InsertNegotiation, LoadRefused, LoadActiveForResponse, CloseRequest,
   SupersedeSibling, SaveKey, UniqueViolation, DeadlockVictim, Abort

\* A commit changes no thread that is accepted or rejected.
LEMMA CommitFrozen ==
    ASSUME IInv, NEW w \in Workers, Commit(w), NEW n \in Negs, negStatus[n] \in Terminal
    PROVE  negStatus'[n] = negStatus[n] /\ agreed'[n] = agreed[n] /\ chain'[n] = chain[n]
<1> USE DEF IInv, TypeOK, Terminal
<1>1. pc[w] = "commit" /\ Effect(w)
  BY DEF Commit
<1>2. CASE call[w].kind = "create" /\ CreateEffect(w)
  BY <1>2 DEF CreateEffect
<1>3. CASE call[w].kind = "offer" /\ OfferEffect(w)
  <2>1. call[w].neg # n
    BY <1>1, <1>3, AtCommit DEF OfferHolds
  <2> QED BY <1>3, <2>1 DEF OfferEffect
<1>4. CASE call[w].kind \in Decision
  <2>1. call[w].neg # n
    BY <1>1, <1>4, AtCommit DEF DecisionHolds, IsActive
  <2>2. CASE call[w].kind = "accept" /\ AcceptEffect(w)
    <3>1. n \in sibs[w] => negStatus[n] = "rejected"
      BY <1>1, <2>2, AtCommit DEF SiblingsHold
    <3> QED BY <2>1, <2>2, <3>1 DEF AcceptEffect, Settled
  <2>3. CASE call[w].kind = "reject" /\ RejectEffect(w)
    BY <2>1, <2>3 DEF RejectEffect
  <2>4. CASE call[w].kind = "counter" /\ CounterEffect(w)
    BY <2>1, <2>4 DEF CounterEffect
  <2> QED BY <1>1, <1>4, <2>2, <2>3, <2>4 DEF Effect, Decision
<1> QED BY <1>1, <1>2, <1>3, <1>4 DEF Effect, Decision

\* An accepted or rejected thread keeps its status, its price and its chain,
\* though an accept rewrites the status of siblings it has read as active.
THEOREM TerminalFrozenAlways == Spec => TerminalFrozen
<1>1. IInv /\ [Next]_vars =>
        [\A n \in Negs : negStatus[n] \in Terminal =>
            /\ negStatus'[n] = negStatus[n]
            /\ agreed'[n] = agreed[n]
            /\ chain'[n] = chain[n]]_vars
  BY OnlyCommit, CommitFrozen DEF vars, tables
<1> QED BY <1>1, Invariance, PTL DEF Spec, TerminalFrozen

-----------------------------------------------------------------------------
(* The refinement.                                                         *)

\* The instance has its own copies of the operators of NegotiationData.
LEMMA AbstractData ==
    /\ Abstract!Negs = Negs
    /\ Abstract!Users = Users
    /\ \A n : /\ Abstract!RequestOf(n) = RequestOf(n)
             /\ Abstract!SupplierOf(n) = SupplierOf(n)
             /\ Abstract!Siblings(n) = Siblings(n)
    /\ \A c, n : Abstract!Participants(c, n) = Participants(c, n)
    /\ \A c : Abstract!LastProposal(c) = LastProposal(c)
    /\ \A u, a, cur : Abstract!NewProposal(u, a, cur) = NewProposal(u, a, cur)
    /\ \A m, n, l, old : Abstract!Settled(m, n, l, old) = Settled(m, n, l, old)
BY DEF Abstract!Negs, Abstract!Users, Abstract!RequestOf, Abstract!SupplierOf,
   Abstract!Siblings, Abstract!Participants, Abstract!LastProposal, Abstract!NewProposal,
   Abstract!Settled, Negs, Users, RequestOf, SupplierOf, Siblings, Participants,
   LastProposal, NewProposal, Settled

LEMMA CommitImplements ==
    ASSUME IInv, NEW w \in Workers, Commit(w)
    PROVE  Abstract!Next
<1> USE AbstractData DEF IInv, TypeOK
<1>1. pc[w] = "commit" /\ Effect(w) /\ call[w] \in Calls
  BY AtCommit DEF Commit
<1>2. CASE call[w].kind = "create" /\ CreateEffect(w)
  <2>1. PICK r \in Requests :
          /\ reqLock[r] = w
          /\ owner' = [owner EXCEPT ![r] = call[w].user]
          /\ reqStatus' = [reqStatus EXCEPT ![r] = "open"]
          /\ UNCHANGED <<negStatus, chain, agreed>>
    BY <1>2 DEF CreateEffect
  <2>2. reqStatus[r] = "none" /\ call[w].user \in Clients
    BY <1>1, <1>2, <2>1, AtCommit, CallParts DEF CreateHolds
  <2>3. Abstract!CreateRequest(call[w].user, r)
    BY <2>1, <2>2 DEF Abstract!CreateRequest
  <2> QED BY <2>2, <2>3 DEF Abstract!Next
<1>3. CASE call[w].kind = "offer" /\ OfferEffect(w)
  <2> DEFINE n == call[w].neg
             s == call[w].user
             r == RequestOf(n)
  <2>1. /\ n = <<r, s>> /\ r \in Requests /\ s \in Suppliers
        /\ call[w].amount \in Amounts /\ call[w].currency \in Currencies
    BY <1>1, <1>3, CallParts DEF Negs, RequestOf, SupplierOf
  <2>2. reqStatus[r] = "open" /\ negStatus[n] = "none"
    BY <1>1, <1>3, AtCommit DEF OfferHolds
  <2>3. Abstract!MakeOffer(s, r, call[w].amount, call[w].currency)
    BY <1>3, <2>1, <2>2 DEF Abstract!MakeOffer, OfferEffect
  <2> QED BY <2>1, <2>3 DEF Abstract!Next
<1>4. CASE call[w].kind \in Decision
  <2> DEFINE n == call[w].neg
             u == call[w].user
  <2>1. n \in Negs /\ u \in Users
    BY <1>1, <1>4, CallParts
  <2>2. Abstract!Answerable(u, n) /\ seen[w] = LastProposal(chain[n])
    BY <1>1, <1>4, AtCommit DEF DecisionHolds, Abstract!Answerable, IsActive, Party, MyTurn
  <2>3. CASE call[w].kind = "accept" /\ AcceptEffect(w)
    <3> DEFINE losers == {m \in Siblings(n) : negStatus[m] = "active"}
    <3>1. /\ sibs[w] \subseteq Siblings(n)
          /\ \A m \in sibs[w] : negStatus[m] \in {"active", "rejected"}
          /\ losers \subseteq sibs[w]
      BY <1>1, <2>3, AtCommit DEF SiblingsHold, IsActive
    <3>2. \A m \in Negs : Settled(m, n, sibs[w], negStatus[m]) = Settled(m, n, losers, negStatus[m])
      BY <3>1 DEF Settled
    <3>3. negStatus' = [m \in Negs |-> Settled(m, n, losers, negStatus[m])]
      BY <2>3, <3>2 DEF AcceptEffect
    <3>4. Abstract!Accept(u, n)
      BY <2>2, <2>3, <3>3 DEF AcceptEffect, Abstract!Accept
    <3> QED BY <2>1, <3>4 DEF Abstract!Next
  <2>4. CASE call[w].kind = "reject" /\ RejectEffect(w)
    <3>1. Abstract!Reject(u, n)
      BY <2>2, <2>4 DEF RejectEffect, Abstract!Reject
    <3> QED BY <2>1, <3>1 DEF Abstract!Next
  <2>5. CASE call[w].kind = "counter" /\ CounterEffect(w)
    <3>1. call[w].amount \in Amounts
      BY <1>1, <2>5, CallParts
    <3>2. Abstract!Counter(u, n, call[w].amount)
      BY <2>1, <2>2, <2>5 DEF CounterEffect, Abstract!Counter
    <3> QED BY <2>1, <3>1, <3>2 DEF Abstract!Next
  <2> QED BY <1>1, <1>4, <2>3, <2>4, <2>5 DEF Effect, Decision
<1> QED BY <1>1, <1>2, <1>3, <1>4 DEF Effect, Decision

\* Every commit is one step of the promised service, on the committed rows; all
\* other steps are invisible to it.
THEOREM Implementation == Spec => ImplementsNegotiation
<1>1. Init => Abstract!Init
  BY AbstractData DEF Init, Abstract!Init
<1>2. IInv /\ [Next]_vars => [Abstract!Next]_(Abstract!vars)
  BY OnlyCommit, CommitImplements DEF vars, tables, Abstract!vars
<1> QED BY <1>1, <1>2, Invariance, PTL DEF Spec, ImplementsNegotiation, Abstract!Spec

-----------------------------------------------------------------------------
(* The chain of a thread.                                                  *)

\* The parties s and o take turns in c, s first, and keep its currency.
TakesTurns(c, s, o) ==
    \A i \in 1 .. Len(c) :
        /\ c[i].actor = IF i % 2 = 1 THEN s ELSE o
        /\ c[i].currency = c[1].currency

LEMMA TurnsOfChains ==
    TurnsAlternate <=> \A n \in Negs : TakesTurns(chain[n], SupplierOf(n), owner[RequestOf(n)])
BY DEF TurnsAlternate, TakesTurns

\* A proposal of the party whose turn it is, in the same currency.
LEMMA TurnTaken ==
    ASSUME NEW c \in Seq(Proposal), c # << >>, NEW s, NEW o, TakesTurns(c, s, o),
           NEW p \in Proposal, p.actor \in {s, o},
           p.actor # LastProposal(c).actor, p.currency = LastProposal(c).currency
    PROVE  TakesTurns(Append(c, p), s, o)
<1> DEFINE l == Len(c)
           d == Append(c, p)
<1>1. l \in Nat /\ l >= 1
  <2>1. l \in Nat /\ l # 0
    OBVIOUS
  <2> HIDE DEF l
  <2> QED BY <2>1
<1>2. Len(d) = l + 1 /\ d[l + 1] = p /\ \A i \in 1 .. l : d[i] = c[i]
  OBVIOUS
<1>3. \A i \in 1 .. l : /\ c[i].actor = IF i % 2 = 1 THEN s ELSE o
                       /\ c[i].currency = c[1].currency
  BY DEF TakesTurns
<1>4. p.actor # c[l].actor /\ p.currency = c[l].currency
  BY DEF LastProposal
<1>5. \A i \in 1 .. Len(d) : /\ d[i].actor = IF i % 2 = 1 THEN s ELSE o
                            /\ d[i].currency = d[1].currency
  <2> HIDE DEF l, d
  <2>1. p.actor = IF (l + 1) % 2 = 1 THEN s ELSE o
    <3>1. (l + 1) % 2 = 1 <=> l % 2 # 1
      BY <1>1
    <3>2. c[l].actor = IF l % 2 = 1 THEN s ELSE o
      BY <1>1, <1>3
    <3> QED BY <1>4, <3>1, <3>2
  <2>2. p.currency = c[1].currency /\ d[1] = c[1]
    BY <1>1, <1>2, <1>3, <1>4
  <2>3. \A i \in 1 .. l + 1 : i \in 1 .. l \/ i = l + 1
    BY <1>1
  <2> QED BY <1>2, <1>3, <2>1, <2>2, <2>3
<1> QED BY <1>5 DEF TakesTurns

LEMMA CommitTurns ==
    ASSUME IInv, TurnsAlternate, NEW w \in Workers, Commit(w)
    PROVE  TurnsAlternate'
<1> USE DEF IInv, TypeOK
<1> SUFFICES ASSUME NEW n \in Negs
             PROVE  TakesTurns(chain'[n], SupplierOf(n), owner'[RequestOf(n)])
  BY DEF TurnsAlternate, TakesTurns
<1>1. pc[w] = "commit" /\ Effect(w) /\ call[w] \in Calls
  BY AtCommit DEF Commit
<1>2. TakesTurns(chain[n], SupplierOf(n), owner[RequestOf(n)])
  BY TurnsOfChains
<1>3. CASE call[w].kind = "create" /\ CreateEffect(w)
  <2>1. PICK r \in Requests :
          /\ reqLock[r] = w
          /\ owner' = [owner EXCEPT ![r] = call[w].user]
          /\ chain' = chain
    BY <1>3 DEF CreateEffect
  <2>2. reqStatus[r] = "none"
    BY <1>1, <1>3, <2>1, AtCommit DEF CreateHolds
  <2>3. CASE RequestOf(n) = r
    <3>1. chain[n] = << >>
      BY <2>2, <2>3 DEF RowsInv, ForeignKeyInv, ChainInv
    <3> QED BY <2>1, <3>1 DEF TakesTurns
  <2>4. CASE RequestOf(n) # r
    BY <1>2, <2>1, <2>4, NegParts
  <2> QED BY <2>3, <2>4
<1>4. CASE call[w].kind = "offer" /\ OfferEffect(w)
  <2> DEFINE p == NewProposal(call[w].user, call[w].amount, call[w].currency)
  <2>1. p.actor = SupplierOf(call[w].neg)
    BY <1>1, <1>4, CallParts DEF NewProposal
  <2>2. chain' = [chain EXCEPT ![call[w].neg] = <<p>>] /\ owner' = owner
    BY <1>4 DEF OfferEffect
  <2> HIDE DEF p
  <2>3. CASE n = call[w].neg
    <3>1. chain'[n] = <<p>>
      BY <2>2, <2>3
    <3> QED BY <2>1, <2>3, <3>1 DEF TakesTurns
  <2>4. CASE n # call[w].neg
    BY <1>2, <2>2, <2>4
  <2> QED BY <2>3, <2>4
<1>5. CASE call[w].kind = "counter" /\ CounterEffect(w)
  <2> DEFINE p == NewProposal(call[w].user, call[w].amount, seen[w].currency)
  <2>1. chain' = [chain EXCEPT ![call[w].neg] = Append(chain[call[w].neg], p)] /\ owner' = owner
    BY <1>5 DEF CounterEffect
  <2>2. CASE n = call[w].neg
    <3>1. chain[n] \in Seq(Proposal) /\ chain[n] # << >>
      BY <1>1, <1>5, <2>2, AtCommit DEF DecisionHolds, Decision, IsActive, RowsInv, ChainInv
    <3>2. /\ call[w].user \in {owner[RequestOf(n)], SupplierOf(n)}
          /\ LastProposal(chain[n]).actor # call[w].user
          /\ seen[w] = LastProposal(chain[n])
      BY <1>1, <1>5, <2>2, AtCommit DEF DecisionHolds, Decision, Party, MyTurn, Participants
    <3>3. p \in Proposal /\ p.actor = call[w].user /\ p.currency = seen[w].currency
      <4>1. seen[w] \in Proposal
        BY <3>1, <3>2 DEF LastProposal
      <4> QED BY <1>1, <1>5, <4>1, CallParts DEF NewProposal, Proposal
    <3>4. TakesTurns(Append(chain[n], p), SupplierOf(n), owner[RequestOf(n)])
      <4> HIDE DEF p
      <4> QED BY <1>2, <3>1, <3>2, <3>3, TurnTaken
    <3> QED BY <2>1, <2>2, <3>4
  <2>3. CASE n # call[w].neg
    BY <1>2, <2>1, <2>3
  <2> QED BY <2>2, <2>3
<1>6. CASE AcceptEffect(w) \/ RejectEffect(w)
  BY <1>2, <1>6 DEF AcceptEffect, RejectEffect
<1> QED BY <1>1, <1>3, <1>4, <1>5, <1>6 DEF Effect

\* In every chain the supplier and the client take turns, the supplier first,
\* in the currency of the offer: whoever counters twice from two tabs, one of
\* the two transactions finds that it is not the user's turn.
THEOREM TurnsAlternateAlways == Spec => []TurnsAlternate
<1>1. Init => TurnsAlternate
  BY DEF Init, TurnsAlternate
<1>2. IInv /\ TurnsAlternate /\ [Next]_vars => TurnsAlternate'
  BY OnlyCommit, CommitTurns DEF vars, tables, TurnsAlternate
<1> QED BY <1>1, <1>2, Invariance, PTL DEF Spec

-----------------------------------------------------------------------------
(* The audit trail.                                                        *)

\* What Logged adds to the number of rows of a thread or of a request.
LEMMA LoggedRows ==
    ASSUME TypeOK, NEW entries, Logged(entries)
    PROVE  /\ \A r \in Requests :
                audit'[<<r, "request.created">>] = audit[<<r, "request.created">>]
                    + IF <<r, "request.created">> \in entries THEN 1 ELSE 0
           /\ \A n \in Negs, a \in AuditActions :
                /\ audit[<<n, a>>] \in Nat
                /\ audit'[<<n, a>>] = audit[<<n, a>>]
                      + IF <<n, a>> \in entries THEN 1 ELSE 0
<1>1. ASSUME NEW e \in AuditEntry
      PROVE  audit[e] \in Nat /\ audit'[e] = audit[e] + IF e \in entries THEN 1 ELSE 0
  BY DEF TypeOK, Logged
<1>2. \A r \in Requests : <<r, "request.created">> \in AuditEntry
  BY DEF AuditEntry
<1>3. \A n \in Negs, a \in AuditActions : <<n, a>> \in AuditEntry
  BY DEF AuditEntry
<1> QED BY <1>1, <1>2, <1>3

\* The numbers that ThreadExplained compares, of a thread with l proposals.
Told(l, status, closed, offers, counters, accepts, rejects, supersedes) ==
    /\ offers + counters = l
    /\ offers = IF status = "none" THEN 0 ELSE 1
    /\ accepts = IF status = "accepted" THEN 1 ELSE 0
    /\ rejects <= 1
    /\ supersedes <= 1
    /\ (rejects + supersedes > 0) <=> (status = "rejected")
    /\ supersedes > 0 => closed

Numbers(n, l, offers, counters, accepts, rejects, supersedes) ==
    /\ l = Len(chain[n])
    /\ offers = audit[<<n, "offer.created">>]
    /\ counters = audit[<<n, "negotiation.countered">>]
    /\ accepts = audit[<<n, "negotiation.accepted">>]
    /\ rejects = audit[<<n, "negotiation.rejected">>]
    /\ supersedes = audit[<<n, "negotiation.superseded">>]

LEMMA NumbersExist ==
    ASSUME TypeOK, NEW n \in Negs
    PROVE  \E l, o, c, a, j, s \in Nat : Numbers(n, l, o, c, a, j, s)
<1>1. \A a \in AuditActions : audit[<<n, a>>] \in Nat
  BY DEF TypeOK, AuditEntry
<1>2. Len(chain[n]) \in Nat
  <2>1. chain[n] \in Seq(Proposal)
    BY DEF TypeOK
  <2> QED BY <2>1
<1> QED BY <1>1, <1>2 DEF Numbers, AuditActions

LEMMA NumbersTell ==
    ASSUME NEW n, NEW l, NEW o, NEW c, NEW a, NEW j, NEW s, Numbers(n, l, o, c, a, j, s)
    PROVE  ThreadExplained(n)
               <=> Told(l, negStatus[n], reqStatus[RequestOf(n)] = "closed", o, c, a, j, s)
BY DEF Numbers, Told, ThreadExplained

LEMMA NumbersTellNext ==
    ASSUME NEW n, NEW l, NEW o, NEW c, NEW a, NEW j, NEW s, Numbers(n, l, o, c, a, j, s)',
           Told(l, negStatus'[n], reqStatus'[RequestOf(n)] = "closed", o, c, a, j, s)
    PROVE  ThreadExplained(n)'
BY DEF Numbers, Told, ThreadExplained

\* A thread whose rows, status and number of proposals are as they were, on a
\* request that is still closed if it was.
LEMMA QuietTrail ==
    ASSUME NEW n \in Negs, ThreadExplained(n),
           \A a \in AuditActions : audit'[<<n, a>>] = audit[<<n, a>>],
           negStatus'[n] = negStatus[n], chain'[n] = chain[n],
           reqStatus[RequestOf(n)] = "closed" => reqStatus'[RequestOf(n)] = "closed"
    PROVE  ThreadExplained(n)'
BY DEF ThreadExplained, AuditActions

LEMMA CreateTrail ==
    ASSUME IInv, AuditExplains, NEW w \in Workers, pc[w] = "commit",
           call[w].kind = "create", CreateEffect(w)
    PROVE  AuditExplains'
<1>1. PICK r \in Requests :
        /\ reqLock[r] = w
        /\ reqStatus' = [reqStatus EXCEPT ![r] = "open"]
        /\ Logged({<<r, "request.created">>})
        /\ UNCHANGED <<negStatus, chain>>
  BY DEF CreateEffect
<1>2. reqStatus[r] = "none"
  BY <1>1, AtCommit DEF CreateHolds
<1>3. ASSUME NEW x \in Requests PROVE RequestExplained(x)'
  <2>1. audit'[<<x, "request.created">>] = audit[<<x, "request.created">>] + IF x = r THEN 1 ELSE 0
    BY <1>1, LoggedRows DEF IInv
  <2>2. RequestExplained(x) /\ reqStatus'[x] = IF x = r THEN "open" ELSE reqStatus[x]
    BY <1>1 DEF AuditExplains, IInv, TypeOK
  <2> QED BY <1>2, <2>1, <2>2 DEF RequestExplained
<1>4. ASSUME NEW n \in Negs PROVE ThreadExplained(n)'
  <2>1. \A a \in AuditActions : audit'[<<n, a>>] = audit[<<n, a>>]
    <3>1. \A a \in AuditActions : <<n, a>> \notin {<<r, "request.created">>}
      BY DEF AuditActions
    <3> QED BY <1>1, <3>1, LoggedRows DEF IInv
  <2>2. reqStatus[RequestOf(n)] = "closed" => reqStatus'[RequestOf(n)] = "closed"
    BY <1>1, <1>2, NegParts DEF IInv, TypeOK
  <2>3. ThreadExplained(n)
    BY DEF AuditExplains
  <2> QED BY <1>1, <2>1, <2>2, <2>3, QuietTrail
<1> QED BY <1>3, <1>4 DEF AuditExplains

\* The other commits write no row of a request, and create none.
LEMMA RequestTrail ==
    ASSUME IInv, AuditExplains, NEW entries, Logged(entries),
           \A e \in entries : e[2] # "request.created",
           \A r \in Requests : (reqStatus'[r] = "none") <=> (reqStatus[r] = "none")
    PROVE  \A r \in Requests : RequestExplained(r)'
<1> TAKE r \in Requests
<1>1. <<r, "request.created">> \notin entries
  OBVIOUS
<1>2. audit'[<<r, "request.created">>] = audit[<<r, "request.created">>]
  <2>1. audit[<<r, "request.created">>] \in Nat
    BY DEF IInv, TypeOK, AuditEntry
  <2> QED BY <1>1, <2>1, LoggedRows DEF IInv
<1> QED BY <1>2 DEF AuditExplains, RequestExplained


LEMMA OfferTrail ==
    ASSUME IInv, AuditExplains, NEW w \in Workers, pc[w] = "commit",
           call[w].kind = "offer", OfferEffect(w)
    PROVE  AuditExplains'
<1> DEFINE n == call[w].neg
           p == NewProposal(call[w].user, call[w].amount, call[w].currency)
<1>1. /\ negStatus' = [negStatus EXCEPT ![n] = "active"]
      /\ chain' = [chain EXCEPT ![n] = <<p>>]
      /\ Logged({<<n, "offer.created">>})
      /\ reqStatus' = reqStatus
  BY DEF OfferEffect
<1> HIDE DEF p
<1>2. n \in Negs /\ negStatus[n] = "none" /\ reqStatus[RequestOf(n)] = "open"
  BY AtCommit, CallParts DEF OfferHolds
<1>3. \A r \in Requests : RequestExplained(r)'
  BY <1>1, RequestTrail
<1>4. ASSUME NEW m \in Negs PROVE ThreadExplained(m)'
  <2>1. ThreadExplained(m)
    BY DEF AuditExplains
  <2>2. \A a \in AuditActions :
          /\ audit[<<m, a>>] \in Nat
          /\ audit'[<<m, a>>] = audit[<<m, a>>] + IF m = n /\ a = "offer.created" THEN 1 ELSE 0
    BY <1>1, LoggedRows DEF IInv
  <2>3. CASE m = n
    <3>1. negStatus'[m] = "active" /\ chain'[m] = <<p>> /\ chain[m] = << >>
      BY <1>1, <1>2, <2>3 DEF IInv, TypeOK, RowsInv, ChainInv
    <3>2. PICK l, o, c, a, j, k \in Nat : Numbers(m, l, o, c, a, j, k)
      BY NumbersExist DEF IInv
    <3>3. Told(l, "none", FALSE, o, c, a, j, k)
      BY <1>2, <2>1, <2>3, <3>2, NumbersTell DEF Told
    <3>4. l = 0 /\ Len(chain'[m]) = 1
      <4>1. Len(<< >>) = 0 /\ Len(<<p>>) = 1
        OBVIOUS
      <4> QED BY <3>1, <3>2, <4>1 DEF Numbers
    <3>5. Numbers(m, 1, o + 1, c, a, j, k)'
      BY <2>2, <2>3, <3>2, <3>4 DEF Numbers, AuditActions
    <3>6. Told(1, negStatus'[m], reqStatus'[RequestOf(m)] = "closed", o + 1, c, a, j, k)
      BY <3>1, <3>2, <3>3, <3>4 DEF Told
    <3> QED BY <3>5, <3>6, NumbersTellNext
  <2>4. CASE m # n
    <3>1. \A a \in AuditActions : audit'[<<m, a>>] = audit[<<m, a>>]
      BY <2>2, <2>4
    <3>2. /\ negStatus'[m] = negStatus[m] /\ chain'[m] = chain[m]
          /\ reqStatus'[RequestOf(m)] = reqStatus[RequestOf(m)]
      BY <1>1, <2>4 DEF IInv, TypeOK
    <3> QED BY <2>1, <3>1, <3>2, QuietTrail
  <2> QED BY <2>3, <2>4
<1> QED BY <1>3, <1>4 DEF AuditExplains

LEMMA RejectTrail ==
    ASSUME IInv, AuditExplains, NEW w \in Workers, pc[w] = "commit",
           call[w].kind = "reject", RejectEffect(w)
    PROVE  AuditExplains'
<1> DEFINE n == call[w].neg
<1>1. /\ negStatus' = [negStatus EXCEPT ![n] = "rejected"]
      /\ Logged({<<n, "negotiation.rejected">>})
      /\ reqStatus' = reqStatus /\ chain' = chain
  BY DEF RejectEffect
<1>2. n \in Negs /\ negStatus[n] = "active"
  BY AtCommit, CallParts DEF DecisionHolds, Decision, IsActive
<1>3. \A r \in Requests : RequestExplained(r)'
  BY <1>1, RequestTrail
<1>4. ASSUME NEW m \in Negs PROVE ThreadExplained(m)'
  <2>1. ThreadExplained(m)
    BY DEF AuditExplains
  <2>2. \A a \in AuditActions :
          /\ audit[<<m, a>>] \in Nat
          /\ audit'[<<m, a>>] = audit[<<m, a>>]
                + IF m = n /\ a = "negotiation.rejected" THEN 1 ELSE 0
    BY <1>1, LoggedRows DEF IInv
  <2>3. CASE m = n
    <3>1. negStatus'[m] = "rejected" /\ chain'[m] = chain[m]
      BY <1>1, <1>2, <2>3 DEF IInv, TypeOK
    <3>2. PICK l, o, c, a, j, k \in Nat : Numbers(m, l, o, c, a, j, k)
      BY NumbersExist DEF IInv
    <3>3. Told(l, "active", FALSE, o, c, a, j, k)
      BY <1>2, <2>1, <2>3, <3>2, NumbersTell DEF Told
    <3>4. Numbers(m, l, o, c, a, j + 1, k)'
      BY <2>2, <2>3, <3>1, <3>2 DEF Numbers, AuditActions
    <3>5. Told(l, "rejected", reqStatus'[RequestOf(m)] = "closed", o, c, a, j + 1, k)
      BY <3>2, <3>3 DEF Told
    <3> QED BY <3>1, <3>4, <3>5, NumbersTellNext
  <2>4. CASE m # n
    <3>1. \A a \in AuditActions : audit'[<<m, a>>] = audit[<<m, a>>]
      BY <2>2, <2>4
    <3>2. /\ negStatus'[m] = negStatus[m] /\ chain'[m] = chain[m]
          /\ reqStatus'[RequestOf(m)] = reqStatus[RequestOf(m)]
      BY <1>1, <2>4 DEF IInv, TypeOK
    <3> QED BY <2>1, <3>1, <3>2, QuietTrail
  <2> QED BY <2>3, <2>4
<1> QED BY <1>3, <1>4 DEF AuditExplains

LEMMA CounterTrail ==
    ASSUME IInv, AuditExplains, NEW w \in Workers, pc[w] = "commit",
           call[w].kind = "counter", CounterEffect(w)
    PROVE  AuditExplains'
<1> DEFINE n == call[w].neg
           p == NewProposal(call[w].user, call[w].amount, seen[w].currency)
<1>1. /\ chain' = [chain EXCEPT ![n] = Append(chain[n], p)]
      /\ Logged({<<n, "negotiation.countered">>})
      /\ reqStatus' = reqStatus /\ negStatus' = negStatus
  BY DEF CounterEffect
<1>2. n \in Negs /\ chain[n] \in Seq(Proposal) /\ p \in Proposal
  <2>1. n \in Negs /\ IsActive(n) /\ seen[w] = LastProposal(chain[n])
    BY AtCommit, CallParts DEF DecisionHolds, Decision
  <2>2. chain[n] \in Seq(Proposal) /\ chain[n] # << >>
    BY <2>1 DEF IInv, TypeOK, RowsInv, ChainInv, IsActive
  <2>3. seen[w] \in Proposal
    BY <2>1, <2>2 DEF LastProposal
  <2> QED BY <2>1, <2>2, <2>3, AtCommit, CallParts DEF NewProposal, Proposal
<1> HIDE DEF p
<1>3. \A r \in Requests : RequestExplained(r)'
  BY <1>1, RequestTrail
<1>4. ASSUME NEW m \in Negs PROVE ThreadExplained(m)'
  <2>1. ThreadExplained(m)
    BY DEF AuditExplains
  <2>2. \A a \in AuditActions :
          /\ audit[<<m, a>>] \in Nat
          /\ audit'[<<m, a>>] = audit[<<m, a>>]
                + IF m = n /\ a = "negotiation.countered" THEN 1 ELSE 0
    BY <1>1, LoggedRows DEF IInv
  <2>3. CASE m = n
    <3>1. chain'[m] = Append(chain[m], p) /\ chain[m] \in Seq(Proposal)
      BY <1>1, <1>2, <2>3 DEF IInv, TypeOK
    <3>2. PICK l, o, c, a, j, k \in Nat : Numbers(m, l, o, c, a, j, k)
      BY NumbersExist DEF IInv
    <3>3. Told(l, negStatus[m], reqStatus[RequestOf(m)] = "closed", o, c, a, j, k)
      BY <2>1, <3>2, NumbersTell
    <3>4. Len(chain'[m]) = l + 1
      <4>1. \A x \in Seq(Proposal) : Len(Append(x, p)) = Len(x) + 1
        BY <1>2
      <4> QED BY <3>1, <3>2, <4>1 DEF Numbers
    <3>5. Numbers(m, l + 1, o, c + 1, a, j, k)'
      BY <2>2, <2>3, <3>2, <3>4 DEF Numbers, AuditActions
    <3>6. Told(l + 1, negStatus'[m], reqStatus'[RequestOf(m)] = "closed", o, c + 1, a, j, k)
      BY <1>1, <3>2, <3>3 DEF Told
    <3> QED BY <3>5, <3>6, NumbersTellNext
  <2>4. CASE m # n
    <3>1. \A a \in AuditActions : audit'[<<m, a>>] = audit[<<m, a>>]
      BY <2>2, <2>4
    <3>2. /\ negStatus'[m] = negStatus[m] /\ chain'[m] = chain[m]
          /\ reqStatus'[RequestOf(m)] = reqStatus[RequestOf(m)]
      BY <1>1, <2>4 DEF IInv, TypeOK
    <3> QED BY <2>1, <3>1, <3>2, QuietTrail
  <2> QED BY <2>3, <2>4
<1> QED BY <1>3, <1>4 DEF AuditExplains

\* At the commit of an accept the request is not closed yet, so none of its
\* threads has a row of a sibling's accept: whatever selected siblings became in
\* the meantime, each gets the first such row of its trail.
LEMMA AcceptTrail ==
    ASSUME IInv, AuditExplains, NEW w \in Workers, pc[w] = "commit",
           call[w].kind = "accept", AcceptEffect(w)
    PROVE  AuditExplains'
<1> DEFINE n == call[w].neg
           r == RequestOf(n)
           entries == {<<n, "negotiation.accepted">>}
                        \cup {<<m, "negotiation.superseded">> : m \in sibs[w]}
<1>1. /\ reqStatus' = [reqStatus EXCEPT ![r] = "closed"]
      /\ chain' = chain
      /\ Logged(entries)
  BY DEF AcceptEffect
<1>2. n \in Negs /\ r \in Requests /\ negStatus[n] = "active"
  BY AtCommit, CallParts, NegParts DEF DecisionHolds, Decision, IsActive
<1>3. /\ sibs[w] \subseteq Siblings(n)
      /\ \A m \in sibs[w] : negStatus[m] \in {"active", "rejected"}
  BY AtCommit DEF SiblingsHold
<1>4. \A m \in sibs[w] : m \in Negs /\ RequestOf(m) = r /\ m # n
  BY <1>3 DEF Siblings
<1>5. \A m \in Negs :
        negStatus'[m] = IF m = n THEN "accepted"
                        ELSE IF m \in sibs[w] THEN "rejected" ELSE negStatus[m]
  BY DEF AcceptEffect, Settled
<1>6. reqStatus[r] \notin {"none", "closed"} /\ reqStatus'[r] = "closed"
  BY <1>1, <1>2 DEF IInv, TypeOK, RowsInv, ClosedSettled, ForeignKeyInv
<1>7. \A x \in Requests \ {r} : reqStatus'[x] = reqStatus[x]
  BY <1>1 DEF IInv, TypeOK
<1>8. \A x \in Requests : RequestExplained(x)'
  <2>1. \A e \in entries : e[2] # "request.created"
    OBVIOUS
  <2> HIDE DEF entries
  <2> QED BY <1>1, <1>6, <1>7, <2>1, RequestTrail
<1>9. ASSUME NEW m \in Negs PROVE ThreadExplained(m)'
  <2>1. ThreadExplained(m)
    BY DEF AuditExplains
  <2>2. \A a \in AuditActions : <<m, a>> \in entries <=>
          \/ m = n /\ a = "negotiation.accepted"
          \/ m \in sibs[w] /\ a = "negotiation.superseded"
    OBVIOUS
  <2> HIDE DEF entries
  <2>3. \A a \in AuditActions :
          /\ audit[<<m, a>>] \in Nat
          /\ audit'[<<m, a>>] = audit[<<m, a>>] + IF <<m, a>> \in entries THEN 1 ELSE 0
    BY <1>1, LoggedRows DEF IInv
  <2>4. PICK l, o, c, a, j, k \in Nat : Numbers(m, l, o, c, a, j, k)
    BY NumbersExist DEF IInv
  <2>5. Told(l, negStatus[m], reqStatus[RequestOf(m)] = "closed", o, c, a, j, k)
    BY <2>1, <2>4, NumbersTell
  <2>6. CASE m = n
    <3>1. Numbers(m, l, o, c, a + 1, j, k)'
      BY <1>1, <1>4, <2>2, <2>3, <2>4, <2>6 DEF Numbers, AuditActions
    <3>2. Told(l, negStatus'[m], reqStatus'[RequestOf(m)] = "closed", o, c, a + 1, j, k)
      BY <1>2, <1>5, <1>6, <2>4, <2>5, <2>6 DEF Told
    <3> QED BY <3>1, <3>2, NumbersTellNext
  <2>7. CASE m \in sibs[w]
    <3>1. Numbers(m, l, o, c, a, j, k + 1)'
      BY <1>1, <1>4, <2>2, <2>3, <2>4, <2>7 DEF Numbers, AuditActions
    <3>2. k = 0
      BY <1>4, <1>6, <2>4, <2>5, <2>7 DEF Told
    <3>3. Told(l, negStatus'[m], reqStatus'[RequestOf(m)] = "closed", o, c, a, j, k + 1)
      BY <1>3, <1>4, <1>5, <1>6, <2>4, <2>5, <2>7, <3>2 DEF Told
    <3> QED BY <3>1, <3>3, NumbersTellNext
  <2>8. CASE m # n /\ m \notin sibs[w]
    <3>1. \A x \in AuditActions : audit'[<<m, x>>] = audit[<<m, x>>]
      BY <2>2, <2>3, <2>8
    <3>2. reqStatus[RequestOf(m)] = "closed" => reqStatus'[RequestOf(m)] = "closed"
      BY <1>6, <1>7, NegParts
    <3> QED BY <1>1, <1>5, <2>1, <2>8, <3>1, <3>2, QuietTrail
  <2> QED BY <2>6, <2>7, <2>8
<1> QED BY <1>8, <1>9 DEF AuditExplains

\* However transactions interleave and fail, creations, proposals and accepts are
\* audited exactly once; a thread that is rejected, and no other, has the row of
\* a reject, of a supersession (audit.record, negotiation.py:228) or of both.
THEOREM AuditExplainsAlways == Spec => []AuditExplains
<1>1. Init => AuditExplains
  BY DEF Init, AuditExplains, RequestExplained, ThreadExplained, AuditEntry, AuditActions
<1>2. ASSUME IInv, AuditExplains, NEW w \in Workers, Commit(w)
      PROVE  AuditExplains'
  <2>1. pc[w] = "commit" /\ Effect(w)
    BY <1>2 DEF Commit
  <2> QED BY <1>2, <2>1, CreateTrail, OfferTrail, AcceptTrail, RejectTrail, CounterTrail DEF Effect
<1>3. IInv /\ AuditExplains /\ [Next]_vars => AuditExplains'
  <2>1. UNCHANGED tables /\ AuditExplains => AuditExplains'
    BY DEF tables, AuditExplains, RequestExplained, ThreadExplained
  <2> QED BY <1>2, <2>1, OnlyCommit DEF vars, tables
<1> QED BY <1>1, <1>3, Invariance, PTL DEF Spec
=============================================================================
