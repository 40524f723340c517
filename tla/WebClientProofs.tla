-------------------------- MODULE WebClientProofs ---------------------------
(***************************************************************************)
(* Theorems about WebClient.  The proof takes the kinds of steps in turn:  *)
(* the service's, the clicks of the user, the answers to one call, a misreported  *)
(* connection.  What all of them owe the invariant is said once: threads   *)
(* only grow (Grows), and a step is with one call (OthersSame).            *)
(***************************************************************************)
EXTENDS WebClientInvariant, TLAPS

\* Two calls differ at most in where they are and what they have read.
Alike(x, y) ==
    /\ x.act = y.act /\ x.neg = y.neg /\ x.seen = y.seen /\ x.intent = y.intent
    /\ y.act \in Modals \cup {"create"} => x.here = y.here

OthersSame(c) ==
    \A d \in Calls \ {c} :
        /\ call'[d] # Null <=> call[d] # Null
        /\ call[d] # Null => /\ Alike(call'[d], call[d])
                             /\ call'[d].phase = call[d].phase /\ call'[d].view = call[d].view

\* A thread stays a thread of its parties, and its proposals stay.
Extends(n, k, l) ==
    /\ k = Len(chain[n]) /\ l = Len(chain'[n]) /\ k <= l
    /\ \A i \in 1 .. k : chain'[n][i] = chain[n][i]

Grows ==
    \A n \in Negs : negStatus[n] # "none" =>
        /\ negStatus'[n] # "none"
        /\ owner'[RequestOf(n)] = owner[RequestOf(n)]
        /\ \E k, l \in Nat : Extends(n, k, l)

\* Only whoever's turn it is proposes.
InTurn(u) ==
    \A n \in Negs : negStatus[n] # "none" =>
        \/ chain'[n] = chain[n]
        \/ u \in Participants(owner[RequestOf(n)], n) /\ LastProposal(chain[n]).actor # u

-----------------------------------------------------------------------------
(* Data.                                                                   *)

LEMMA NegParts ==
    ASSUME NEW n \in Negs
    PROVE  RequestOf(n) \in Requests /\ SupplierOf(n) \in Suppliers
BY DEF Negs, RequestOf, SupplierOf

\* A call moves on; a call has read; a button is gone.
LEMMA PhaseRecord ==
    ASSUME NEW x \in Call, NEW p \in Phases
    PROVE  LET y == [x EXCEPT !.phase = p] IN
           y \in Call /\ y # Null /\ Alike(y, x) /\ y.phase = p /\ y.view = x.view
BY RecordsAssumption DEF Call, Alike, RecordsAssumption

LEMMA ViewRecord ==
    ASSUME NEW x \in Call, NEW v \in View
    PROVE  LET y == [x EXCEPT !.phase = "got", !.view = v] IN
           y \in Call /\ y # Null /\ Alike(y, x) /\ y.phase = "got" /\ y.view = v
<1> DEFINE y == [x EXCEPT !.phase = "got", !.view = v]
<1>1. y \in Call
  BY DEF Call, Phases
<1>2. Alike(y, x) /\ y.phase = "got" /\ y.view = v
  BY DEF Call, Alike
<1> HIDE DEF y
<1>3. y # Null
  BY <1>1, RecordsAssumption
<1> QED  BY <1>1, <1>2, <1>3 DEF y

LEMMA HereRecord ==
    ASSUME NEW x \in Call, x.act \in {"accept", "reject"}
    PROVE  LET y == [x EXCEPT !.here = FALSE] IN
           y \in Call /\ y # Null /\ Alike(y, x) /\ y.phase = x.phase /\ y.view = x.view
BY RecordsAssumption DEF Call, Alike, RecordsAssumption, Modals

\* The service of the page speaks of the same rows.
LEMMA ServerData ==
    /\ Server!Negs = Negs
    /\ \A n : Server!RequestOf(n) = RequestOf(n)
    /\ \A n : Server!Siblings(n) = Siblings(n)
    /\ \A c : Server!LastProposal(c) = LastProposal(c)
    /\ \A c, n : Server!Participants(c, n) = Participants(c, n)
    /\ \A u, a, cur : Server!NewProposal(u, a, cur) = NewProposal(u, a, cur)
    /\ \A m, n, losers, old : Server!Settled(m, n, losers, old) = Settled(m, n, losers, old)
BY DEF Server!Negs, Server!Siblings, Server!RequestOf, Server!LastProposal, Server!Participants,
       Server!SupplierOf, Server!NewProposal, Server!Settled,
       Negs, Siblings, RequestOf, LastProposal, Participants, SupplierOf, NewProposal, Settled

LEMMA ProposalMade ==
    ASSUME NEW u \in Users, NEW a \in Amounts, NEW cur \in Currencies
    PROVE  NewProposal(u, a, cur) \in Proposal /\ NewProposal(u, a, cur).actor = u
BY DEF NewProposal, Proposal

LEMMA AppendExtends ==
    ASSUME NEW s \in Seq(Proposal), NEW p \in Proposal, Len(s) > 0
    PROVE  LET t == Append(s, p) IN
           /\ t \in Seq(Proposal) /\ Len(t) = Len(s) + 1 /\ LastProposal(t) = p
           /\ \A i \in 1 .. Len(s) : t[i] = s[i]
           /\ Len(s) \in Nat /\ s[Len(s)] \in Proposal
BY DEF LastProposal

LEMMA OneProposal ==
    ASSUME NEW p \in Proposal
    PROVE  <<p>> \in Seq(Proposal) /\ Len(<<p>>) > 0 /\ LastProposal(<<p>>) = p
BY DEF LastProposal

\* The parties still take turns in a thread that is unchanged, new, or continued by
\* the one whose turn it is.
LEMMA SameAlternates ==
    ASSUME NEW n, Alternates(n), chain'[n] = chain[n],
           owner'[RequestOf(n)] = owner[RequestOf(n)]
    PROVE  Alternates(n)'
BY DEF Alternates, Participants

LEMMA OneAlternates ==
    ASSUME NEW n, NEW p \in Proposal, chain'[n] = <<p>>,
           p.actor \in Participants(owner'[RequestOf(n)], n)
    PROVE  Alternates(n)'
<1>1. ASSUME NEW k \in 1 .. Len(chain'[n])
      PROVE  k = 1 /\ chain'[n][k] = p
  BY <1>1
<1> QED  BY <1>1 DEF Alternates, Participants

LEMMA MoreAlternates ==
    ASSUME NEW n, NEW s \in Seq(Proposal), NEW t \in Seq(Proposal), NEW p \in Proposal,
           Alternates(n), s = chain[n], t = chain'[n],
           Len(s) > 0, Len(t) = Len(s) + 1, LastProposal(t) = p,
           \A i \in 1 .. Len(s) : t[i] = s[i],
           owner'[RequestOf(n)] = owner[RequestOf(n)],
           p.actor \in Participants(owner[RequestOf(n)], n), LastProposal(s).actor # p.actor
    PROVE  Alternates(n)'
<1> SUFFICES ASSUME NEW k \in 1 .. Len(t)
             PROVE  /\ t[k].actor \in Participants(owner[RequestOf(n)], n)
                    /\ k > 1 => t[k].actor # t[k - 1].actor
  BY DEF Alternates, Participants
<1>1. CASE k \in 1 .. Len(s)
  <2>1. k > 1 => k - 1 \in 1 .. Len(s)
    BY <1>1
  <2> QED  BY <1>1, <2>1 DEF Alternates
<1>2. CASE k = Len(s) + 1
  <2>1. t[k] = p /\ k - 1 = Len(s) /\ k - 1 \in 1 .. Len(s) /\ LastProposal(s) = s[k - 1]
    BY <1>2 DEF LastProposal
  <2>2. t[k - 1] = s[k - 1]
    BY <2>1
  <2> QED  BY <2>1, <2>2
<1> QED  BY <1>1, <1>2

LEMMA LastOfParty ==
    ASSUME ServiceInv, NEW n \in Negs, negStatus[n] # "none"
    PROVE  LastProposal(chain[n]).actor \in Participants(owner[RequestOf(n)], n)
<1>1. PICK s \in Seq(Proposal) : s = chain[n]
  BY DEF ServiceInv
<1>2. Len(s) \in 1 .. Len(s)
  BY <1>1 DEF ServiceInv
<1> QED  BY <1>1, <1>2 DEF ServiceInv, Alternates, LastProposal

\* A thread whose proposals do not change.
LEMMA SameExtends ==
    ASSUME ServiceInv, NEW n \in Negs, chain'[n] = chain[n]
    PROVE  \E k, l \in Nat : Extends(n, k, l)
<1>1. PICK k \in Nat : k = Len(chain[n])
  BY DEF ServiceInv
<1> QED  BY <1>1 DEF Extends

-----------------------------------------------------------------------------
(* The service.                                                            *)

Serves(u) ==
    \/ u \in Clients /\ \E r \in Requests : Server!CreateRequest(u, r)
    \/ /\ u \in Suppliers
       /\ \E r \in Requests, a \in Amounts, cur \in Currencies : Server!MakeOffer(u, r, a, cur)
    \/ \E n \in Negs :
          \/ Server!Accept(u, n)
          \/ Server!Reject(u, n)
          \/ \E a \in Amounts : Server!Counter(u, n, a)

LEMMA CreateServed ==
    ASSUME ServiceInv, NEW u \in Clients, NEW r \in Requests, Server!CreateRequest(u, r)
    PROVE  ServiceInv' /\ Grows /\ UNCHANGED <<negStatus, chain>>
<1> USE DEF Server!CreateRequest
<1>1. u \in Users
  BY DEF Users
<1>2. \A n \in Negs : negStatus[n] # "none" => owner'[RequestOf(n)] = owner[RequestOf(n)]
  BY NegParts DEF ServiceInv
<1>3. ServiceInv'
  BY <1>1, <1>2, NegParts, SameAlternates DEF ServiceInv, RequestStatus
<1>4. Grows
  BY <1>2, SameExtends DEF Grows
<1> QED  BY <1>3, <1>4

LEMMA OfferServed ==
    ASSUME ServiceInv, NEW u \in Suppliers, NEW r \in Requests, NEW a \in Amounts,
           NEW cur \in Currencies, Server!MakeOffer(u, r, a, cur)
    PROVE  /\ ServiceInv' /\ Grows
           /\ negStatus[<<r, u>>] = "none" /\ negStatus'[<<r, u>>] = "active"
           /\ \A n \in Negs : n # <<r, u>> => chain'[n] = chain[n]
<1> DEFINE n == <<r, u>>
           p == NewProposal(u, a, cur)
<1>1. n \in Negs /\ RequestOf(n) = r /\ SupplierOf(n) = u
  BY DEF Negs, RequestOf, SupplierOf
<1>2. p \in Proposal /\ p.actor = u
  BY ProposalMade DEF Users
<1>3. /\ reqStatus[r] = "open" /\ negStatus[n] = "none"
      /\ negStatus' = [negStatus EXCEPT ![n] = "active"]
      /\ chain' = [chain EXCEPT ![n] = <<p>>]
      /\ UNCHANGED <<owner, reqStatus>>
  BY ServerData DEF Server!MakeOffer
<1> HIDE DEF n, p
<1>4. /\ negStatus'[n] = "active" /\ chain'[n] = <<p>>
      /\ \A m \in Negs : m # n => negStatus'[m] = negStatus[m] /\ chain'[m] = chain[m]
  BY <1>1, <1>3 DEF ServiceInv
<1>5. ServiceInv'
  <2>1. /\ negStatus' \in [Negs -> NegotiationStatus]
        /\ chain' \in [Negs -> Seq(Proposal)]
    BY <1>1, <1>2, <1>3, OneProposal DEF ServiceInv, NegotiationStatus
  <2>2. ASSUME NEW m \in Negs, negStatus'[m] # "none"
        PROVE  /\ reqStatus'[RequestOf(m)] # "none"
               /\ Len(chain'[m]) > 0
               /\ Alternates(m)'
    <3>1. CASE m = n
      <4>1. p.actor \in Participants(owner'[RequestOf(n)], n)
        BY <1>1, <1>2 DEF Participants
      <4> QED  BY <1>1, <1>2, <1>3, <1>4, <3>1, <4>1, OneProposal, OneAlternates
    <3>2. CASE m # n
      BY <1>3, <1>4, <2>2, <3>2, SameAlternates DEF ServiceInv
    <3> QED  BY <3>1, <3>2
  <2> QED  BY <1>3, <2>1, <2>2 DEF ServiceInv
<1>6. Grows
  BY <1>3, <1>4, SameExtends DEF Grows
<1> QED  BY <1>3, <1>4, <1>5, <1>6 DEF n

LEMMA DecisionServed ==
    ASSUME ServiceInv, NEW u, NEW n \in Negs, Server!Accept(u, n) \/ Server!Reject(u, n)
    PROVE  ServiceInv' /\ Grows /\ UNCHANGED chain
<1>1. /\ negStatus[n] = "active" /\ chain' = chain /\ owner' = owner
      /\ reqStatus' \in {reqStatus, [reqStatus EXCEPT ![RequestOf(n)] = "closed"]}
      /\ \E losers : negStatus' \in {[m \in Negs |-> Settled(m, n, losers, negStatus[m])],
                                     [negStatus EXCEPT ![n] = "rejected"]}
      /\ \A m \in Negs : negStatus[m] # "none" => negStatus'[m] # "none"
  <2>1. CASE Server!Accept(u, n)
    <3>1. /\ negStatus[n] = "active" /\ chain' = chain /\ owner' = owner
          /\ reqStatus' = [reqStatus EXCEPT ![RequestOf(n)] = "closed"]
          /\ \E losers : negStatus' = [m \in Negs |-> Settled(m, n, losers, negStatus[m])]
      BY <2>1, ServerData DEF Server!Accept, Server!Answerable
    <3> QED  BY <3>1 DEF Settled
  <2>2. CASE Server!Reject(u, n)
    BY <2>2 DEF Server!Reject, Server!Answerable, ServiceInv
  <2> QED  BY <2>1, <2>2
<1>2. PICK losers : negStatus' \in {[m \in Negs |-> Settled(m, n, losers, negStatus[m])],
                                    [negStatus EXCEPT ![n] = "rejected"]}
  BY <1>1
<1>3. negStatus' \in [Negs -> NegotiationStatus]
  BY <1>2 DEF ServiceInv, Settled, NegotiationStatus
<1>4. reqStatus' \in [Requests -> RequestStatus]
  BY <1>1 DEF ServiceInv, RequestStatus
<1>5. \A m \in Negs : negStatus[m] = "none" => negStatus'[m] = "none"
  <2>1. CASE negStatus' = [negStatus EXCEPT ![n] = "rejected"]
    BY <1>1, <2>1 DEF ServiceInv
  <2>2. CASE Server!Accept(u, n)
    BY <2>2, ServerData DEF Server!Accept, Server!Answerable, Settled
  <2>3. CASE Server!Reject(u, n)
    BY <2>1, <2>3 DEF Server!Reject
  <2> QED  BY <2>2, <2>3
<1>6. \A r \in Requests : reqStatus[r] # "none" => reqStatus'[r] # "none"
  BY <1>1 DEF ServiceInv
<1>7. ServiceInv'
  BY <1>1, <1>3, <1>4, <1>5, <1>6, NegParts, SameAlternates DEF ServiceInv
<1>8. Grows
  BY <1>1, SameExtends DEF Grows
<1> QED  BY <1>1, <1>7, <1>8

LEMMA CounterServed ==
    ASSUME ServiceInv, NEW u \in Users, NEW n \in Negs, NEW a \in Amounts,
           Server!Counter(u, n, a)
    PROVE  /\ ServiceInv' /\ Grows
           /\ u \in Participants(owner[RequestOf(n)], n) /\ LastProposal(chain[n]).actor # u
           /\ \A m \in Negs : m # n => chain'[m] = chain[m]
<1>1. PICK s \in Seq(Proposal) : s = chain[n]
  BY DEF ServiceInv
<1>2. PICK p : p = NewProposal(u, a, LastProposal(s).currency)
  OBVIOUS
<1>3. /\ negStatus[n] = "active"
      /\ u \in Participants(owner[RequestOf(n)], n) /\ LastProposal(s).actor # u
      /\ chain' = [chain EXCEPT ![n] = Append(s, p)]
      /\ UNCHANGED <<owner, reqStatus, negStatus>>
  BY <1>1, <1>2, ServerData DEF Server!Counter, Server!Answerable
<1>4. Len(s) > 0
  BY <1>1, <1>3 DEF ServiceInv
<1>5. p \in Proposal /\ p.actor = u
  <2>1. Len(s) \in 1 .. Len(s)
    BY <1>4
  <2>2. LastProposal(s) \in Proposal
    BY <2>1 DEF LastProposal
  <2>3. LastProposal(s).currency \in Currencies
    BY <2>2 DEF Proposal
  <2> QED  BY <1>2, <2>3, ProposalMade
<1>6. PICK t : t = Append(s, p)
  OBVIOUS
<1>7. /\ t \in Seq(Proposal) /\ Len(t) = Len(s) + 1 /\ LastProposal(t) = p
      /\ \A i \in 1 .. Len(s) : t[i] = s[i]
  BY <1>4, <1>5, <1>6, AppendExtends
<1>8. /\ chain'[n] = t /\ chain' = [chain EXCEPT ![n] = t]
      /\ \A m \in Negs : m # n => chain'[m] = chain[m]
  BY <1>3, <1>6 DEF ServiceInv
<1>9. ServiceInv'
  <2>1. chain' \in [Negs -> Seq(Proposal)]
    BY <1>7, <1>8 DEF ServiceInv
  <2>2. Len(t) > 0
    BY <1>4, <1>7
  <2>3. Alternates(n)'
    <3>1. Alternates(n) /\ owner'[RequestOf(n)] = owner[RequestOf(n)]
      BY <1>3 DEF ServiceInv
    <3> QED  BY <1>1, <1>3, <1>4, <1>5, <1>7, <1>8, <3>1, MoreAlternates
  <2>4. \A m \in Negs : m # n /\ Alternates(m) => Alternates(m)'
    BY <1>3, <1>8, SameAlternates
  <2> QED  BY <1>3, <1>8, <2>1, <2>2, <2>3, <2>4 DEF ServiceInv
<1>10. \E k, l \in Nat : Extends(n, k, l)
  <2>1. PICK k \in Nat : k = Len(s)
    BY <1>1
  <2> QED  BY <1>1, <1>7, <1>8, <2>1 DEF Extends
<1>11. Grows
  BY <1>3, <1>8, <1>10, SameExtends DEF Grows
<1> QED  BY <1>1, <1>3, <1>8, <1>9, <1>11

\* Whoever calls it, the service keeps its rows in order.
LEMMA ServesWell ==
    ASSUME ServiceInv, NEW u \in Users, Serves(u)
    PROVE  ServiceInv' /\ Grows /\ InTurn(u)
<1>1. ASSUME u \in Clients, NEW r \in Requests, Server!CreateRequest(u, r)
      PROVE  ServiceInv' /\ Grows /\ InTurn(u)
  BY <1>1, CreateServed DEF InTurn
<1>2. ASSUME u \in Suppliers, NEW r \in Requests, NEW a \in Amounts, NEW cur \in Currencies,
             Server!MakeOffer(u, r, a, cur)
      PROVE  ServiceInv' /\ Grows /\ InTurn(u)
  BY <1>2, OfferServed DEF InTurn
<1>3. ASSUME NEW n \in Negs, Server!Accept(u, n) \/ Server!Reject(u, n)
      PROVE  ServiceInv' /\ Grows /\ InTurn(u)
  BY <1>3, DecisionServed DEF InTurn
<1>4. ASSUME NEW n \in Negs, NEW a \in Amounts, Server!Counter(u, n, a)
      PROVE  ServiceInv' /\ Grows /\ InTurn(u)
  BY <1>4, CounterServed DEF InTurn
<1> QED  BY <1>1, <1>2, <1>3, <1>4 DEF Serves

LEMMA ServiceStays ==
    ASSUME ServiceInv, UNCHANGED service
    PROVE  ServiceInv' /\ Grows
<1>1. Grows
  BY SameExtends DEF service, Grows
<1>2. \A n : Alternates(n) => Alternates(n)'
  BY SameAlternates DEF service
<1> QED  BY <1>1, <1>2 DEF service, ServiceInv

-----------------------------------------------------------------------------
(* What was read stays on record.                                          *)

LEMMA OursStays ==
    ASSUME Grows, NEW n, Ours(n)
    PROVE  Ours(n)'
BY DEF Grows, Ours, Participants

LEMMA TheirsStays ==
    ASSUME Grows, NEW n, NEW i, Theirs(n, i)
    PROVE  Theirs(n, i)'
<1>1. Ours(n) /\ Ours(n)' /\ n \in Negs /\ negStatus[n] # "none"
  BY OursStays DEF Theirs, Ours
<1>2. PICK k, l \in Nat : Extends(n, k, l)
  BY <1>1 DEF Grows
<1> QED  BY <1>1, <1>2 DEF Theirs, Extends

LEMMA ViewStays ==
    ASSUME Grows, NEW v \in View, ViewHolds(v)
    PROVE  ViewHolds(v)'
<1>1. PICK j : j = Len(v.chain)
  OBVIOUS
<1>2. /\ Ours(v.neg) /\ Ours(v.neg)' /\ v.neg \in Negs /\ negStatus[v.neg] # "none"
      /\ j \in 1 .. Len(chain[v.neg]) /\ chain[v.neg][j] = LastProposal(v.chain)
  BY <1>1, OursStays DEF ViewHolds, Ours
<1>3. PICK k, l \in Nat : Extends(v.neg, k, l)
  BY <1>2 DEF Grows
<1>4. j \in 1 .. Len(chain'[v.neg]) /\ chain'[v.neg][j] = LastProposal(v.chain)
  BY <1>2, <1>3 DEF Extends
<1> QED  BY <1>1, <1>2, <1>4 DEF ViewHolds

LEMMA CallStays ==
    ASSUME Grows, NEW x, NEW y, CallHolds(x), Alike(y, x), y.phase = x.phase, y.view = x.view
    PROVE  CallHolds(y)'
BY OursStays, TheirsStays, ViewStays DEF CallHolds, Alike

\* A call that goes on and has read nothing new.
LEMMA CallGoesOn ==
    ASSUME Grows, NEW x, NEW y, CallHolds(x), Alike(y, x),
           \/ x.phase = "post" /\ y.phase \in {"refused", "orphan"}
           \/ x.phase = "done" /\ y.phase = "refresh"
           \/ x.phase = "refresh" /\ y.phase = "refused"
           \/ x.phase = "refresh" /\ y.phase = "get" /\ x.act # "create"
    PROVE  CallHolds(y)'
<1>1. /\ x.act \in Decisions => Theirs(x.neg, x.seen)'
      /\ Ours(x.neg) => Ours(x.neg)'
  BY OursStays, TheirsStays DEF CallHolds
<1> QED  BY <1>1 DEF CallHolds, Alike, Executed, Own

\* The calls after a step with the call c.
LEMMA CallsStay ==
    ASSUME Grows, CallsHold, NEW c, OthersSame(c),
           c \in Calls /\ call'[c] # Null => CallHolds(call[c])'
    PROVE  CallsHold'
<1> SUFFICES ASSUME NEW d \in Calls, call'[d] # Null
             PROVE  CallHolds(call[d])'
  BY DEF CallsHold
<1>1. CASE d = c
  BY <1>1
<1>2. CASE d # c
  BY <1>2, CallStays DEF CallsHold, OthersSame
<1> QED  BY <1>1, <1>2

LEMMA PageStays ==
    ASSUME TypeOK, Grows, PageHolds,
           shown' = shown \/ (shown' # Null /\ ViewHolds(shown)'),
           modal' \in {modal, Null}
    PROVE  PageHolds'
BY TheirsStays, ViewStays DEF TypeOK, PageHolds, Own

\* When it is the turn of Me on the screen, the last proposal there is another
\* user's.
LEMMA TurnOfMe ==
    ASSUME NEW v \in View, ViewHolds(v), MyTurn(v)
    PROVE  Theirs(v.neg, Len(v.chain))
BY DEF ViewHolds, MyTurn, Theirs

\* The last proposal of a thread is not outdone by others while it is the turn of
\* Me: the thread has two parties, and the other one made it.
LEMMA LatestStays ==
    ASSUME ServiceInv, NEW n, NEW i, Theirs(n, i), Latest(n, i),
           chain'[n] = chain[n] \/ \E u \in Users \ {Me} : InTurn(u)
    PROVE  Latest(n, i)'
<1>1. /\ n \in Negs /\ negStatus[n] # "none" /\ Me \in Participants(owner[RequestOf(n)], n)
      /\ LastProposal(chain[n]).actor # Me
      /\ LastProposal(chain[n]).actor \in Participants(owner[RequestOf(n)], n)
  BY LastOfParty DEF Theirs, Ours, Latest, LastProposal
<1>2. chain'[n] = chain[n]
  BY <1>1 DEF InTurn, Participants
<1> QED  BY <1>2 DEF Latest

LEMMA LatestInThread ==
    ASSUME NEW n, NEW i, Latest(n, i), chain'[n] = chain[n]
    PROVE  Latest(n, i)'
BY DEF Latest

-----------------------------------------------------------------------------
(* A user who waits has one call at most.                                  *)

LEMMA AloneStays ==
    ASSUME Alone, NEW c \in Calls, OthersSame(c), smooth' => smooth,
           smooth' /\ call'[c] # Null =>
              /\ call'[c].phase # "orphan"
              /\ call[c] # Null \/ \A d \in Calls : call[d] = Null
    PROVE  Alone'
BY DEF Alone, OthersSame

\* A click of that user finds no call under way.
LEMMA ClickAlone ==
    ASSUME TypeOK, Alone, Click
    PROVE  smooth' => smooth /\ \A d \in Calls : call[d] = Null
BY DEF Click, Alone, Awaited, TypeOK

Nobody == \A d \in Calls : call[d] = Null

\* A click without a call under way, on what is fresh.
LEMMA ClickFresh ==
    ASSUME Fresh, smooth, Nobody
    PROVE  /\ shown # Null /\ MyTurn(shown) => Latest(shown.neg, Len(shown.chain))
           /\ modal # Null /\ modal.act = "counter" => Latest(modal.neg, modal.seen)
BY DEF Fresh, Nobody, Countered

LEMMA FreshAfterClick ==
    ASSUME Fresh, smooth' => smooth /\ Nobody, UNCHANGED <<service, shown>>,
           NEW c, OthersSame(c),
           c \in Calls /\ call'[c] # Null =>
              /\ call'[c].phase \in {"post", "get"}
              /\ smooth /\ Nobody /\ call'[c].act \in Decisions => Latest(call'[c].neg, call'[c].seen),
           \/ modal' \in {modal, Null}
           \/ smooth /\ Nobody /\ modal'.act = "counter" => Latest(modal'.neg, modal'.seen)
    PROVE  Fresh'
<1> SUFFICES ASSUME smooth'  PROVE Fresh'
  BY DEF Fresh
<1>1. smooth /\ Nobody
  OBVIOUS
<1>2. \A n, i : Latest(n, i) => Latest(n, i)'
  BY DEF Latest, service
<1>3. shown' # Null /\ MyTurn(shown)' => Latest(shown.neg, Len(shown.chain))'
  BY <1>1, <1>2, ClickFresh DEF MyTurn
<1>4. modal' # Null /\ modal'.act = "counter" => Latest(modal.neg, modal.seen)'
  BY <1>1, <1>2, ClickFresh
<1>5. \A d \in Calls : d # c => call'[d] = Null
  BY <1>1 DEF OthersSame, Nobody
<1>6. ASSUME NEW d \in Calls, call'[d] # Null
      PROVE  /\ call'[d].phase \in {"post", "get"}
             /\ call'[d].act \in Decisions => Latest(call[d].neg, call[d].seen)'
  BY <1>1, <1>2, <1>5, <1>6
<1> QED  BY <1>3, <1>4, <1>6 DEF Fresh

\* The answers to a call: the page is read again, or what was counteroffered is
\* on its way to be.
LEMMA FreshAfterAnswer ==
    ASSUME Fresh, smooth' => smooth, UNCHANGED service, NEW c \in Calls, OthersSame(c),
           call[c] # Null,
           \/ shown' = shown
           \/ /\ call[c].phase = "got" /\ shown' = call[c].view
              /\ call[c].view.neg = call[c].neg,
           modal' \in {modal, Null},
           call[c].act = "counter" /\ call[c].phase \in Executed =>
              \/ call'[c] # Null /\ Alike(call'[c], call[c]) /\ call'[c].phase \in Executed
              \/ shown' = call[c].view /\ call[c].phase = "got" /\ modal' = Null
              \/ ~smooth',
           call'[c] # Null =>
              \/ call'[c].phase \in {"refused", "refresh", "get"}
              \/ /\ call'[c].phase = "got"
                 /\ Latest(call'[c].view.neg, Len(call'[c].view.chain))
    PROVE  Fresh'
<1> SUFFICES ASSUME smooth'  PROVE Fresh'
  BY DEF Fresh
<1>1. \A n, i : Latest(n, i) <=> Latest(n, i)'
  BY DEF Latest, service
<1>2. /\ call[c].phase = "got" /\ MyTurn(call[c].view) =>
            Latest(call[c].view.neg, Len(call[c].view.chain))
      /\ shown # Null /\ MyTurn(shown) =>
            Countered(shown.neg) \/ Latest(shown.neg, Len(shown.chain))
      /\ modal # Null /\ modal.act = "counter" =>
            Countered(modal.neg) \/ Latest(modal.neg, modal.seen)
  BY DEF Fresh
<1>3. ASSUME NEW n, Countered(n)
      PROVE  \/ Countered(n)'
             \/ shown' = call[c].view /\ call[c].phase = "got" /\ modal' = Null
  <2>1. PICK d \in Calls : /\ call[d] # Null /\ call[d].act = "counter" /\ call[d].neg = n
                           /\ call[d].phase \in Executed
    BY <1>3 DEF Countered
  <2>2. \/ /\ call'[d] # Null /\ call'[d].act = "counter" /\ call'[d].neg = n
           /\ call'[d].phase \in Executed
        \/ shown' = call[c].view /\ call[c].phase = "got" /\ modal' = Null
    <3>1. CASE d = c
      BY <2>1, <3>1 DEF Alike
    <3>2. CASE d # c
      BY <2>1, <3>2 DEF OthersSame, Alike
    <3> QED  BY <3>1, <3>2
  <2> QED  BY <2>2 DEF Countered, Executed
<1>4. shown' # Null /\ MyTurn(shown)' =>
         Countered(shown.neg)' \/ Latest(shown.neg, Len(shown.chain))'
  <2>1. CASE shown' = call[c].view /\ call[c].phase = "got"
    BY <1>1, <1>2, <2>1 DEF MyTurn
  <2>2. CASE shown' = shown /\ ~(shown' = call[c].view /\ call[c].phase = "got")
    BY <1>1, <1>2, <1>3, <2>2 DEF MyTurn
  <2> QED  BY <2>1, <2>2
<1>5. modal' # Null /\ modal'.act = "counter" =>
         Countered(modal.neg)' \/ Latest(modal.neg, modal.seen)'
  BY <1>1, <1>2, <1>3
<1>6. ASSUME NEW d \in Calls, call'[d] # Null
      PROVE  /\ \/ call'[d].act \in Decisions /\ call'[d].phase = "post"
                \/ call'[d].act = "accept" /\ call'[d].phase = "done"
                => Latest(call[d].neg, call[d].seen)'
             /\ call'[d].phase = "got" /\ MyTurn(call[d].view)' =>
                   Latest(call[d].view.neg, Len(call[d].view.chain))'
  <2>1. CASE d = c
    BY <1>1, <1>6, <2>1
  <2>2. CASE d # c
    <3>1. /\ call[d] # Null /\ call'[d].act = call[d].act /\ call'[d].neg = call[d].neg
          /\ call'[d].seen = call[d].seen /\ call'[d].phase = call[d].phase
          /\ call'[d].view = call[d].view
      BY <1>6, <2>2 DEF OthersSame, Alike
    <3> QED  BY <1>1, <3>1 DEF Fresh, MyTurn
  <2> QED  BY <2>1, <2>2
<1> QED  BY <1>4, <1>5, <1>6 DEF Fresh

\* A step of the service that is not with a counteroffer of Me.
LEMMA FreshAfterOthers ==
    ASSUME TypeOK, ServiceInv, PageHolds, CallsHold, Fresh, Grows,
           NEW u \in Users \ {Me}, InTurn(u), UNCHANGED <<call, page, smooth>>
    PROVE  Fresh'
<1> SUFFICES ASSUME smooth'  PROVE Fresh'
  BY DEF Fresh
<1>1. \A n, i : Theirs(n, i) /\ Latest(n, i) => Latest(n, i)'
  BY LatestStays
<1>2. \A n : Countered(n)' <=> Countered(n)
  BY DEF Countered
<1>3. UNCHANGED <<call, shown, modal>> /\ smooth
  BY DEF page
<1>4. \A v \in View : ViewHolds(v) /\ MyTurn(v) /\ Latest(v.neg, Len(v.chain))
                         => Latest(v.neg, Len(v.chain))'
  BY <1>1, TurnOfMe
<1>5. shown # Null /\ MyTurn(shown) => Countered(shown.neg)' \/ Latest(shown.neg, Len(shown.chain))'
  BY <1>2, <1>3, <1>4 DEF Fresh, PageHolds, TypeOK
<1>6. modal # Null /\ modal.act = "counter" => Countered(modal.neg)' \/ Latest(modal.neg, modal.seen)'
  BY <1>1, <1>2, <1>3 DEF Fresh, PageHolds
<1>7. ASSUME NEW d \in Calls, call[d] # Null
      PROVE  /\ \/ call[d].act \in Decisions /\ call[d].phase = "post"
                \/ call[d].act = "accept" /\ call[d].phase = "done"
                => Latest(call[d].neg, call[d].seen)'
             /\ call[d].phase = "got" /\ MyTurn(call[d].view) =>
                   Latest(call[d].view.neg, Len(call[d].view.chain))'
  <2>1. CallHolds(call[d])
    BY <1>7 DEF CallsHold
  <2> QED  BY <1>1, <1>3, <1>4, <1>7, <2>1 DEF Fresh, CallHolds, Decisions
<1> QED  BY <1>3, <1>5, <1>6, <1>7 DEF Fresh, MyTurn

-----------------------------------------------------------------------------
(* An intent is with one call at a time.                                   *)

\* The answers to a call keep the intent with it, until the modal or the form is
\* gone.
LEMMA IntentsAfterAnswer ==
    ASSUME TypeOK, Numbered, Once, Guarded, NEW c \in Calls, OthersSame(c),
           call[c] # Null, UNCHANGED <<effects, intents>>, misreported \subseteq misreported',
           modal' \in {modal, Null}, form' \in {form, 0},
           call'[c] # Null =>
              /\ Alike(call'[c], call[c])
              /\ call'[c].phase \notin {"post", "orphan"},
           call[c].act \in Modals /\ call[c].phase \in Executed =>
              \/ call'[c] # Null /\ call'[c].phase \in Executed
              \/ modal' = Null
              \/ call[c].intent \in misreported',
           call[c].phase = "done" => form' = 0 \/ call[c].act # "create"
    PROVE  Numbered' /\ Once' /\ Guarded'
<1>1. \A d \in Calls : call'[d] # Null =>
         /\ call[d] # Null /\ call'[d].intent = call[d].intent /\ call'[d].act = call[d].act
         /\ call[d].act \in Modals \cup {"create"} => call'[d].here = call[d].here
  BY DEF OthersSame, Alike
<1>2. Numbered'
  <2>1. modal' # Null => modal'.intent # 0
    BY DEF TypeOK, Modal
  <2> QED  BY <1>1, <2>1 DEF Numbered
<1>3. Once'
  <2>1. ASSUME NEW d \in Calls, call'[d] # Null, call'[d].intent \in (1 .. MaxIntents) \ misreported'
        PROVE  /\ call'[d].phase # "orphan"
               /\ call'[d].phase = "post" => effects[call'[d].intent] = 0
    <3>1. CASE d = c
      BY <1>1, <2>1, <3>1 DEF Once
    <3>2. CASE d # c
      BY <1>1, <2>1, <3>2 DEF Once, OthersSame
    <3> QED  BY <3>1, <3>2
  <2> QED  BY <1>1, <2>1 DEF Once
<1>4. Guarded'
  <2>1. ASSUME modal' # Null, modal'.intent \notin misreported', effects[modal'.intent] # 0
        PROVE  \E d \in Calls : /\ call'[d] # Null /\ call'[d].intent = modal'.intent
                                /\ call'[d].phase \in Executed
    <3>1. modal' = modal
      BY <2>1
    <3>2. PICK d \in Calls : /\ call[d] # Null /\ call[d].intent = modal.intent
                             /\ call[d].phase \in Executed
      BY <2>1, <3>1 DEF Guarded
    <3>3. call[d].act \in Modals
      BY <2>1, <3>1, <3>2 DEF Numbered
    <3>4. call'[d] # Null /\ call'[d].phase \in Executed
      BY <2>1, <3>2, <3>3 DEF OthersSame
    <3> QED  BY <1>1, <3>1, <3>2, <3>4
  <2>2. ASSUME form' # 0, form' \notin misreported', effects[form'] # 0
        PROVE  \E d \in Calls : /\ call'[d] # Null /\ call'[d].intent = form'
                                /\ call'[d].phase = "done"
    <3>1. form' = form
      BY <2>2
    <3>2. PICK d \in Calls : /\ call[d] # Null /\ call[d].intent = form
                             /\ call[d].phase = "done"
      BY <2>2, <3>1 DEF Guarded
    <3>3. call[d].act = "create"
      BY <2>2, <3>1, <3>2 DEF Numbered
    <3>4. call'[d] # Null /\ call'[d].phase = "done"
      BY <2>2, <3>2, <3>3 DEF OthersSame
    <3> QED  BY <1>1, <3>1, <3>2, <3>4
  <2> QED  BY <2>1, <2>2 DEF Guarded, Executed
<1> QED  BY <1>2, <1>3, <1>4

\* The button of a modal or of the form is enabled: no call of its intent can
\* still take effect, and none has, unless it was misreported.
LEMMA EnabledOnce ==
    ASSUME TypeOK, Numbered, Once, Guarded, NEW i \in (1 .. MaxIntents) \ misreported,
           \/ modal # Null /\ i = modal.intent /\ Enabled(Modals)
           \/ i = form /\ Enabled({"create"})
    PROVE  /\ effects[i] = 0
           /\ \A c \in Calls : call[c] # Null => call[c].intent # i
<1>1. ASSUME NEW c \in Calls, call[c] # Null, call[c].intent = i
      PROVE  FALSE
  <2>1. call[c].phase # "orphan"
    BY <1>1 DEF Once
  <2>2. Awaited(c)
    BY <1>1, <2>1 DEF Awaited
  <2>3. \/ call[c].act \in Modals /\ Enabled(Modals)
        \/ call[c].act = "create" /\ Enabled({"create"})
    BY <1>1 DEF Numbered
  <2>4. call[c].here
    BY <1>1, <2>3 DEF Numbered
  <2> QED  BY <2>2, <2>3, <2>4 DEF Enabled
<1>2. effects[i] = 0
  BY <1>1 DEF Guarded
<1> QED  BY <1>1, <1>2

\* A new call, of no intent or of one whose button is enabled.
LEMMA IntentsAfterBegin ==
    ASSUME TypeOK, Numbered, Once, Guarded, NEW c \in Calls, OthersSame(c),
           call[c] = Null, UNCHANGED <<effects, misreported, modal>>,
           intents' \in 0 .. MaxIntents, intents <= intents', form' \in 0 .. intents',
           form' # form => form = 0 /\ form' = intents' /\ intents' = intents + 1,
           intents' = intents \/ form' = intents',
           call'[c] # Null,
           call'[c].phase # "orphan",
           call'[c].act \in Modals \cup {"create"} => call'[c].here,
           \/ call'[c].intent = 0 /\ call'[c].act \notin Modals \cup {"create"}
           \/ /\ call'[c].intent \in 1 .. MaxIntents
              /\ \/ /\ modal # Null /\ call'[c].intent = modal.intent
                    /\ call'[c].act \in Modals /\ form' = form
                 \/ call'[c].intent = form' /\ call'[c].act = "create"
              /\ call'[c].intent \notin misreported =>
                    /\ effects[call'[c].intent] = 0
                    /\ \A d \in Calls : call[d] # Null => call[d].intent # call'[c].intent
    PROVE  Numbered' /\ Once' /\ Guarded'
<1>1. \A d \in Calls : d # c =>
         /\ call'[d] # Null <=> call[d] # Null
         /\ call[d] # Null =>
               /\ call'[d].intent = call[d].intent /\ call'[d].act = call[d].act
               /\ call[d].act \in Modals \cup {"create"} => call'[d].here = call[d].here
               /\ call'[d].phase = call[d].phase
  BY DEF OthersSame, Alike
<1>2. modal # Null => modal.intent \in 1 .. intents
  BY DEF TypeOK, Modal, Numbered
<1>3. Numbered'
  <2>1. \A i \in 1 .. MaxIntents : i > intents' => effects[i] = 0
    BY DEF Numbered, TypeOK
  <2>2. modal' # Null => modal'.intent <= intents' /\ modal'.intent # form'
    BY <1>2 DEF Numbered, TypeOK
  <2>3. ASSUME NEW d \in Calls, call'[d] # Null
        PROVE  /\ call'[d].intent <= intents'
               /\ call'[d].act \in Modals \cup {"create"} =>
                     call'[d].here /\ call'[d].intent # 0
               /\ modal # Null /\ call'[d].intent = modal.intent => call'[d].act \in Modals
               /\ form' # 0 /\ call'[d].intent = form' => call'[d].act = "create"
    <3>1. CASE d = c
      BY <1>2, <2>2, <3>1 DEF TypeOK
    <3>2. CASE d # c
      <4>1. call[d] # Null /\ call[d].intent \in 0 .. MaxIntents
        BY <1>1, <2>3, <3>2 DEF TypeOK, Call
      <4> QED  BY <1>1, <3>2, <4>1 DEF Numbered, TypeOK
    <3> QED  BY <3>1, <3>2
  <2> QED  BY <2>1, <2>2, <2>3 DEF Numbered
<1>4. Once'
  <2>1. ASSUME NEW d \in Calls, call'[d] # Null, call'[d].intent \in (1 .. MaxIntents) \ misreported
        PROVE  /\ call'[d].phase # "orphan"
               /\ call'[d].phase = "post" => effects[call'[d].intent] = 0
    <3>1. CASE d = c
      BY <2>1, <3>1
    <3>2. CASE d # c
      BY <1>1, <2>1, <3>2 DEF Once
    <3> QED  BY <3>1, <3>2
  <2>2. ASSUME NEW d \in Calls, call'[d] # Null, call'[d].intent \in (1 .. MaxIntents) \ misreported,
               NEW e \in Calls, call'[e] # Null, call'[e].intent = call'[d].intent
        PROVE  d = e
    <3>1. CASE d = c \/ e = c
      BY <1>1, <2>2, <3>1
    <3>2. CASE d # c /\ e # c
      BY <1>1, <2>2, <3>2 DEF Once
    <3> QED  BY <3>1, <3>2
  <2> QED  BY <2>1, <2>2 DEF Once
<1>5. Guarded'
  <2>1. form' # form => effects[form'] = 0 \/ form' \notin 1 .. MaxIntents
    BY DEF Numbered, TypeOK
  <2>2. modal' # Null /\ modal'.intent \notin misreported /\ effects[modal'.intent] # 0 =>
           \E d \in Calls : /\ call'[d] # Null /\ call'[d].intent = modal'.intent
                            /\ call'[d].phase \in Executed
    BY <1>1 DEF Guarded
  <2>3. form' # 0 /\ form' \notin misreported /\ effects[form'] # 0 =>
           \E d \in Calls : /\ call'[d] # Null /\ call'[d].intent = form'
                            /\ call'[d].phase = "done"
    <3>1. form' = form \/ form' \in 1 .. MaxIntents
      BY DEF TypeOK
    <3> QED  BY <1>1, <2>1, <3>1 DEF Guarded
  <2> QED  BY <2>2, <2>3 DEF Guarded, Executed
<1> QED  BY <1>3, <1>4, <1>5

-----------------------------------------------------------------------------
(* The clicks of the user.                                                 *)

LEMMA Begun ==
    ASSUME TypeOK, NEW c \in Calls, NEW act \in Posts \cup {"open"}, NEW n \in Negs \cup {Null},
           NEW k \in Nat, NEW i \in 0 .. MaxIntents, NEW p \in {"post", "get"},
           Begin(c, act, n, k, i, p)
    PROVE  /\ call' \in [Calls -> Call \cup {Null}]
           /\ call[c] = Null /\ OthersSame(c)
           /\ call'[c] # Null
           /\ call'[c].act = act /\ call'[c].neg = n /\ call'[c].seen = k /\ call'[c].here
           /\ call'[c].intent = i /\ call'[c].phase = p
<1>1. PICK x : x = [act |-> act, neg |-> n, seen |-> k, here |-> TRUE,
                    intent |-> i, phase |-> p, view |-> Null]
  OBVIOUS
<1>2. x \in Call
  BY <1>1 DEF Call, Phases
<1>3. x # Null
  BY <1>2, RecordsAssumption DEF RecordsAssumption
<1>4. call[c] = Null /\ call' = [call EXCEPT ![c] = x]
  BY <1>1 DEF Begin
<1>5. call'[c] = x /\ \A d \in Calls : d # c => call'[d] = call[d]
  BY <1>4 DEF TypeOK
<1>6. OthersSame(c)
  BY <1>5 DEF OthersSame, Alike
<1>7. call' \in [Calls -> Call \cup {Null}]
  BY <1>2, <1>4 DEF TypeOK
<1> QED  BY <1>1, <1>3, <1>4, <1>5, <1>6, <1>7

LEMMA OpenKeeps ==
    ASSUME IInv, NEW c \in Calls, NEW n \in Negs, OpenNegotiation(c, n)
    PROVE  IInv'
<1> USE DEF OpenNegotiation
<1>1. TypeOK /\ UNCHANGED <<service, shown, modal, form, intents, effects, misreported>>
  BY DEF IInv, page
<1>2. /\ call' \in [Calls -> Call \cup {Null}]
      /\ call[c] = Null /\ OthersSame(c) /\ call'[c] # Null
      /\ call'[c].act = "open" /\ call'[c].neg = n /\ call'[c].intent = 0
      /\ call'[c].phase = "get"
  BY <1>1, Begun, BoundsAssumption DEF BoundsAssumption
<1>3. smooth' => smooth /\ Nobody
  BY <1>1, ClickAlone DEF IInv, Nobody
<1>4. TypeOK'  BY <1>1, <1>2 DEF TypeOK, Click
<1>5. ServiceInv' /\ Grows  BY <1>1, ServiceStays DEF IInv
<1>6. PageHolds'  BY <1>1, <1>5, PageStays DEF IInv
<1>7. CallsHold'
  <2>1. CallHolds(call[c])'
    BY <1>1, <1>2, OursStays, <1>5 DEF CallHolds, Decisions, Executed, Ours
  <2> QED  BY <1>2, <1>5, <2>1, CallsStay DEF IInv
<1>8. Alone'  BY <1>2, <1>3, AloneStays DEF IInv, Nobody
<1>9. Fresh'  BY <1>1, <1>2, <1>3, FreshAfterClick DEF IInv, Decisions
<1>10. Numbered' /\ Once' /\ Guarded'
  BY <1>1, <1>2, IntentsAfterBegin DEF IInv, TypeOK, Modals
<1> QED  BY <1>4, <1>5, <1>6, <1>7, <1>8, <1>9, <1>10 DEF IInv

LEMMA DecideKeeps ==
    ASSUME IInv, NEW c \in Calls, NEW act \in {"accept", "reject"}, Decide(c, act)
    PROVE  IInv'
<1> USE DEF Decide
<1>1. /\ TypeOK /\ UNCHANGED <<service, shown, modal, form, intents, effects, misreported>>
      /\ shown \in View /\ MyTurn(shown) /\ ViewHolds(shown)
  BY DEF IInv, page, TypeOK, PageHolds
<1>2. PICK n, k : n = shown.neg /\ k = Len(shown.chain)
  OBVIOUS
<1>3. n \in Negs /\ k \in Nat /\ Theirs(n, k)
  BY <1>1, <1>2, TurnOfMe DEF View
<1>4. /\ call' \in [Calls -> Call \cup {Null}]
      /\ call[c] = Null /\ OthersSame(c) /\ call'[c] # Null
      /\ call'[c].act = act /\ call'[c].neg = n /\ call'[c].seen = k /\ call'[c].intent = 0
      /\ call'[c].phase = "post"
  BY <1>1, <1>2, <1>3, Begun, BoundsAssumption DEF BoundsAssumption, Posts
<1>5. smooth' => smooth /\ Nobody
  BY <1>1, ClickAlone DEF IInv, Nobody
<1>6. TypeOK'  BY <1>1, <1>4 DEF TypeOK, Click
<1>7. ServiceInv' /\ Grows  BY <1>1, ServiceStays DEF IInv
<1>8. PageHolds'  BY <1>1, <1>7, PageStays DEF IInv
<1>9. CallsHold'
  <2>1. CallHolds(call[c])'
    BY <1>3, <1>4, <1>7, TheirsStays DEF CallHolds, Decisions, Executed
  <2> QED  BY <1>4, <1>7, <2>1, CallsStay DEF IInv
<1>10. Alone'  BY <1>4, <1>5, AloneStays DEF IInv, Nobody
<1>11. smooth /\ Nobody => Latest(n, k)
  BY <1>1, <1>2, RecordsAssumption, ClickFresh DEF IInv
<1>12. Fresh'  BY <1>1, <1>4, <1>5, <1>11, FreshAfterClick DEF IInv
<1>13. Numbered' /\ Once' /\ Guarded'
  BY <1>1, <1>4, IntentsAfterBegin DEF IInv, TypeOK, Modals
<1> QED  BY <1>6, <1>7, <1>8, <1>9, <1>10, <1>12, <1>13 DEF IInv

LEMMA ConfirmKeeps ==
    ASSUME IInv, NEW c \in Calls, Confirm(c)
    PROVE  IInv'
<1> USE DEF Confirm
<1>1. /\ TypeOK /\ UNCHANGED <<service, shown, modal, form, intents, effects, misreported>>
      /\ modal # Null /\ modal \in Modal /\ Enabled(Modals)
  BY DEF IInv, page, TypeOK, Modals
<1>2. PICK act, n, k, i : act = modal.act /\ n = modal.neg /\ k = modal.seen /\ i = modal.intent
  OBVIOUS
<1>3. /\ act \in Modals /\ n \in Negs /\ k \in Nat /\ i \in 1 .. MaxIntents
      /\ act = "counter" => Theirs(n, k)
      /\ act = "offer" => Own(n)
  BY <1>1, <1>2 DEF Modal, Modals, IInv, PageHolds
<1>4. /\ call' \in [Calls -> Call \cup {Null}]
      /\ call[c] = Null /\ OthersSame(c) /\ call'[c] # Null
      /\ call'[c].act = act /\ call'[c].neg = n /\ call'[c].seen = k /\ call'[c].intent = i
      /\ call'[c].here /\ call'[c].phase = "post"
  BY <1>1, <1>2, <1>3, Begun DEF Posts, Modals
<1>5. smooth' => smooth /\ Nobody
  BY <1>1, ClickAlone DEF IInv, Nobody
<1>6. TypeOK'  BY <1>1, <1>4 DEF TypeOK, Click
<1>7. ServiceInv' /\ Grows  BY <1>1, ServiceStays DEF IInv
<1>8. PageHolds'  BY <1>1, <1>7, PageStays DEF IInv
<1>9. CallsHold'
  <2>1. CallHolds(call[c])'
    BY <1>3, <1>4, <1>7, TheirsStays DEF CallHolds, Decisions, Executed, Modals, Own
  <2> QED  BY <1>4, <1>7, <2>1, CallsStay DEF IInv
<1>10. Alone'  BY <1>4, <1>5, AloneStays DEF IInv, Nobody
<1>11. smooth /\ Nobody /\ act = "counter" => Latest(n, k)
  BY <1>1, <1>2, ClickFresh DEF IInv
<1>12. Fresh'  BY <1>1, <1>3, <1>4, <1>5, <1>11, FreshAfterClick DEF IInv, Decisions, Modals
<1>13. i \notin misreported =>
          effects[i] = 0 /\ \A d \in Calls : call[d] # Null => call[d].intent # i
  BY <1>1, <1>2, <1>3, EnabledOnce DEF IInv
<1>14. Numbered' /\ Once' /\ Guarded'
  BY <1>1, <1>2, <1>3, <1>4, <1>13, IntentsAfterBegin DEF IInv, TypeOK
<1> QED  BY <1>6, <1>7, <1>8, <1>9, <1>10, <1>12, <1>14 DEF IInv

LEMMA SubmitKeeps ==
    ASSUME IInv, NEW c \in Calls, SubmitRequest(c)
    PROVE  IInv'
<1> USE DEF SubmitRequest
<1>1. /\ TypeOK /\ UNCHANGED <<service, shown, modal, effects, misreported>>
      /\ Me \in Clients /\ Enabled({"create"}) /\ modal = Null
  BY DEF IInv
<1>2. PICK i : i = form'
  OBVIOUS
<1>3. /\ i \in 1 .. MaxIntents
      /\ \/ form # 0 /\ i = form /\ intents' = intents
         \/ form = 0 /\ i = intents + 1 /\ intents' = intents + 1 /\ intents < MaxIntents
  BY <1>1, <1>2, BoundsAssumption DEF TypeOK, BoundsAssumption
<1>4. /\ call' \in [Calls -> Call \cup {Null}]
      /\ call[c] = Null /\ OthersSame(c) /\ call'[c] # Null
      /\ call'[c].act = "create" /\ call'[c].intent = i
      /\ call'[c].here /\ call'[c].phase = "post"
  BY <1>1, <1>2, <1>3, Begun DEF Posts
<1>5. smooth' => smooth /\ Nobody
  BY <1>1, ClickAlone DEF IInv, Nobody
<1>6. TypeOK'  BY <1>1, <1>2, <1>3, <1>4, BoundsAssumption DEF TypeOK, Click, BoundsAssumption
<1>7. ServiceInv' /\ Grows  BY <1>1, ServiceStays DEF IInv
<1>8. PageHolds'  BY <1>1, <1>7, PageStays DEF IInv
<1>9. CallsHold'
  <2>1. CallHolds(call[c])'
    BY <1>1, <1>4 DEF CallHolds, Decisions, Executed
  <2> QED  BY <1>4, <1>7, <2>1, CallsStay DEF IInv
<1>10. Alone'  BY <1>4, <1>5, AloneStays DEF IInv, Nobody
<1>11. Fresh'  BY <1>1, <1>4, <1>5, FreshAfterClick DEF IInv, Decisions
<1>12. i \notin misreported =>
          effects[i] = 0 /\ \A d \in Calls : call[d] # Null => call[d].intent # i
  <2>1. CASE form # 0 /\ i = form
    BY <1>1, <1>3, <2>1, EnabledOnce DEF IInv
  <2>2. CASE form = 0 /\ i = intents + 1
    <3>1. i > intents
      BY <1>1, <2>2 DEF TypeOK
    <3>2. effects[i] = 0
      BY <1>3, <3>1 DEF IInv, Numbered
    <3>3. \A d \in Calls : call[d] # Null => call[d].intent # i
      BY <1>1, <3>1 DEF IInv, Numbered, TypeOK, Call
    <3> QED  BY <3>2, <3>3
  <2> QED  BY <1>3, <2>1, <2>2
<1>13. Numbered' /\ Once' /\ Guarded'
  <2>1. /\ intents' \in 0 .. MaxIntents /\ intents <= intents' /\ form' \in 0 .. intents'
        /\ form' # form => form = 0 /\ form' = intents' /\ intents' = intents + 1
        /\ intents' = intents \/ form' = intents'
    BY <1>1, <1>2, <1>3, <1>6 DEF TypeOK
  <2> QED  BY <1>1, <1>2, <1>3, <1>4, <1>12, <2>1, IntentsAfterBegin DEF IInv
<1> QED  BY <1>6, <1>7, <1>8, <1>9, <1>10, <1>11, <1>13 DEF IInv

\* A modal opens with what is on the screen.
LEMMA ModalKeeps ==
    ASSUME IInv, CounterOffer \/ \E r \in Requests : MakeOffer(r)
    PROVE  IInv'
<1>1. PICK act \in Modals, n \in Negs, k \in Nat :
         /\ OpenModal(act, n, k)
         /\ act = "counter" => Theirs(n, k)
         /\ act = "offer" => Own(n)
         /\ smooth /\ Nobody /\ act = "counter" => Latest(n, k)
  <2>1. CASE CounterOffer
    <3>1. shown # Null /\ shown \in View /\ MyTurn(shown) /\ ViewHolds(shown)
      BY <2>1 DEF CounterOffer, IInv, TypeOK, PageHolds
    <3>2. PICK n, k : n = shown.neg /\ k = Len(shown.chain)
      OBVIOUS
    <3>3. n \in Negs /\ k \in Nat /\ Theirs(n, k) /\ OpenModal("counter", n, k)
      BY <2>1, <3>1, <3>2, TurnOfMe DEF View, CounterOffer
    <3>4. smooth /\ Nobody => Latest(n, k)
      BY <3>1, <3>2, ClickFresh DEF IInv
    <3> QED  BY <3>3, <3>4 DEF Modals
  <2>2. CASE \E r \in Requests : MakeOffer(r)
    <3>1. PICK r \in Requests : Me \in Suppliers /\ OpenModal("offer", <<r, Me>>, 0)
      BY <2>2 DEF MakeOffer
    <3>2. <<r, Me>> \in Negs /\ Own(<<r, Me>>)
      BY <3>1 DEF Negs, Own
    <3> QED  BY <3>1, <3>2 DEF Modals
  <2> QED  BY <2>1, <2>2
<1>2. PICK m : m = [act |-> act, neg |-> n, seen |-> k, intent |-> intents + 1]
  OBVIOUS
<1>3. /\ TypeOK /\ intents < MaxIntents /\ modal' = m /\ intents' = intents + 1 /\ Click
      /\ UNCHANGED <<service, call, shown, form, effects, misreported>>
  BY <1>1, <1>2 DEF OpenModal, IInv
<1>4. m \in Modal /\ m # Null
  <2>1. m \in Modal
    BY <1>2, <1>3, BoundsAssumption DEF Modal, Modals, TypeOK, BoundsAssumption
  <2> QED  BY <2>1, RecordsAssumption DEF RecordsAssumption
<1>5. m.act = act /\ m.neg = n /\ m.seen = k /\ m.intent = intents + 1
  BY <1>2
<1>6. smooth' => smooth /\ Nobody
  BY <1>3, ClickAlone DEF IInv, Nobody
<1>7. OthersSame(Null)
  BY <1>3 DEF OthersSame, Alike
<1>8. TypeOK'  BY <1>3, <1>4, BoundsAssumption DEF TypeOK, Click, BoundsAssumption
<1>9. ServiceInv' /\ Grows  BY <1>3, ServiceStays DEF IInv
<1>10. PageHolds'
  <2>1. shown' # Null => ViewHolds(shown)'
    BY <1>3, <1>9, ViewStays DEF IInv, PageHolds, TypeOK
  <2>2. Theirs(n, k) => Theirs(n, k)'
    BY <1>9, TheirsStays
  <2> QED  BY <1>1, <1>3, <1>5, <2>1, <2>2 DEF PageHolds, Own
<1>11. CallsHold'  BY <1>7, <1>9, CallsAssumption, CallsStay DEF IInv, CallsAssumption
<1>12. Alone'  BY <1>3, <1>6 DEF IInv, Alone
<1>13. Fresh'
  BY <1>1, <1>3, <1>5, <1>6, <1>7, CallsAssumption, FreshAfterClick DEF IInv, CallsAssumption
<1>14. Numbered'
  <2>1. \A d \in Calls : call[d] # Null => call[d].intent # intents + 1 /\ call[d].intent <= intents'
    BY <1>3 DEF IInv, Numbered, TypeOK, Call
  <2> QED  BY <1>3, <1>5, <2>1 DEF IInv, Numbered, TypeOK
<1>15. Once'  BY <1>3 DEF IInv, Once
<1>16. Guarded'
  <2>1. effects[m.intent] = 0
    BY <1>3, <1>4, <1>5 DEF IInv, Numbered, TypeOK, Modal
  <2> QED  BY <1>3, <2>1 DEF IInv, Guarded
<1> QED  BY <1>8, <1>9, <1>10, <1>11, <1>12, <1>13, <1>14, <1>15, <1>16 DEF IInv

LEMMA CloseKeeps ==
    ASSUME IInv, CloseModal
    PROVE  IInv'
<1> USE DEF CloseModal
<1>1. TypeOK /\ UNCHANGED <<service, call, shown, form, intents, effects, misreported>>
  BY DEF IInv
<1>2. smooth' => smooth /\ Nobody
  BY <1>1, ClickAlone DEF IInv, Nobody
<1>3. OthersSame(Null)
  BY <1>1 DEF OthersSame, Alike
<1>4. TypeOK'  BY <1>1 DEF TypeOK, Click
<1>5. ServiceInv' /\ Grows  BY <1>1, ServiceStays DEF IInv
<1>6. PageHolds'  BY <1>1, <1>5, PageStays DEF IInv
<1>7. CallsHold'  BY <1>3, <1>5, CallsAssumption, CallsStay DEF IInv, CallsAssumption
<1>8. Alone'  BY <1>1, <1>2 DEF IInv, Alone
<1>9. Fresh'  BY <1>1, <1>2, <1>3, CallsAssumption, FreshAfterClick DEF IInv, CallsAssumption
<1>10. Numbered' /\ Once' /\ Guarded'  BY <1>1 DEF IInv, Numbered, Once, Guarded
<1> QED  BY <1>4, <1>5, <1>6, <1>7, <1>8, <1>9, <1>10 DEF IInv

-----------------------------------------------------------------------------
(* The answers to a call.                                                  *)

\* What the answers have in common: the call goes on or is over, and the page at
\* most shows what was read and closes what is open.
Answers(c) ==
    /\ call[c] # Null /\ OthersSame(c)
    /\ call' \in [Calls -> Call \cup {Null}]
    /\ call'[c] # Null => /\ Alike(call'[c], call[c])
                          /\ call'[c].phase \in {"refused", "refresh", "get", "got"}
                          /\ CallHolds(call[c])'
                          /\ call'[c].phase = "got" =>
                                Latest(call'[c].view.neg, Len(call'[c].view.chain))
    /\ call[c].act = "counter" /\ call[c].phase \in Executed =>
          \/ call'[c] # Null /\ call'[c].phase \in Executed
          \/ shown' = call[c].view /\ call[c].phase = "got" /\ modal' = Null
          \/ ~smooth'
    /\ call[c].act \in Modals /\ call[c].phase \in Executed =>
          \/ call'[c] # Null /\ call'[c].phase \in Executed
          \/ modal' = Null
          \/ call[c].intent \in misreported'
    /\ call[c].phase = "done" => form' = 0 \/ call[c].act # "create"
    /\ shown' = shown \/ (call[c].phase = "got" /\ shown' = call[c].view)
    /\ modal' \in {modal, Null} /\ form' \in {form, 0}
    /\ misreported \subseteq misreported' /\ misreported' \subseteq 1 .. MaxIntents
    /\ smooth' \in BOOLEAN /\ (smooth' => smooth)
    /\ UNCHANGED <<service, intents, effects>>

LEMMA AnswersKeep ==
    ASSUME IInv, NEW c \in Calls, Answers(c)
    PROVE  IInv'
<1> USE DEF Answers
<1>1. TypeOK /\ UNCHANGED <<service, intents, effects>>
  BY DEF IInv
<1>2. /\ CallHolds(call[c])
      /\ call[c].phase = "got" => /\ call[c].view \in View /\ call[c].view.neg = call[c].neg
                                  /\ ViewHolds(call[c].view)
  BY DEF IInv, CallsHold, CallHolds
<1>3. TypeOK'  BY <1>1, <1>2 DEF TypeOK
<1>4. ServiceInv' /\ Grows  BY <1>1, ServiceStays DEF IInv
<1>5. PageHolds'
  <2>1. CASE shown' = shown
    BY <1>1, <1>4, <2>1, PageStays DEF IInv
  <2>2. CASE call[c].phase = "got" /\ shown' = call[c].view
    <3>1. shown' # Null /\ ViewHolds(shown)'
      BY <1>2, <1>4, <2>2, ViewStays, RecordsAssumption DEF RecordsAssumption
    <3> QED  BY <1>1, <1>4, <3>1, PageStays DEF IInv
  <2> QED  BY <2>1, <2>2
<1>6. CallsHold'  BY <1>4, CallsStay DEF IInv
<1>7. Alone'  BY <1>1, AloneStays DEF IInv
<1>8. Fresh'
  BY <1>1, <1>2, FreshAfterAnswer DEF IInv, Modals
<1>9. Numbered' /\ Once' /\ Guarded'
  BY <1>1, IntentsAfterAnswer DEF IInv, Modals
<1> QED  BY <1>3, <1>4, <1>5, <1>6, <1>7, <1>8, <1>9 DEF IInv

\* A call is over.
LEMMA Over ==
    ASSUME TypeOK, NEW c \in Calls, call' = [call EXCEPT ![c] = Null]
    PROVE  OthersSame(c) /\ call'[c] = Null /\ call' \in [Calls -> Call \cup {Null}]
<1>1. call'[c] = Null /\ \A d \in Calls : d # c => call'[d] = call[d]
  BY DEF TypeOK
<1>2. call' \in [Calls -> Call \cup {Null}]
  BY DEF TypeOK
<1> QED  BY <1>1, <1>2 DEF OthersSame, Alike

\* A call goes on.
LEMMA GoesOn ==
    ASSUME TypeOK, NEW c \in Calls, NEW p \in Phases, call[c] # Null,
           call' = [call EXCEPT ![c] = [call[c] EXCEPT !.phase = p]]
    PROVE  /\ OthersSame(c) /\ call'[c] # Null /\ call' \in [Calls -> Call \cup {Null}]
           /\ Alike(call'[c], call[c]) /\ call'[c].phase = p /\ call'[c].view = call[c].view
<1>1. PICK y : y = [call[c] EXCEPT !.phase = p]
  OBVIOUS
<1>2. y \in Call /\ y # Null /\ Alike(y, call[c]) /\ y.phase = p /\ y.view = call[c].view
  BY <1>1, PhaseRecord DEF TypeOK
<1>3. call'[c] = y /\ \A d \in Calls : d # c => call'[d] = call[d]
  BY <1>1 DEF TypeOK
<1>4. call' \in [Calls -> Call \cup {Null}]
  BY <1>1, <1>2 DEF TypeOK
<1> QED  BY <1>2, <1>3, <1>4 DEF OthersSame, Alike

\* An answer that nothing is remarked of.
LEMMA Unremarked ==
    ASSUME TypeOK, UNCHANGED history
    PROVE  /\ effects' = effects
           /\ misreported \subseteq misreported' /\ misreported' \subseteq 1 .. MaxIntents
           /\ smooth' \in BOOLEAN /\ (smooth' => smooth)
BY DEF TypeOK, history

LEMMA RefuseAnswers ==
    ASSUME IInv, NEW c \in Calls, Refuse(c)
    PROVE  Answers(c)
<1>1. /\ TypeOK /\ call[c] # Null /\ call[c].phase \in {"post", "orphan"}
      /\ UNCHANGED <<service, shown, modal, form, intents, history>>
      /\ Answer(c, "refused") /\ CallHolds(call[c])
  BY DEF IInv, Refuse, At, page, CallsHold
<1>2. ServiceInv /\ Grows
  BY <1>1, ServiceStays DEF IInv
<1>3. CASE call[c].phase = "orphan"
  <2>1. call' = [call EXCEPT ![c] = Null]
    BY <1>1, <1>3 DEF Answer
  <2> QED  BY <1>1, <1>3, <2>1, Over, Unremarked DEF Answers, Executed
<1>4. CASE call[c].phase = "post"
  <2>1. call' = [call EXCEPT ![c] = [call[c] EXCEPT !.phase = "refused"]]
    BY <1>1, <1>4 DEF Answer
  <2>2. /\ OthersSame(c) /\ call'[c] # Null /\ call' \in [Calls -> Call \cup {Null}]
        /\ Alike(call'[c], call[c]) /\ call'[c].phase = "refused"
    BY <1>1, <2>1, GoesOn DEF Phases
  <2>3. CallHolds(call[c])'
    BY <1>1, <1>2, <1>4, <2>2, CallGoesOn
  <2> QED  BY <1>1, <1>4, <2>2, <2>3, Unremarked DEF Answers, Executed
<1> QED  BY <1>1, <1>3, <1>4

LEMMA ServerErrorAnswers ==
    ASSUME IInv, NEW c \in Calls, ServerError(c)
    PROVE  Answers(c)
<1>1. /\ TypeOK /\ call[c] # Null /\ call[c] \in Call
      /\ call[c].phase \in {"post", "orphan", "refresh"}
      /\ UNCHANGED <<service, shown, modal, form, intents, effects>>
      /\ Answer(c, "refused") /\ CallHolds(call[c])
  BY DEF IInv, TypeOK, ServerError, At, page, CallsHold
<1>2. ServiceInv /\ Grows
  BY <1>1, ServiceStays DEF IInv
<1>3. /\ misreported \subseteq misreported' /\ misreported' \subseteq 1 .. MaxIntents
      /\ smooth' \in BOOLEAN /\ (smooth' => smooth)
      /\ call[c].phase = "refresh" => /\ call[c].act \in Modals => call[c].intent \in misreported'
                                      /\ call[c].act = "counter" => ~smooth'
  <2>1. call[c].intent \in 0 .. MaxIntents
    BY <1>1 DEF Call
  <2>2. call[c].act \in Modals => call[c].intent # 0
    BY <1>1 DEF IInv, Numbered
  <2>3. smooth' \in BOOLEAN /\ (smooth' => smooth)
    BY <1>1 DEF ServerError, TypeOK
  <2>4. call[c].phase = "refresh" /\ call[c].act = "counter" => ~smooth'
    BY <1>1 DEF ServerError, At
  <2>5. CASE call[c].phase = "refresh" /\ call[c].act \in Modals
    <3>1. misreported' = misreported \cup {call[c].intent}
      BY <1>1, <2>5 DEF ServerError, At, Modals
    <3>2. call[c].intent \in 1 .. MaxIntents
      BY <2>1, <2>2, <2>5, BoundsAssumption DEF BoundsAssumption
    <3> QED  BY <1>1, <2>3, <2>4, <3>1, <3>2 DEF TypeOK
  <2>6. CASE ~(call[c].phase = "refresh" /\ call[c].act \in Modals)
    <3>1. misreported' = misreported
      BY <2>6 DEF ServerError, At, Modals
    <3> QED  BY <1>1, <2>3, <2>4, <2>6, <3>1 DEF TypeOK
  <2> QED  BY <2>5, <2>6
<1>4. CASE call[c].phase = "orphan"
  <2>1. call' = [call EXCEPT ![c] = Null]
    BY <1>1, <1>4 DEF Answer
  <2> QED  BY <1>1, <1>3, <1>4, <2>1, Over DEF Answers, Executed
<1>5. CASE call[c].phase # "orphan"
  <2>1. call' = [call EXCEPT ![c] = [call[c] EXCEPT !.phase = "refused"]]
    BY <1>1, <1>5 DEF Answer
  <2>2. /\ OthersSame(c) /\ call'[c] # Null /\ call' \in [Calls -> Call \cup {Null}]
        /\ Alike(call'[c], call[c]) /\ call'[c].phase = "refused"
    BY <1>1, <2>1, GoesOn DEF Phases
  <2>3. CallHolds(call[c])'
    BY <1>1, <1>2, <1>5, <2>2, CallGoesOn
  <2> QED  BY <1>1, <1>3, <1>5, <2>2, <2>3 DEF Answers, Executed
<1> QED  BY <1>4, <1>5

LEMMA GetAnswers ==
    ASSUME IInv, NEW c \in Calls, GetNegotiation(c)
    PROVE  Answers(c)
<1>1. /\ TypeOK /\ call[c] # Null /\ call[c].phase = "get" /\ call[c] \in Call
      /\ UNCHANGED <<service, shown, modal, form, intents, history>>
      /\ CallHolds(call[c])
  BY DEF IInv, TypeOK, GetNegotiation, At, page, CallsHold
<1>2. Grows
  BY <1>1, ServiceStays DEF IInv
<1>3. PICK n, s : n = call[c].neg /\ s = chain[n]
  OBVIOUS
<1>4. PICK v : v = [neg |-> n, status |-> negStatus[n], chain |-> s]
  OBVIOUS
<1>5. Ours(n) /\ n \in Negs /\ call[c].act # "create"
  BY <1>1, <1>3 DEF CallHolds, Executed, Ours
<1>6. v \in View /\ v.neg = n /\ v.chain = s
  BY <1>3, <1>4, <1>5 DEF View, IInv, ServiceInv
<1>7. ViewHolds(v) /\ Latest(n, Len(s))
  <2>1. s \in Seq(Proposal) /\ Len(s) > 0
    BY <1>3, <1>5 DEF IInv, ServiceInv, Ours
  <2>2. Len(s) \in 1 .. Len(s)
    BY <2>1
  <2> QED  BY <1>3, <1>5, <1>6, <2>2 DEF ViewHolds, Latest, LastProposal
<1>8. PICK y : y = [call[c] EXCEPT !.phase = "got", !.view = v]
  OBVIOUS
<1>9. y \in Call /\ y # Null /\ Alike(y, call[c]) /\ y.phase = "got" /\ y.view = v
  <2>1. PICK x \in Call : x = call[c]
    BY <1>1
  <2> QED  BY <1>6, <1>8, <2>1, ViewRecord
<1>10. call' = [call EXCEPT ![c] = y]
  BY <1>1, <1>3, <1>4, <1>8 DEF GetNegotiation, TypeOK
<1>11. call'[c] = y /\ \A d \in Calls : d # c => call'[d] = call[d]
  BY <1>1, <1>10 DEF TypeOK
<1>12. OthersSame(c)
  BY <1>11 DEF OthersSame, Alike
<1>13. call' \in [Calls -> Call \cup {Null}]
  BY <1>1, <1>9, <1>10 DEF TypeOK
<1>14. CallHolds(call[c])'
  <2>1. PICK x : x = call[c]
    OBVIOUS
  <2>2. x.act \in Decisions => Theirs(x.neg, x.seen)'
    BY <1>1, <1>2, <2>1, TheirsStays DEF CallHolds
  <2>3. Ours(n)' /\ ViewHolds(v)'
    BY <1>2, <1>5, <1>6, <1>7, OursStays, ViewStays
  <2>4. CallHolds(y)'
    BY <1>1, <1>3, <1>5, <1>6, <1>9, <2>1, <2>2, <2>3 DEF CallHolds, Alike, Own
  <2> QED  BY <1>11, <2>4
<1>15. call'[c] # Null /\ call'[c].phase = "got" /\ Alike(call'[c], call[c]) /\ call'[c].view = v
  BY <1>9, <1>11
<1>16. Latest(call'[c].view.neg, Len(call'[c].view.chain))
  BY <1>6, <1>7, <1>15
<1> QED  BY <1>1, <1>12, <1>13, <1>14, <1>15, <1>16, Unremarked DEF Answers, Executed

LEMMA SucceededAnswers ==
    ASSUME IInv, NEW c \in Calls, Succeeded(c)
    PROVE  Answers(c)
<1>1. /\ TypeOK /\ call[c] # Null /\ call[c].phase = "done"
      /\ UNCHANGED <<service, shown, modal, intents, history>>
      /\ form' \in {form, 0} /\ (form' = 0 \/ call[c].act # "create")
      /\ CallHolds(call[c])
  BY DEF IInv, Succeeded, At, CallsHold
<1>2. Grows
  BY <1>1, ServiceStays DEF IInv
<1>3. call' = [call EXCEPT ![c] = [call[c] EXCEPT !.phase = "refresh"]]
  BY <1>1 DEF Succeeded, TypeOK
<1>4. /\ OthersSame(c) /\ call'[c] # Null /\ call' \in [Calls -> Call \cup {Null}]
      /\ Alike(call'[c], call[c]) /\ call'[c].phase = "refresh"
  BY <1>1, <1>3, GoesOn DEF Phases
<1>5. CallHolds(call[c])'
  BY <1>1, <1>2, <1>4, CallGoesOn
<1> QED  BY <1>1, <1>4, <1>5, Unremarked DEF Answers, Executed

LEMMA RefreshedAnswers ==
    ASSUME IInv, NEW c \in Calls, Refreshed(c)
    PROVE  Answers(c)
<1>1. /\ TypeOK /\ call[c] # Null /\ call[c].phase = "refresh"
      /\ UNCHANGED <<service, shown, modal, form, intents, history>>
      /\ CallHolds(call[c])
  BY DEF IInv, Refreshed, At, CallsHold, page
<1>2. Grows
  BY <1>1, ServiceStays DEF IInv
<1>3. CASE call[c].act = "create"
  <2>1. call' = [call EXCEPT ![c] = Null]
    BY <1>3 DEF Refreshed
  <2> QED  BY <1>1, <1>3, <2>1, Over, Unremarked DEF Answers, Modals
<1>4. CASE call[c].act # "create"
  <2>1. call' = [call EXCEPT ![c] = [call[c] EXCEPT !.phase = "get"]]
    BY <1>4 DEF Refreshed
  <2>2. /\ OthersSame(c) /\ call'[c] # Null /\ call' \in [Calls -> Call \cup {Null}]
        /\ Alike(call'[c], call[c]) /\ call'[c].phase = "get"
    BY <1>1, <2>1, GoesOn DEF Phases
  <2>3. CallHolds(call[c])'
    BY <1>1, <1>2, <1>4, <2>2, CallGoesOn
  <2> QED  BY <1>1, <1>4, <2>2, <2>3, Unremarked DEF Answers, Executed
<1> QED  BY <1>3, <1>4

LEMMA RenderAnswers ==
    ASSUME IInv, NEW c \in Calls, Render(c)
    PROVE  Answers(c)
<1>1. /\ TypeOK /\ call[c] # Null /\ call[c].phase = "got" /\ shown' = call[c].view
      /\ UNCHANGED <<service, form, intents, history>>
      /\ modal' \in {modal, Null} /\ (call[c].act \in Modals => modal' = Null)
      /\ CallHolds(call[c])
  BY DEF IInv, Render, At, CallsHold, Returned, Modals
<1>2. call'[c] = Null
  BY DEF Render
<1>3. ASSUME NEW d \in Calls, d # c
      PROVE  /\ call'[d] \in Call \cup {Null}
             /\ call'[d] # Null <=> call[d] # Null
             /\ call[d] # Null => /\ Alike(call'[d], call[d])
                                  /\ call'[d].phase = call[d].phase
                                  /\ call'[d].view = call[d].view
  <2>1. CASE call[d] # Null /\ call[d].act \in {"accept", "reject"}
    <3>1. PICK y : y = [call[d] EXCEPT !.here = FALSE]
      OBVIOUS
    <3>2. call'[d] = y
      BY <1>3, <2>1, <3>1 DEF Render
    <3>3. call[d] \in Call
      BY <1>1, <2>1 DEF TypeOK
    <3> QED  BY <2>1, <3>1, <3>2, <3>3, HereRecord
  <2>2. CASE ~(call[d] # Null /\ call[d].act \in {"accept", "reject"})
    <3>1. call'[d] = call[d]
      BY <1>3, <2>2 DEF Render
    <3> QED  BY <1>1, <3>1 DEF TypeOK, Alike
  <2> QED  BY <2>1, <2>2
<1>4. OthersSame(c)
  BY <1>3 DEF OthersSame
<1>5. call' \in [Calls -> Call \cup {Null}]
  <2>1. call' = [d \in Calls |-> call'[d]]
    BY DEF Render
  <2> QED  BY <1>2, <1>3, <2>1
<1> QED  BY <1>1, <1>2, <1>4, <1>5, Unremarked DEF Answers, Modals

LEMMA DetailErrorAnswers ==
    ASSUME IInv, NEW c \in Calls, DetailError(c)
    PROVE  Answers(c)
<1>1. /\ TypeOK /\ call[c] # Null /\ call[c].phase = "get"
      /\ call' = [call EXCEPT ![c] = Null]
      /\ UNCHANGED <<service, shown, form, intents, effects, misreported>>
      /\ modal' \in {modal, Null} /\ (call[c].act \in Modals => modal' = Null)
      /\ smooth' \in BOOLEAN /\ (smooth' => smooth /\ call[c].act # "counter")
      /\ misreported \subseteq 1 .. MaxIntents
  BY DEF IInv, TypeOK, DetailError, At, Returned, Modals
<1> QED  BY <1>1, Over DEF Answers, Executed

LEMMA ErrorAnswers ==
    ASSUME IInv, NEW c \in Calls, ShowError(c)
    PROVE  Answers(c)
<1>1. /\ TypeOK /\ call[c] # Null /\ call[c].phase = "refused"
      /\ call' = [call EXCEPT ![c] = Null]
      /\ UNCHANGED <<service, shown, modal, form, intents, history>>
  BY DEF IInv, ShowError, At, page
<1> QED  BY <1>1, Over, Unremarked DEF Answers, Executed

-----------------------------------------------------------------------------
(* The server executes a call.                                             *)

\* What it does to the rows, and that the thread of the call is there then.
LEMMA CallServed ==
    ASSUME IInv, NEW c \in Calls, Execute(c)
    PROVE  /\ ServiceInv' /\ Grows
           /\ call[c].act # "create" => Ours(call[c].neg) \/ call[c].act = "offer"
           /\ call[c].act = "offer" => \A n : n = call[c].neg => Ours(n)'
           /\ \A n \in Negs : negStatus[n] # "none" =>
                 chain'[n] = chain[n] \/ (call[c].act = "counter" /\ n = call[c].neg)
<1> DEFINE n == call[c].neg
<1>1. /\ ServiceInv /\ ServerStep(c) /\ CallHolds(call[c]) /\ call[c] \in Call
      /\ call[c].phase \in {"post", "orphan"} /\ Me \in Users
  BY MeAssumption DEF MeAssumption, IInv, TypeOK, Execute, At, CallsHold
<1>2. CASE call[c].act = "create"
  <2>1. PICK r \in Requests : Server!CreateRequest(Me, r)
    BY <1>1, <1>2 DEF ServerStep
  <2> QED  BY <1>1, <1>2, <2>1, CreateServed DEF CallHolds
<1>3. CASE call[c].act = "offer"
  <2>1. Me \in Suppliers /\ n \in Negs /\ n = <<RequestOf(n), Me>> /\ SupplierOf(n) = Me
    BY <1>1, <1>3 DEF CallHolds, Own, Negs, RequestOf, SupplierOf
  <2>2. PICK a \in Amounts, cur \in Currencies : Server!MakeOffer(Me, RequestOf(n), a, cur)
    BY <1>1, <1>3 DEF ServerStep
  <2>3. RequestOf(n) \in Requests
    BY <2>1, NegParts
  <2>4. /\ ServiceInv' /\ Grows
        /\ negStatus[n] = "none" /\ negStatus'[n] = "active"
        /\ \A m \in Negs : m # n => chain'[m] = chain[m]
    BY <1>1, <2>1, <2>2, <2>3, OfferServed
  <2>5. \A m : m = n => Ours(m)'
    BY <2>1, <2>4 DEF Ours, Participants
  <2> QED  BY <1>3, <2>4, <2>5
<1>4. CASE call[c].act \in Decisions
  <2>1. n \in Negs /\ Ours(n)
    BY <1>1, <1>4 DEF CallHolds, Theirs, Ours
  <2>2. CASE call[c].act \in {"accept", "reject"}
    <3>1. Server!Accept(Me, n) \/ Server!Reject(Me, n)
      BY <1>1, <2>2 DEF ServerStep
    <3> QED  BY <1>1, <2>1, <2>2, <3>1, DecisionServed
  <2>3. CASE call[c].act = "counter"
    <3>1. PICK a \in Amounts : Server!Counter(Me, n, a)
      BY <1>1, <2>3 DEF ServerStep
    <3> QED  BY <1>1, <2>1, <2>3, <3>1, CounterServed
  <2> QED  BY <1>4, <2>2, <2>3 DEF Decisions
<1> QED
  <2>1. call[c].act # "open"
    BY <1>1 DEF CallHolds
  <2> QED  BY <1>1, <1>2, <1>3, <1>4, <2>1 DEF Call, Posts, Decisions

LEMMA ExecuteKeeps ==
    ASSUME IInv, NEW c \in Calls, Execute(c)
    PROVE  IInv'
<1>1. /\ TypeOK /\ call[c] # Null /\ call[c].phase \in {"post", "orphan"} /\ call[c] \in Call
      /\ UNCHANGED <<shown, modal, form, intents, misreported, smooth>>
      /\ CallHolds(call[c]) /\ Answer(c, "done")
      /\ effects' = [i \in DOMAIN effects |->
                        IF i = call[c].intent THEN effects[i] + 1 ELSE effects[i]]
  BY DEF IInv, TypeOK, Execute, At, page, CallsHold
<1>2. /\ OthersSame(c) /\ call' \in [Calls -> Call \cup {Null}]
      /\ call[c].phase = "orphan" => call'[c] = Null
      /\ call[c].phase = "post" =>
            call'[c] # Null /\ Alike(call'[c], call[c]) /\ call'[c].phase = "done"
  <2>1. CASE call[c].phase = "orphan"
    <3>1. call' = [call EXCEPT ![c] = Null]
      BY <1>1, <2>1 DEF Answer
    <3> QED  BY <1>1, <2>1, <3>1, Over
  <2>2. CASE call[c].phase = "post"
    <3>1. call' = [call EXCEPT ![c] = [call[c] EXCEPT !.phase = "done"]]
      BY <1>1, <2>2 DEF Answer
    <3> QED  BY <1>1, <2>2, <3>1, GoesOn DEF Phases
  <2> QED  BY <1>1, <2>1, <2>2
<1>3. ServiceInv' /\ Grows
  BY CallServed
<1>4. TypeOK'
  <2>1. effects' \in [1 .. MaxIntents -> Nat]
    BY <1>1 DEF TypeOK
  <2> QED  BY <1>1, <1>2, <2>1 DEF TypeOK
<1>5. PageHolds'  BY <1>1, <1>3, PageStays DEF IInv
<1>6. CallsHold'
  <2>1. PICK x, y : x = call[c] /\ y = call'[c]
    OBVIOUS
  <2>2. x.act # "create" => Ours(x.neg)'
    BY <1>3, <2>1, CallServed, OursStays
  <2>3. x.act \in Decisions => Theirs(x.neg, x.seen)'
    BY <1>1, <1>3, <2>1, TheirsStays DEF CallHolds
  <2>4. y # Null => CallHolds(y)'
    BY <1>1, <1>2, <2>1, <2>2, <2>3 DEF CallHolds, Alike, Own
  <2>5. call'[c] # Null => CallHolds(call[c])'
    BY <2>1, <2>4
  <2> QED  BY <1>2, <1>3, <2>5, CallsStay DEF IInv
<1>7. Alone'  BY <1>1, <1>2, AloneStays DEF IInv
<1>8. Fresh'
  <2> SUFFICES ASSUME smooth'  PROVE Fresh'
    BY DEF Fresh
  <2>1. /\ smooth /\ call[c].phase = "post"
        /\ \A d \in Calls : d # c => call'[d] = Null
    BY <1>1, <1>2 DEF IInv, Alone, OthersSame
  <2>2. ASSUME NEW n, NEW i, Theirs(n, i), Latest(n, i)
        PROVE  Latest(n, i)' \/ Countered(n)'
    <3>1. n \in Negs /\ negStatus[n] # "none"
      BY <2>2 DEF Theirs, Ours
    <3>2. CASE chain'[n] = chain[n]
      BY <2>2, <3>2, LatestInThread
    <3>3. CASE call[c].act = "counter" /\ n = call[c].neg
      <4>1. /\ call'[c] # Null /\ call'[c].act = "counter" /\ call'[c].neg = n
            /\ call'[c].phase \in Executed
        BY <1>2, <2>1, <3>3 DEF Alike, Executed
      <4> QED  BY <4>1 DEF Countered, Executed
    <3> QED  BY <3>1, <3>2, <3>3, CallServed
  <2>3. shown' # Null /\ MyTurn(shown)' =>
           Countered(shown.neg)' \/ Latest(shown.neg, Len(shown.chain))'
    <3>1. shown # Null /\ MyTurn(shown) => /\ Theirs(shown.neg, Len(shown.chain))
                                           /\ Latest(shown.neg, Len(shown.chain)) \/ Countered(shown.neg)
      BY <1>1, <2>1, TurnOfMe DEF IInv, Fresh, PageHolds, TypeOK
    <3>2. ~Countered(shown.neg)
      BY <1>1, <2>1 DEF IInv, Alone, Countered, Executed
    <3> QED  BY <1>1, <2>2, <3>1, <3>2 DEF MyTurn
  <2>4. modal' # Null /\ modal'.act = "counter" =>
           Countered(modal.neg)' \/ Latest(modal.neg, modal.seen)'
    <3>1. ~Countered(modal.neg)
      BY <1>1, <2>1 DEF IInv, Alone, Countered, Executed
    <3> QED  BY <1>1, <2>1, <2>2, <3>1 DEF IInv, Fresh, PageHolds
  <2>5. call'[c].phase = "done" /\ Alike(call'[c], call[c])
    BY <1>2, <2>1
  <2>6. call[c].act = "accept" => Latest(call[c].neg, call[c].seen)'
    <3>1. PICK n, i : n = call[c].neg /\ i = call[c].seen
      OBVIOUS
    <3>2. call[c].act = "accept" => Latest(n, i) /\ n \in Negs /\ negStatus[n] # "none"
      BY <1>1, <2>1, <3>1 DEF IInv, Fresh, CallHolds, Decisions, Theirs, Ours
    <3>3. call[c].act = "accept" => Latest(n, i)'
      BY <3>2, CallServed, LatestInThread
    <3> QED  BY <2>5, <3>1, <3>3 DEF Alike
  <2>7. ASSUME NEW d \in Calls, call'[d] # Null
        PROVE  /\ \/ call'[d].act \in Decisions /\ call'[d].phase = "post"
                  \/ call'[d].act = "accept" /\ call'[d].phase = "done"
                  => Latest(call[d].neg, call[d].seen)'
               /\ call'[d].phase # "got"
    BY <2>1, <2>5, <2>6, <2>7 DEF Alike
  <2> QED  BY <2>3, <2>4, <2>7 DEF Fresh
<1>9. \A d \in Calls : call'[d] # Null =>
         /\ call[d] # Null /\ call'[d].intent = call[d].intent /\ call'[d].act = call[d].act
         /\ call[d].act \in Modals \cup {"create"} => call'[d].here = call[d].here
  BY <1>1, <1>2 DEF OthersSame, Alike
<1>10. \A i \in 1 .. MaxIntents :
          effects'[i] = IF i = call[c].intent THEN effects[i] + 1 ELSE effects[i]
  BY <1>1 DEF TypeOK
<1>11. call[c].intent \in 0 .. intents
  BY <1>1 DEF IInv, Numbered, Call, TypeOK
<1>12. Numbered'
  <2>1. \A i \in 1 .. MaxIntents : i > intents => effects'[i] = 0
    BY <1>1, <1>10, <1>11 DEF IInv, Numbered, TypeOK
  <2> QED  BY <1>1, <1>9, <2>1 DEF IInv, Numbered
<1>13. call[c].intent \in (1 .. MaxIntents) \ misreported =>
          /\ call[c].phase = "post" /\ effects[call[c].intent] = 0
          /\ \A d \in Calls : call[d] # Null /\ call[d].intent = call[c].intent => c = d
  BY <1>1 DEF IInv, Once
<1>14. Once'
  <2>1. ASSUME NEW d \in Calls, call'[d] # Null, call'[d].intent \in (1 .. MaxIntents) \ misreported
        PROVE  /\ call'[d].phase # "orphan"
               /\ call'[d].phase = "post" => effects'[call'[d].intent] = 0
    <3>1. CASE d = c
      BY <1>1, <1>2, <2>1, <3>1
    <3>2. CASE d # c
      <4>1. call[d] # Null /\ call[d].intent # call[c].intent /\ call'[d].phase = call[d].phase
        BY <1>2, <1>9, <1>13, <2>1, <3>2 DEF OthersSame
      <4> QED  BY <1>9, <1>10, <2>1, <4>1 DEF IInv, Once
    <3> QED  BY <3>1, <3>2
  <2>2. \A i \in (1 .. MaxIntents) \ misreported : effects'[i] <= 1
    BY <1>1, <1>10, <1>13 DEF IInv, Once, TypeOK
  <2> QED  BY <1>1, <1>9, <2>1, <2>2 DEF IInv, Once
<1>15. Guarded'
  <2>1. \A d \in Calls : call[d] # Null /\ call[d].phase \in Executed =>
           /\ call'[d] # Null /\ call'[d].intent = call[d].intent /\ call'[d].phase = call[d].phase
    BY <1>1, <1>2 DEF OthersSame, Alike, Executed
  <2>2. ASSUME NEW i \in (1 .. MaxIntents) \ misreported, i = call[c].intent
        PROVE  /\ call'[c] # Null /\ call'[c].intent = i /\ call'[c].phase = "done"
               /\ call'[c].phase \in Executed
    BY <1>2, <1>9, <1>13, <2>2 DEF Executed
  <2>3. ASSUME modal # Null, modal.intent \notin misreported, effects'[modal.intent] # 0
        PROVE  \E d \in Calls : /\ call'[d] # Null /\ call'[d].intent = modal.intent
                                /\ call'[d].phase \in Executed
    <3>1. modal.intent \in (1 .. MaxIntents) \ misreported
      BY <1>1, <2>3 DEF TypeOK, Modal
    <3>2. CASE modal.intent = call[c].intent
      BY <2>2, <3>1, <3>2
    <3>3. CASE modal.intent # call[c].intent
      <4>1. PICK d \in Calls : /\ call[d] # Null /\ call[d].intent = modal.intent
                               /\ call[d].phase \in Executed
        BY <1>10, <2>3, <3>1, <3>3 DEF IInv, Guarded
      <4> QED  BY <2>1, <4>1
    <3> QED  BY <3>2, <3>3
  <2>4. ASSUME form # 0, form \notin misreported, effects'[form] # 0
        PROVE  \E d \in Calls : /\ call'[d] # Null /\ call'[d].intent = form
                                /\ call'[d].phase = "done"
    <3>1. form \in (1 .. MaxIntents) \ misreported
      BY <1>1, <2>4, BoundsAssumption DEF TypeOK, BoundsAssumption
    <3>2. CASE form = call[c].intent
      BY <2>2, <3>1, <3>2
    <3>3. CASE form # call[c].intent
      <4>1. PICK d \in Calls : /\ call[d] # Null /\ call[d].intent = form
                               /\ call[d].phase = "done"
        BY <1>10, <2>4, <3>1, <3>3 DEF IInv, Guarded
      <4> QED  BY <2>1, <4>1 DEF Executed
    <3> QED  BY <3>2, <3>3
  <2> QED  BY <1>1, <2>3, <2>4 DEF Guarded, Executed
<1> QED  BY <1>3, <1>4, <1>5, <1>6, <1>7, <1>8, <1>12, <1>14, <1>15 DEF IInv

-----------------------------------------------------------------------------
(* A connection that fails; the other users.                               *)

LEMMA NetworkKeeps ==
    ASSUME IInv, NEW c \in Calls, NetworkError(c)
    PROVE  IInv'
<1>1. /\ TypeOK /\ call[c] # Null /\ call[c] \in Call /\ CallHolds(call[c])
      /\ UNCHANGED <<service, shown, form, intents, effects>>
      /\ modal' \in {modal, Null}
      /\ misreported' = misreported \cup ({call[c].intent} \ {0})
      /\ smooth' = FALSE
      /\ \/ call' = [call EXCEPT ![c] = Null]
         \/ /\ call[c].phase = "post"
            /\ call' = [call EXCEPT ![c] = [call[c] EXCEPT !.phase = "orphan"]]
  <2>1. modal' \in {modal, Null}
    BY DEF NetworkError, Returned
  <2>2. At(c, "post") => [call EXCEPT ![c].phase = "orphan"]
                            = [call EXCEPT ![c] = [call[c] EXCEPT !.phase = "orphan"]]
    BY DEF IInv, TypeOK
  <2> QED  BY <2>1, <2>2 DEF NetworkError, Awaited, At, IInv, TypeOK, CallsHold
<1>2. /\ OthersSame(c) /\ call' \in [Calls -> Call \cup {Null}]
      /\ call'[c] # Null => /\ Alike(call'[c], call[c]) /\ call'[c].phase = "orphan"
                            /\ call[c].phase = "post"
  BY <1>1, Over, GoesOn DEF Phases
<1>3. \A d \in Calls : call'[d] # Null =>
         /\ call[d] # Null /\ call'[d].intent = call[d].intent /\ call'[d].act = call[d].act
         /\ call[d].act \in Modals \cup {"create"} => call'[d].here = call[d].here
         /\ d # c => call'[d].phase = call[d].phase
  BY <1>1, <1>2 DEF OthersSame, Alike
<1>4. call[c].intent \in 0 .. MaxIntents
  BY <1>1 DEF Call
<1>5. TypeOK'
  <2>1. misreported' \subseteq 1 .. MaxIntents
    BY <1>1, <1>4 DEF TypeOK
  <2> QED  BY <1>1, <1>2, <2>1 DEF TypeOK
<1>6. ServiceInv' /\ Grows  BY <1>1, ServiceStays DEF IInv
<1>7. PageHolds'  BY <1>1, <1>6, PageStays DEF IInv
<1>8. CallsHold'
  <2>1. call'[c] # Null => CallHolds(call[c])'
    BY <1>1, <1>2, <1>6, CallGoesOn
  <2> QED  BY <1>2, <1>6, <2>1, CallsStay DEF IInv
<1>9. Alone' /\ Fresh'  BY <1>1 DEF Alone, Fresh
<1>10. Numbered'
  <2>1. modal' # Null => modal' = modal
    BY <1>1
  <2> QED  BY <1>1, <1>3, <2>1 DEF IInv, Numbered
<1>11. \A i \in (1 .. MaxIntents) \ misreported' : i \notin misreported /\ i # call[c].intent
  BY <1>1
<1>12. Once'
  <2>1. ASSUME NEW d \in Calls, call'[d] # Null, call'[d].intent \in (1 .. MaxIntents) \ misreported'
        PROVE  /\ d # c
               /\ call'[d].phase # "orphan"
               /\ call'[d].phase = "post" => effects'[call'[d].intent] = 0
    <3>1. d # c /\ call[d].intent \in (1 .. MaxIntents) \ misreported
      BY <1>3, <1>11, <2>1
    <3> QED  BY <1>1, <1>3, <2>1, <3>1 DEF IInv, Once
  <2> QED  BY <1>1, <1>3, <1>11, <2>1 DEF IInv, Once
<1>13. Guarded'
  <2>1. \A d \in Calls : call[d] # Null /\ d # c =>
           call'[d] # Null /\ call'[d].intent = call[d].intent /\ call'[d].phase = call[d].phase
    BY <1>2 DEF OthersSame, Alike
  <2>2. ASSUME modal' # Null, modal'.intent \notin misreported', effects'[modal'.intent] # 0
        PROVE  \E d \in Calls : /\ call'[d] # Null /\ call'[d].intent = modal'.intent
                                /\ call'[d].phase \in Executed
    <3>1. modal' = modal /\ modal.intent \in (1 .. MaxIntents) \ misreported'
      BY <1>1, <2>2 DEF TypeOK, Modal
    <3>2. PICK d \in Calls : /\ call[d] # Null /\ call[d].intent = modal.intent
                             /\ call[d].phase \in Executed
      BY <1>1, <1>11, <2>2, <3>1 DEF IInv, Guarded
    <3> QED  BY <1>11, <2>1, <3>1, <3>2
  <2>3. ASSUME form' # 0, form' \notin misreported', effects'[form'] # 0
        PROVE  \E d \in Calls : /\ call'[d] # Null /\ call'[d].intent = form'
                                /\ call'[d].phase = "done"
    <3>1. form' = form /\ form \in (1 .. MaxIntents) \ misreported'
      BY <1>1, <2>3, BoundsAssumption DEF TypeOK, BoundsAssumption
    <3>2. PICK d \in Calls : /\ call[d] # Null /\ call[d].intent = form
                             /\ call[d].phase = "done"
      BY <1>1, <1>11, <2>3, <3>1 DEF IInv, Guarded
    <3> QED  BY <1>11, <2>1, <3>1, <3>2
  <2> QED  BY <2>2, <2>3 DEF Guarded, Executed
<1> QED  BY <1>5, <1>6, <1>7, <1>8, <1>9, <1>10, <1>12, <1>13 DEF IInv

LEMMA OthersKeep ==
    ASSUME IInv, Others
    PROVE  IInv'
<1>1. PICK u \in Users \ {Me} : Serves(u)
  BY DEF Others, Serves
<1>2. TypeOK /\ UNCHANGED <<call, page, history>>
  BY DEF Others, IInv
<1>3. ServiceInv' /\ Grows /\ InTurn(u)
  BY <1>1, ServesWell DEF IInv
<1> USE DEF page, history
<1>4. OthersSame(Null)
  BY <1>2 DEF OthersSame, Alike
<1>5. TypeOK'  BY <1>2 DEF TypeOK
<1>6. PageHolds'  BY <1>2, <1>3, PageStays DEF IInv
<1>7. CallsHold'  BY <1>3, <1>4, CallsAssumption, CallsStay DEF IInv, CallsAssumption
<1>8. Alone'  BY <1>2 DEF IInv, Alone
<1>9. Fresh'  BY <1>2, <1>3, FreshAfterOthers DEF IInv
<1>10. Numbered' /\ Once' /\ Guarded'
  BY <1>2 DEF IInv, Numbered, Once, Guarded
<1> QED  BY <1>3, <1>5, <1>6, <1>7, <1>8, <1>9, <1>10 DEF IInv

LEMMA StutterKeeps == IInv /\ UNCHANGED vars => IInv'
<1> SUFFICES ASSUME IInv, UNCHANGED vars PROVE IInv'
  OBVIOUS
<1>1. UNCHANGED <<service, page, history>> /\ UNCHANGED call
  BY DEF vars, service, page, history
<1> USE <1>1 DEF IInv, service, page, history
<1>2. TypeOK' /\ ServiceInv'
  BY ServiceStays DEF TypeOK
<1>3. PageHolds'
  BY DEF PageHolds, ViewHolds, Theirs, Ours, Own
<1>4. CallsHold'
  BY DEF CallsHold, CallHolds, ViewHolds, Theirs, Ours
<1>5. Alone' /\ Numbered' /\ Once' /\ Guarded'
  BY DEF Alone, Numbered, Once, Guarded
<1>6. Fresh'
  BY DEF Fresh, Countered, Latest, MyTurn
<1> QED  BY <1>2, <1>3, <1>4, <1>5, <1>6

LEMMA NextKeeps ==
    ASSUME IInv, Next
    PROVE  IInv'
<1>1. ASSUME NEW c \in Calls, Progress(c)
      PROVE  IInv'
  <2>1. CASE Execute(c)
    BY <2>1, ExecuteKeeps
  <2>2. CASE ~Execute(c)
    <3>1. Answers(c)
      BY <1>1, <2>2, RefuseAnswers, ServerErrorAnswers, GetAnswers, SucceededAnswers,
         RefreshedAnswers, RenderAnswers, DetailErrorAnswers, ErrorAnswers DEF Progress
    <3> QED  BY <3>1, AnswersKeep
  <2> QED  BY <2>1, <2>2
<1> QED  BY <1>1, OpenKeeps, DecideKeeps, ConfirmKeeps, SubmitKeeps, ModalKeeps, CloseKeeps,
            NetworkKeeps, OthersKeep DEF Next

-----------------------------------------------------------------------------
(* Theorems.                                                               *)

LEMMA InitHolds == Init => IInv
<1> SUFFICES ASSUME Init  PROVE IInv
  OBVIOUS
<1>1. TypeOK  BY BoundsAssumption DEF Init, TypeOK, BoundsAssumption
<1>2. ServiceInv
  BY ServerData DEF Init, Server!Init, ServiceInv, RequestStatus, NegotiationStatus
<1>3. PageHolds /\ CallsHold /\ Alone  BY DEF Init, PageHolds, CallsHold, Alone
<1>4. Fresh  BY DEF Init, Fresh
<1>5. Numbered /\ Once /\ Guarded  BY DEF Init, Numbered, Once, Guarded
<1> QED  BY <1>1, <1>2, <1>3, <1>4, <1>5 DEF IInv

\* The inductive invariant of the page and the service holds in every run.
THEOREM PageInvariance == Spec => []IInv
<1>1. IInv /\ [Next]_vars => IInv'
  BY NextKeeps, StutterKeeps
<1> QED  BY InitHolds, <1>1, PTL DEF Spec

\* Type correctness of the state of the page, whatever is clicked, lost or answered with an error.
THEOREM PageTypeCorrect == Spec => []TypeOK
<1>1. IInv => TypeOK  BY DEF IInv
<1> QED  BY <1>1, PageInvariance, PTL

\* The page posts no price (app.js:410), and yet the turns keep the proposal on its
\* button the last one for a user who waits for the answers, for every number of
\* users, threads and counteroffers, as long as no connection fails and the page
\* could be read again after each counteroffer.
THEOREM AcceptedAsShownAlways == Spec => []AcceptedAsShown
<1>1. IInv => AcceptedAsShown
  BY DEF IInv, Fresh, Latest, AcceptedAsShown, At
<1> QED  BY <1>1, PageInvariance, PTL

\* Without any of these conditions: an accept (app.js:415) that hits another
\* proposal than the one on its button was overtaken by a counteroffer of the same
\* user.  A click on an old screen never agrees to what the other party put in
\* the place of its own proposal.
THEOREM OutdatedByMeOnlyAlways == Spec => []OutdatedByMeOnly
<1>1. ASSUME IInv, NEW c \in Calls, At(c, "done"), call[c].act = "accept",
             call[c].seen # Len(chain[call[c].neg])
      PROVE  chain[call[c].neg][call[c].seen + 1].actor = Me
  <2>1. PICK n, k : n = call[c].neg /\ k = call[c].seen
    OBVIOUS
  <2>2. Theirs(n, k)
    BY <1>1, <2>1 DEF IInv, CallsHold, CallHolds, Decisions, At
  <2>3. PICK s \in Seq(Proposal) : s = chain[n]
    BY <1>1, <2>2 DEF IInv, ServiceInv, Theirs, Ours
  <2>4. k \in 1 .. Len(s) /\ k + 1 \in 1 .. Len(s) /\ (k + 1) - 1 = k /\ k + 1 > 1
    BY <1>1, <2>1, <2>2, <2>3 DEF Theirs
  <2>5. Alternates(n) /\ Me \in Participants(owner[RequestOf(n)], n)
    BY <1>1, <2>2 DEF IInv, ServiceInv, Theirs, Ours
  <2>6. /\ s[k].actor \in Participants(owner[RequestOf(n)], n)
        /\ s[k + 1].actor \in Participants(owner[RequestOf(n)], n)
        /\ s[k + 1].actor # s[k].actor
    BY <2>3, <2>4, <2>5 DEF Alternates
  <2>7. s[k].actor # Me
    BY <2>2, <2>3 DEF Theirs
  <2> QED  BY <2>1, <2>3, <2>5, <2>6, <2>7 DEF Participants
<1>2. IInv => OutdatedByMeOnly
  BY <1>1 DEF OutdatedByMeOnly
<1> QED  BY <1>2, PageInvariance, PTL

\* The disabled buttons (withLoading, app.js:48) suffice: an intent of the user
\* has one effect at most, unless the page showed an error for a call that may
\* have had one: a connection failed, or refresh after the success of a modal.
THEOREM OneEffectUnlessMisreportedAlways == Spec => []OneEffectUnlessMisreported
<1>1. IInv => OneEffectUnlessMisreported
  BY DEF IInv, TypeOK, Once, OneEffectUnlessMisreported
<1> QED  BY <1>1, PageInvariance, PTL

\* A decision that the page offers is refused only if the thread has moved on
\* since it was read: the conditions of its buttons are those of the service.
THEOREM RefusedOnlyIfStaleAlways == Spec => RefusedOnlyIfStale
<1>1. ASSUME IInv, NEW c \in Calls, At(c, "post"), Refuse(c),
             call[c].act \in {"accept", "reject", "counter"},
             negStatus[call[c].neg] = "active",
             Len(chain[call[c].neg]) = call[c].seen
      PROVE  FALSE
  <2>1. Theirs(call[c].neg, call[c].seen)
    BY <1>1 DEF IInv, CallsHold, CallHolds, Decisions, At
  <2>2. ~Server!Answerable(Me, call[c].neg)
    BY <1>1 DEF Refuse, Granted
  <2> QED  BY <1>1, <2>1, <2>2, ServerData DEF Theirs, Ours, Server!Answerable, LastProposal
<1>2. IInv /\ [Next]_vars =>
         [\A c \in Calls :
             /\ At(c, "post") /\ Refuse(c)
             /\ call[c].act \in {"accept", "reject", "counter"}
             => \/ negStatus[call[c].neg] # "active"
                \/ Len(chain[call[c].neg]) # call[c].seen]_vars
  BY <1>1
<1> QED  BY <1>2, PageInvariance, PTL DEF Spec, RefusedOnlyIfStale
=============================================================================
