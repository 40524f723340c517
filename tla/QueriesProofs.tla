--------------------------- MODULE QueriesProofs ---------------------------
(***************************************************************************)
(* The detail of a thread is a snapshot, for every number of users,        *)
(* requests and proposals.  What makes it one: as long as the thread is    *)
(* active its columns are those of the first statement, so that with the   *)
(* proposals of any moment they are the state of that moment; and once it  *)
(* is decided its proposals no longer change.                              *)
(*                                                                         *)
(* A list read page by page misses rows only for rows that leave it.  A    *)
(* row is missed when it moves before the next page unread, and rows move  *)
(* up only when one before them leaves, by one place, so that of all that  *)
(* are unread just one can pass the reader.  That no row is left when a    *)
(* page is short follows by counting: the places before a row are taken.   *)
(***************************************************************************)
EXTENDS QueriesInvariant, FiniteSetTheorems, TLAPS

\* The service of the reads speaks of the same rows.
LEMMA ServiceData ==
    /\ Service!Negs = Negs
    /\ \A n : Service!Siblings(n) = Siblings(n)
    /\ \A c : Service!LastProposal(c) = LastProposal(c)
    /\ \A u, a, cur : Service!NewProposal(u, a, cur) = NewProposal(u, a, cur)
    /\ \A m, n, losers, old : Service!Settled(m, n, losers, old) = Settled(m, n, losers, old)
BY DEF Service!Negs, Service!Siblings, Service!RequestOf, Service!LastProposal,
       Service!NewProposal, Service!Settled, Negs, Siblings, RequestOf, LastProposal,
       NewProposal, Settled

LEMMA SnapshotInit == Init => SnapshotInv
BY ServiceData DEF Init, Service!Init, SnapshotInv, Rows, Consistent, ReadingDetail, DetailIsSnapshot

\* A command keeps the invariant, if it leaves alone whoever is not active and
\* either the columns or the proposals of each thread.
LEMMA SnapshotKept ==
    ASSUME SnapshotInv, Rows', Watch,
           \A n \in Negs :
              \/ /\ negStatus[n] # "none" => Thread(n)' = Thread(n)
                 /\ negStatus[n] # "none" => negStatus'[n] # "none"
              \/ /\ negStatus[n] = "active"
                 /\ negStatus'[n] \in Terminal
                 /\ chain'[n] = chain[n]
              \/ /\ negStatus[n] = "active"
                 /\ negStatus'[n] = "active"
                 /\ agreed'[n] = agreed[n]
    PROVE  SnapshotInv'
<1>1. UNCHANGED <<query, phase, first, detail>>
  BY DEF Watch, reader
<1>2. DetailIsSnapshot'
  BY <1>1 DEF Watch, SnapshotInv, DetailIsSnapshot
<1>3. ASSUME ReadingDetail'
      PROVE  /\ query'.neg \in Negs
             /\ negStatus'[query'.neg] # "none"
             /\ Detail(query.neg)' \in held'
             /\ negStatus'[query'.neg] = "active" => Detail(query.neg)' = Thread(query.neg)'
  <2> DEFINE n == query.neg
  <2>1. /\ ReadingDetail
        /\ n \in Negs /\ negStatus[n] # "none"
        /\ Detail(n) \in held
        /\ negStatus[n] = "active" => Detail(n) = Thread(n)
    BY <1>1, <1>3 DEF ReadingDetail, SnapshotInv, Consistent
  <2>2. held' = held \cup {Thread(n)'} /\ query' = query /\ first' = first
    BY <1>1, <2>1 DEF Watch, ReadingDetail
  <2>3. CASE Thread(n)' = Thread(n) /\ negStatus'[n] # "none"
    BY <2>1, <2>2, <2>3 DEF Thread, Detail
  <2>4. CASE negStatus[n] = "active" /\ negStatus'[n] \in Terminal /\ chain'[n] = chain[n]
    BY <2>1, <2>2, <2>4 DEF Thread, Detail, Terminal
  <2>5. CASE negStatus[n] = "active" /\ negStatus'[n] = "active" /\ agreed'[n] = agreed[n]
    BY <2>1, <2>2, <2>5 DEF Thread, Detail
  <2> QED BY <2>1, <2>2, <2>3, <2>4, <2>5
<1> QED BY <1>1, <1>2, <1>3 DEF SnapshotInv, Consistent

LEMMA SnapshotStep == SnapshotInv /\ [Next]_vars => SnapshotInv'
<1> SUFFICES ASSUME SnapshotInv, [Next]_vars PROVE SnapshotInv'
  OBVIOUS
<1>1. CASE \E c \in Clients, r \in Requests : CreateRequest(c, r)
  <2>1. UNCHANGED <<negStatus, agreed, chain>> /\ Watch
    BY <1>1 DEF CreateRequest, Service!CreateRequest
  <2> QED BY <2>1, SnapshotKept DEF SnapshotInv, Rows, Thread
<1>2. ASSUME NEW s \in Suppliers, NEW r \in Requests, NEW a \in Amounts, NEW cur \in Currencies,
             MakeOffer(s, r, a, cur)
      PROVE  SnapshotInv'
  <2>1. <<r, s>> \in Negs /\ Watch
    BY <1>2 DEF MakeOffer, Negs
  <2>2. /\ negStatus[<<r, s>>] = "none"
        /\ negStatus' = [negStatus EXCEPT ![<<r, s>>] = "active"]
        /\ chain' = [chain EXCEPT ![<<r, s>>] = <<NewProposal(s, a, cur)>>]
        /\ agreed' = agreed
    BY <1>2, ServiceData DEF MakeOffer, Service!MakeOffer
  <2>3. Rows'
    BY <2>1, <2>2 DEF SnapshotInv, Rows
  <2>4. \A n \in Negs : negStatus[n] # "none" => Thread(n)' = Thread(n) /\ negStatus'[n] # "none"
    BY <2>1, <2>2 DEF SnapshotInv, Rows, Thread
  <2> QED BY <2>1, <2>3, <2>4, SnapshotKept
<1>3. ASSUME NEW u \in Users, NEW n \in Negs, Respond(u, n)
      PROVE  SnapshotInv'
  <2>1. Watch
    BY <1>3 DEF Respond
  <2>2. CASE Service!Accept(u, n)
    <3> DEFINE losers == {m \in Siblings(n) : negStatus[m] = "active"}
    <3>1. /\ negStatus[n] = "active" /\ chain' = chain
          /\ negStatus' = [m \in Negs |-> Settled(m, n, losers, negStatus[m])]
          /\ agreed' = [agreed EXCEPT ![n] = LastProposal(chain[n]).amount]
      BY <2>2, ServiceData DEF Service!Accept, Service!Answerable
    <3>2. Rows'
      BY <3>1 DEF SnapshotInv, Rows
    <3>3. \A m \in Negs : m = n \/ m \in losers =>
              negStatus[m] = "active" /\ negStatus'[m] \in Terminal
      BY <3>1 DEF Settled, Terminal
    <3>4. \A m \in Negs : m # n /\ m \notin losers => Thread(m)' = Thread(m)
      BY <3>1 DEF Settled, Thread, SnapshotInv, Rows
    <3>5. \A m \in Negs : m # n /\ m \notin losers => negStatus'[m] = negStatus[m]
      BY <3>1 DEF Settled
    <3>6. Watch /\ chain' = chain
      BY <2>1, <3>1
    <3> HIDE DEF losers
    <3> QED BY <3>2, <3>3, <3>4, <3>5, <3>6, SnapshotKept
  <2>3. CASE Service!Reject(u, n)
    <3>1. /\ negStatus[n] = "active" /\ chain' = chain /\ agreed' = agreed
          /\ negStatus' = [negStatus EXCEPT ![n] = "rejected"]
      BY <2>3 DEF Service!Reject, Service!Answerable
    <3>2. Rows'
      BY <3>1 DEF SnapshotInv, Rows
    <3>3. /\ negStatus'[n] \in Terminal
          /\ \A m \in Negs : m # n => Thread(m)' = Thread(m) /\ negStatus'[m] = negStatus[m]
      BY <3>1 DEF SnapshotInv, Rows, Thread, Terminal
    <3> QED BY <2>1, <3>1, <3>2, <3>3, SnapshotKept
  <2>4. ASSUME NEW a \in Amounts, Service!Counter(u, n, a)
        PROVE  SnapshotInv'
    <3>1. /\ negStatus[n] = "active" /\ negStatus' = negStatus /\ agreed' = agreed
          /\ chain' = [chain EXCEPT ![n] =
                Append(@, NewProposal(u, a, LastProposal(@).currency))]
      BY <2>4, ServiceData DEF Service!Counter, Service!Answerable
    <3>2. Rows'
      BY <3>1 DEF SnapshotInv, Rows
    <3>3. \A m \in Negs : m # n => Thread(m)' = Thread(m)
      BY <3>1 DEF SnapshotInv, Rows, Thread
    <3> QED BY <2>1, <3>1, <3>2, <3>3, SnapshotKept
  <2> QED BY <1>3, <2>2, <2>3, <2>4 DEF Respond
<1>4. ASSUME NEW u \in Users, NEW n \in Negs, GetNegotiation(u, n)
      PROVE  SnapshotInv'
  BY <1>4 DEF GetNegotiation, service, SnapshotInv, Rows, Consistent, ReadingDetail,
              DetailIsSnapshot, Detail, Thread
<1>5. CASE \E u \in Users, kind \in {"requests", "negotiations"} : StartList(u, kind)
  BY <1>5 DEF StartList, service, SnapshotInv, Rows, Consistent, ReadingDetail, DetailIsSnapshot
<1>6. CASE LoadProposals
  BY <1>6 DEF LoadProposals, service, history, SnapshotInv, Rows, Consistent, ReadingDetail,
              DetailIsSnapshot
<1>7. CASE NextPage
  BY <1>7 DEF NextPage, service, history, SnapshotInv, Rows, Consistent, ReadingDetail,
              DetailIsSnapshot
<1>8. CASE UNCHANGED vars
  BY <1>8 DEF vars, service, reader, history, SnapshotInv, Rows, Consistent, ReadingDetail,
              DetailIsSnapshot, Detail, Thread
<1> QED BY <1>1, <1>2, <1>3, <1>4, <1>5, <1>6, <1>7, <1>8 DEF Next

\* What GET /negotiations/{id} answers is a state the thread was in while the
\* call was served, whatever the parties did between its two statements.
THEOREM DetailIsAlwaysSnapshot == Spec => []DetailIsSnapshot
<1>1. SnapshotInv => DetailIsSnapshot
  BY DEF SnapshotInv
<1> QED BY SnapshotInit, SnapshotStep, <1>1, PTL DEF Spec

-----------------------------------------------------------------------------
(* The place of a row among ordered rows.                                  *)

AboveIn(R, x, S) == {y \in S : <<y, x>> \in R}
RankIn(R, x, S) == Cardinality(AboveIn(R, x, S))

\* Of x, in S ordered by R: its place, and the rows before it.
LEMMA RankIsNat ==
    ASSUME NEW R, NEW S, Orders(R, S), NEW x
    PROVE  /\ IsFiniteSet(AboveIn(R, x, S))
           /\ AboveIn(R, x, S) \in SUBSET S
           /\ RankIn(R, x, S) \in Nat
<1>1. AboveIn(R, x, S) \in SUBSET S
  BY DEF AboveIn
<1>2. IsFiniteSet(AboveIn(R, x, S))
  BY <1>1, FS_Subset DEF Orders
<1> QED  BY <1>1, <1>2, FS_CardinalityType DEF RankIn

LEMMA RankGrows ==
    ASSUME NEW R, NEW S, Orders(R, S), NEW x \in S, NEW y \in S, <<y, x>> \in R
    PROVE  RankIn(R, y, S) < RankIn(R, x, S)
<1> DEFINE A == AboveIn(R, x, S)
           B == AboveIn(R, y, S)
<1>1. B \in SUBSET A
  BY DEF AboveIn, Orders
<1>2. y \in A /\ y \notin B
  BY DEF AboveIn, Orders
<1>3. IsFiniteSet(A) /\ Cardinality(A) \in Nat /\ Cardinality(B) \in Nat
  BY RankIsNat DEF RankIn
<1> HIDE DEF A, B
<1>4. Cardinality(B) <= Cardinality(A) /\ Cardinality(A) # Cardinality(B)
  BY <1>1, <1>2, <1>3, FS_Subset
<1>5. Cardinality(B) < Cardinality(A)
  BY <1>3, <1>4
<1> QED  BY <1>5 DEF A, B, RankIn

\* No two rows are at one place.
LEMMA RanksDiffer ==
    ASSUME NEW R, NEW S, Orders(R, S), NEW x \in S, NEW y \in S,
           RankIn(R, x, S) = RankIn(R, y, S)
    PROVE  x = y
<1>1. x = y \/ <<x, y>> \in R \/ <<y, x>> \in R
  BY DEF Orders
<1>2. RankIn(R, x, S) \in Nat /\ RankIn(R, y, S) \in Nat
  BY RankIsNat
<1> QED  BY <1>1, <1>2, RankGrows

\* Every place before that of a row is taken.
LEMMA RanksReached ==
    ASSUME NEW R, NEW S, Orders(R, S), NEW x \in S,
           NEW k \in Nat, k < RankIn(R, x, S)
    PROVE  \E y \in S : RankIn(R, y, S) = k
<1> DEFINE A == AboveIn(R, x, S)
           m == RankIn(R, x, S)
           f == [y \in A |-> RankIn(R, y, S)]
<1>1. IsFiniteSet(A) /\ A \in SUBSET S /\ m \in Nat /\ Cardinality(A) = m
  BY RankIsNat DEF RankIn
<1>2. \A y \in A : RankIn(R, y, S) \in 0 .. m - 1
  <2> TAKE y \in A
  <2>1. y \in S /\ <<y, x>> \in R
    BY DEF AboveIn
  <2>2. RankIn(R, y, S) < m /\ RankIn(R, y, S) \in Nat
    BY <2>1, RankGrows, RankIsNat
  <2> QED  BY <1>1, <2>2
<1>3. f \in Injection(A, 0 .. m - 1)
  <2>1. \A y, z \in A : f[y] = f[z] => y = z
    BY <1>1, RanksDiffer
  <2> QED  BY <1>2, <2>1 DEF Injection, IsInjective
<1> HIDE DEF A, m, f
<1>4. IsFiniteSet(0 .. m - 1) /\ Cardinality(0 .. m - 1) = m
  <2>1. 0 \in Int /\ m - 1 \in Int /\ (0 > m - 1 => m = 0) /\ (m - 1) - 0 + 1 = m
    BY <1>1
  <2>2. /\ IsFiniteSet(0 .. m - 1)
        /\ Cardinality(0 .. m - 1) = IF 0 > m - 1 THEN 0 ELSE (m - 1) - 0 + 1
    BY <2>1, FS_Interval
  <2> QED  BY <2>1, <2>2
<1>5. f \in Surjection(A, 0 .. m - 1)
  BY <1>1, <1>3, <1>4, FS_Injection
<1>6. k \in 0 .. m - 1
  BY <1>1 DEF m
<1>7. \E y \in A : f[y] = k
  BY <1>5, <1>6 DEF Surjection
<1> QED  BY <1>1, <1>7 DEF f

\* After a page that is not full there are no more rows.
LEMMA ShortPageIsLast ==
    ASSUME NEW R, NEW S, Orders(R, S), NEW o \in Nat, NEW l \in Nat,
           NEW page, page = {x \in S : RankIn(R, x, S) \in o .. o + l - 1},
           Cardinality(page) < l, NEW x \in S
    PROVE  RankIn(R, x, S) < o + l
<1> SUFFICES ASSUME ~ (RankIn(R, x, S) < o + l) PROVE FALSE
  OBVIOUS
<1> DEFINE places == o .. o + l - 1
           f == [y \in page |-> RankIn(R, y, S)]
<1>1. RankIn(R, x, S) \in Nat
  BY RankIsNat
<1>2. \A k \in places : \E y \in page : f[y] = k
  <2> TAKE k \in places
  <2>1. k \in Nat /\ k < RankIn(R, x, S)
    BY <1>1
  <2>2. PICK y \in S : RankIn(R, y, S) = k
    BY <2>1, RanksReached
  <2> QED  BY <2>2
<1>3. f \in Surjection(page, places)
  BY <1>2 DEF Surjection
<1>4. IsFiniteSet(page)
  BY FS_Subset DEF Orders
<1>5. Cardinality(places) = l
  BY FS_Interval
<1>6. Cardinality(page) \in Nat
  BY <1>4, FS_CardinalityType
<1> HIDE DEF f, places
<1>7. Cardinality(places) <= Cardinality(page)
  BY <1>3, <1>4, FS_Surjection
<1> QED  BY <1>5, <1>6, <1>7

\* A row more: nobody moves up.
LEMMA RankAfterInsert ==
    ASSUME NEW R, NEW S, NEW Q, NEW T, Orders(R, S), Orders(Q, T),
           S \subseteq T, R \subseteq Q, NEW x \in S
    PROVE  RankIn(R, x, S) <= RankIn(Q, x, T)
<1>1. AboveIn(R, x, S) \in SUBSET AboveIn(Q, x, T)
  BY DEF AboveIn
<1> QED  BY <1>1, RankIsNat, FS_Subset DEF RankIn

\* A row less: who was behind it moves up by one place.
LEMMA RankAfterRemove ==
    ASSUME NEW R, NEW S, Orders(R, S), NEW w, NEW x \in S \ {w}
    PROVE  RankIn(R, x, S) <= RankIn(R, x, S \ {w}) + 1
<1> DEFINE A == AboveIn(R, x, S)
<1>1. AboveIn(R, x, S \ {w}) = A \ {w}
  BY DEF AboveIn
<1>2. IsFiniteSet(A) /\ Cardinality(A) \in Nat
  BY RankIsNat DEF RankIn
<1> HIDE DEF A
<1>3. Cardinality(A \ {w}) \in {Cardinality(A) - 1, Cardinality(A)}
  BY <1>2, FS_RemoveElement
<1>4. Cardinality(A) <= Cardinality(A \ {w}) + 1
  BY <1>2, <1>3
<1> QED  BY <1>1, <1>4 DEF A, RankIn

\* Parts of an order are ordered.
LEMMA PartOrders ==
    ASSUME NEW R, NEW S, Orders(R, S), NEW T, T \subseteq S
    PROVE  Orders(R, T)
<1>1. IsFiniteSet(T)
  BY FS_Subset DEF Orders
<1> QED  BY <1>1 DEF Orders

\* A row drawn below those that were drawn later has its place, too.
LEMMA InsertOrders ==
    ASSUME NEW R, NEW S, Orders(R, S), NEW w, w \notin S, NEW older \in SUBSET S,
           \A x : <<w, x>> \notin R /\ <<x, w>> \notin R,
           \A x \in older : \A y \in S : <<x, y>> \in R => y \in older,
           NEW Q, Q = R \cup ({w} \X older) \cup ((S \ older) \X {w})
    PROVE  Orders(Q, S \cup {w})
<1>1. IsFiniteSet(S \cup {w})
  BY FS_AddElement DEF Orders
<1>2. \A x, y \in S : <<x, y>> \in Q <=> <<x, y>> \in R
  OBVIOUS
<1>3. /\ <<w, w>> \notin Q
      /\ \A x \in S : <<w, x>> \in Q <=> x \in older
      /\ \A x \in S : <<x, w>> \in Q <=> x \notin older
  OBVIOUS
<1>4. \A x \in S \cup {w} : <<x, x>> \notin Q
  BY <1>2, <1>3 DEF Orders
<1>5. \A x, y \in S \cup {w} : x = y \/ <<x, y>> \in Q \/ <<y, x>> \in Q
  BY <1>2, <1>3 DEF Orders
<1>6. ASSUME NEW x \in S \cup {w}, NEW y \in S \cup {w}, NEW z \in S \cup {w},
             <<x, y>> \in Q, <<y, z>> \in Q
      PROVE  <<x, z>> \in Q
  <2>1. CASE x = w
    BY <1>2, <1>3, <1>6, <2>1
  <2>2. CASE x \in S /\ y = w
    <3>1. z \in older /\ x \notin older
      BY <1>3, <1>6, <2>2
    <3> QED  BY <1>2, <2>2, <3>1 DEF Orders
  <2>3. CASE x \in S /\ y \in S /\ z = w
    BY <1>2, <1>3, <1>6, <2>3
  <2>4. CASE x \in S /\ y \in S /\ z \in S
    BY <1>2, <1>6, <2>4 DEF Orders
  <2> QED  BY <2>1, <2>2, <2>3, <2>4
<1> QED  BY <1>1, <1>4, <1>5, <1>6 DEF Orders

\* The order of the other table is untouched by what is drawn for this one.
LEMMA SameOrder ==
    ASSUME NEW R, NEW S, Orders(R, S),
           NEW Q, \A x, y \in S : <<x, y>> \in R <=> <<x, y>> \in Q
    PROVE  Orders(Q, S)
BY DEF Orders

LEMMA InsertKeepsOrder ==
    ASSUME NEW S, NEW T, S \cap T = {}, newer \subseteq (S \X S) \cup (T \X T),
           Orders(newer, S), Orders(newer, T), NEW w, w \notin S, w \notin T, Insert(w, S)
    PROVE  /\ newer \subseteq newer'
           /\ newer' \subseteq ((S \cup {w}) \X (S \cup {w})) \cup (T \X T)
           /\ Orders(newer', S \cup {w}) /\ Orders(newer', T)
<1>1. PICK older \in SUBSET S :
          /\ \A x \in older : \A y \in S : <<x, y>> \in newer => y \in older
          /\ newer' = newer \cup ({w} \X older) \cup ((S \ older) \X {w})
  BY DEF Insert
<1>2. \A x : <<w, x>> \notin newer /\ <<x, w>> \notin newer
  OBVIOUS
<1>3. Orders(newer', S \cup {w})
  BY <1>1, <1>2, InsertOrders
<1>4. \A x, y \in T : <<x, y>> \in newer <=> <<x, y>> \in newer'
  BY <1>1
<1>5. Orders(newer', T)
  BY <1>4, SameOrder
<1>6. newer \subseteq newer' /\ newer' \subseteq ((S \cup {w}) \X (S \cup {w})) \cup (T \X T)
  BY <1>1
<1> QED  BY <1>3, <1>5, <1>6

-----------------------------------------------------------------------------
(* The service.                                                            *)

LEMMA NegParts ==
    ASSUME NEW n \in Negs
    PROVE  RequestOf(n) \in Requests /\ SupplierOf(n) \in Suppliers
BY DEF Negs, RequestOf, SupplierOf

LEMMA ProposalMade ==
    ASSUME NEW u \in Users, NEW a \in Amounts, NEW cur \in Currencies
    PROVE  NewProposal(u, a, cur) \in Proposal
BY DEF NewProposal, Proposal

\* A command adds rows to a list, or takes one from a list that is not permanent.
ListsKept ==
    /\ newer \subseteq newer'
    /\ \A q \in ListQuery :
          \/ Listed(q) \subseteq Listed(q)'
          \/ newer' = newer /\ ~ Permanent(q) /\ \E w : Listed(q)' = Listed(q) \ {w}

LEMMA CreateServed ==
    ASSUME ServiceHolds, IdsHold, NEW c \in Clients, NEW r \in Requests, CreateRequest(c, r)
    PROVE  ServiceHolds' /\ IdsHold' /\ ListsKept
<1>1. /\ reqStatus[r] = "none"
      /\ owner' = [owner EXCEPT ![r] = c]
      /\ reqStatus' = [reqStatus EXCEPT ![r] = "open"]
      /\ UNCHANGED <<negStatus, chain, agreed>>
      /\ Insert(r, RequestRows)
  BY DEF CreateRequest, Service!CreateRequest, RequestRows
<1>2. owner[r] = Null /\ \A u \in Users : u # Null
  BY <1>1, UsersAssumption DEF ServiceHolds, Users
<1>3. ServiceHolds'
  BY <1>1, NegParts DEF ServiceHolds, RequestStatus
<1>4. RequestRows' = RequestRows \cup {r} /\ NegRows' = NegRows
  BY <1>1 DEF RequestRows, NegRows, ServiceHolds
<1>5. /\ RequestRows \cap NegRows = {} /\ r \notin RequestRows /\ r \notin NegRows
  BY <1>1, TablesAssumption DEF RequestRows, NegRows
<1>6. newer \subseteq newer' /\ IdsHold'
  <2>1. /\ newer \subseteq newer'
        /\ newer' \subseteq ((RequestRows \cup {r}) \X (RequestRows \cup {r}))
                            \cup (NegRows \X NegRows)
        /\ Orders(newer', RequestRows \cup {r}) /\ Orders(newer', NegRows)
    BY <1>1, <1>5, InsertKeepsOrder DEF IdsHold
  <2> QED  BY <1>4, <2>1 DEF IdsHold, Orders
<1>7. ASSUME NEW q \in ListQuery PROVE Listed(q) \subseteq Listed(q)'
  <2>1. q.user \in Users
    BY DEF ListQuery
  <2>2. ListRequests(q.user) \subseteq ListRequests(q.user)'
    BY <1>1, <1>2, <2>1 DEF ListRequests, ServiceHolds
  <2>3. ListNegotiations(q.user) \subseteq ListNegotiations(q.user)'
    BY <1>1, <1>2, <2>1, NegParts DEF ListNegotiations, ServiceHolds
  <2> QED  BY <2>2, <2>3 DEF Listed
<1> QED  BY <1>3, <1>6, <1>7 DEF ListsKept

LEMMA OfferServed ==
    ASSUME ServiceHolds, IdsHold, NEW s \in Suppliers, NEW r \in Requests, NEW a \in Amounts,
           NEW cur \in Currencies, MakeOffer(s, r, a, cur)
    PROVE  ServiceHolds' /\ IdsHold' /\ ListsKept
<1> DEFINE n == <<r, s>>
           p == NewProposal(s, a, cur)
<1>1. n \in Negs /\ RequestOf(n) = r
  BY DEF Negs, RequestOf
<1>2. /\ reqStatus[r] = "open" /\ negStatus[n] = "none"
      /\ negStatus' = [negStatus EXCEPT ![n] = "active"]
      /\ chain' = [chain EXCEPT ![n] = <<p>>]
      /\ UNCHANGED <<owner, reqStatus, agreed>>
      /\ Insert(n, NegRows)
  BY ServiceData DEF MakeOffer, Service!MakeOffer, NegRows
<1>3. p \in Proposal
  BY ProposalMade DEF Users
<1> HIDE DEF n, p
<1>4. <<p>> \in Seq(Proposal) /\ Len(<<p>>) > 0
  BY <1>3
<1>5. ServiceHolds'
  <2>1. negStatus' \in [Negs -> NegotiationStatus] /\ chain' \in [Negs -> Seq(Proposal)]
    BY <1>1, <1>2, <1>4 DEF ServiceHolds, NegotiationStatus
  <2>2. \A m \in Negs : negStatus'[m] # "none" =>
            Len(chain'[m]) > 0 /\ reqStatus'[RequestOf(m)] # "none"
    BY <1>1, <1>2, <1>4 DEF ServiceHolds
  <2> QED  BY <1>2, <2>1, <2>2 DEF ServiceHolds
<1>6. RequestRows' = RequestRows /\ NegRows' = NegRows \cup {n}
  BY <1>1, <1>2 DEF RequestRows, NegRows, ServiceHolds
<1>7. NegRows \cap RequestRows = {} /\ n \notin RequestRows /\ n \notin NegRows
  BY <1>1, <1>2, TablesAssumption DEF RequestRows, NegRows
<1>8. newer \subseteq newer' /\ IdsHold'
  <2>1. /\ newer \subseteq newer'
        /\ newer' \subseteq ((NegRows \cup {n}) \X (NegRows \cup {n}))
                            \cup (RequestRows \X RequestRows)
        /\ Orders(newer', NegRows \cup {n}) /\ Orders(newer', RequestRows)
    BY <1>2, <1>7, InsertKeepsOrder DEF IdsHold
  <2> QED  BY <1>6, <2>1 DEF IdsHold, Orders
<1>9. ASSUME NEW q \in ListQuery PROVE Listed(q) \subseteq Listed(q)'
  <2>1. ListRequests(q.user) \subseteq ListRequests(q.user)'
    BY <1>2 DEF ListRequests
  <2>2. ListNegotiations(q.user) \subseteq ListNegotiations(q.user)'
    BY <1>2 DEF ListNegotiations, ServiceHolds
  <2> QED  BY <2>1, <2>2 DEF Listed
<1> QED  BY <1>5, <1>8, <1>9 DEF ListsKept

\* Answering a thread neither makes rows nor takes them away: an accept closes
\* a request, which suppliers then no longer see.
LEMMA AnswerServed ==
    ASSUME ServiceHolds, IdsHold, NEW u \in Users, NEW n \in Negs, Respond(u, n)
    PROVE  ServiceHolds' /\ IdsHold' /\ ListsKept
<1> DEFINE r == RequestOf(n)
<1>1. /\ negStatus[n] = "active" /\ owner' = owner /\ newer' = newer
      /\ r \in Requests /\ Len(chain[n]) > 0 /\ reqStatus[r] # "none"
  BY NegParts DEF Respond, Service!Accept, Service!Reject, Service!Counter,
                  Service!Answerable, ServiceHolds
<1>2. LastProposal(chain[n]) \in Proposal
  BY <1>1 DEF ServiceHolds, LastProposal
<1>3. /\ negStatus' \in [Negs -> NegotiationStatus]
      /\ \A m \in Negs : negStatus'[m] # "none" <=> negStatus[m] # "none"
      /\ chain' \in [Negs -> Seq(Proposal)]
      /\ \A m \in Negs : Len(chain[m]) > 0 => Len(chain'[m]) > 0
      /\ agreed' \in [Negs -> Amounts \cup {Null}]
      /\ reqStatus' = reqStatus \/ reqStatus' = [reqStatus EXCEPT ![r] = "closed"]
  <2>1. CASE Service!Accept(u, n)
    <3> DEFINE losers == {m \in Siblings(n) : negStatus[m] = "active"}
    <3>1. /\ negStatus' = [m \in Negs |-> Settled(m, n, losers, negStatus[m])]
          /\ agreed' = [agreed EXCEPT ![n] = LastProposal(chain[n]).amount]
          /\ reqStatus' = [reqStatus EXCEPT ![r] = "closed"] /\ chain' = chain
      BY <2>1, ServiceData DEF Service!Accept, Service!RequestOf, RequestOf
    <3>2. \A m \in losers : negStatus[m] = "active"
      OBVIOUS
    <3> HIDE DEF losers
    <3>3. negStatus' \in [Negs -> NegotiationStatus]
      BY <3>1 DEF ServiceHolds, Settled, NegotiationStatus
    <3>4. \A m \in Negs : negStatus'[m] # "none" <=> negStatus[m] # "none"
      BY <1>1, <3>1, <3>2 DEF Settled
    <3>5. agreed' \in [Negs -> Amounts \cup {Null}]
      BY <1>2, <3>1 DEF ServiceHolds, Proposal
    <3> QED  BY <3>1, <3>3, <3>4, <3>5 DEF ServiceHolds
  <2>2. CASE Service!Reject(u, n)
    BY <1>1, <2>2 DEF Service!Reject, ServiceHolds, NegotiationStatus
  <2>3. ASSUME NEW a \in Amounts, Service!Counter(u, n, a)
        PROVE  /\ negStatus' = negStatus /\ agreed' = agreed /\ reqStatus' = reqStatus
               /\ chain' \in [Negs -> Seq(Proposal)]
               /\ \A m \in Negs : Len(chain[m]) > 0 => Len(chain'[m]) > 0
    <3> DEFINE p == NewProposal(u, a, LastProposal(chain[n]).currency)
               c == Append(chain[n], p)
    <3>1. /\ negStatus' = negStatus /\ agreed' = agreed /\ reqStatus' = reqStatus
          /\ chain' = [chain EXCEPT ![n] = c]
      BY <2>3, ServiceData DEF Service!Counter
    <3>2. p \in Proposal
      BY <1>2, ProposalMade DEF Proposal
    <3>3. chain[n] \in Seq(Proposal)
      BY DEF ServiceHolds
    <3> HIDE DEF p
    <3>4. c \in Seq(Proposal) /\ Len(c) > 0
      BY <3>2, <3>3
    <3> HIDE DEF c
    <3> QED  BY <3>1, <3>4 DEF ServiceHolds
  <2>4. \/ Service!Accept(u, n) \/ Service!Reject(u, n)
        \/ \E a \in Amounts : Service!Counter(u, n, a)
    BY DEF Respond
  <2> QED  BY <2>1, <2>2, <2>3, <2>4 DEF ServiceHolds
<1>4. \A q \in Requests : reqStatus'[q] # "none" <=> reqStatus[q] # "none"
  BY <1>1, <1>3 DEF ServiceHolds
<1>5. ServiceHolds'
  <2>1. reqStatus' \in [Requests -> RequestStatus]
    BY <1>1, <1>3 DEF ServiceHolds, RequestStatus
  <2> QED  BY <1>1, <1>3, <1>4, <2>1, NegParts DEF ServiceHolds
<1>6. RequestRows' = RequestRows /\ NegRows' = NegRows
  BY <1>3, <1>4 DEF RequestRows, NegRows
<1>7. IdsHold'
  BY <1>1, <1>6 DEF IdsHold, Orders
<1>8. ASSUME NEW q \in ListQuery
      PROVE  \/ Listed(q) \subseteq Listed(q)'
             \/ ~ Permanent(q) /\ \E w : Listed(q)' = Listed(q) \ {w}
  <2>1. CASE q.kind = "negotiations"
    BY <1>1, <1>3, <2>1 DEF Listed, ListNegotiations
  <2>2. CASE q.kind = "requests" /\ q.user \in Clients
    BY <1>1, <2>2 DEF Listed, ListRequests
  <2>3. CASE q.kind = "requests" /\ q.user \notin Clients
    <3>1. \/ ListRequests(q.user)' = ListRequests(q.user)
          \/ ListRequests(q.user)' = ListRequests(q.user) \ {r}
      <4>1. CASE reqStatus' = reqStatus
        BY <2>3, <4>1 DEF ListRequests
      <4>2. CASE reqStatus' = [reqStatus EXCEPT ![r] = "closed"]
        <5>1. \A x \in Requests : reqStatus'[x] = IF x = r THEN "closed" ELSE reqStatus[x]
          BY <4>2 DEF ServiceHolds
        <5> QED  BY <2>3, <5>1 DEF ListRequests
      <4> QED  BY <1>3, <4>1, <4>2
    <3>2. ~ Permanent(q)
      BY <2>3 DEF Permanent
    <3> QED  BY <2>3, <3>1, <3>2 DEF Listed
  <2> QED  BY <2>1, <2>2, <2>3 DEF ListQuery
<1> QED  BY <1>1, <1>5, <1>7, <1>8 DEF ListsKept

-----------------------------------------------------------------------------
(* The lists, page by page.                                                *)

\* What is listed is of one table, and so in order.
ListsOrdered ==
    ServiceHolds /\ IdsHold =>
        \A q \in ListQuery : /\ Orders(newer, Listed(q))
                             /\ Listed(q) \subseteq Requests \cup Negs

LEMMA ListedOrders == ListsOrdered
<1> SUFFICES ASSUME ServiceHolds, IdsHold, NEW q \in ListQuery
             PROVE  /\ Orders(newer, Listed(q))
                    /\ Listed(q) \subseteq Requests \cup Negs
  BY DEF ListsOrdered
<1>1. q.user \in Users /\ \A u \in Users : u # Null
  BY UsersAssumption DEF ListQuery, Users
<1>2. ListRequests(q.user) \subseteq RequestRows
  <2>1. \A r \in Requests : owner[r] = q.user => reqStatus[r] # "none"
    BY <1>1 DEF ServiceHolds
  <2> QED  BY <2>1 DEF ListRequests, RequestRows
<1>3. ListNegotiations(q.user) \subseteq NegRows
  BY DEF ListNegotiations, NegRows
<1>4. RequestRows \subseteq Requests /\ NegRows \subseteq Negs
  BY DEF RequestRows, NegRows
<1> QED  BY <1>2, <1>3, <1>4, PartOrders DEF IdsHold, Listed

LEMMA ListedOrdersNext == ListsOrdered'
BY ListedOrders, PTL

LEMMA BehindFinite ==
    ASSUME ServiceHolds, IdsHold, query \in ListQuery, steady \subseteq Listed(query)
    PROVE  IsFiniteSet(Behind) /\ Cardinality(Behind) \in Nat
<1>1. Behind \in SUBSET Listed(query)
  BY DEF Behind
<1> QED  BY <1>1, ListedOrders, FS_Subset, FS_CardinalityType DEF ListsOrdered, Orders

\* Of the rows A those that stand before place o.
Before(R, S, A, o) == {x \in A : RankIn(R, x, S) < o}

\* What a command does to the rows S of a list in the order R.
MoreOrOneLess(R, S, Q, T) ==
    \/ S \subseteq T /\ R \subseteq Q
    \/ R = Q /\ \E w : T = S \ {w}

\* Of the rows that are on no page so far, a command moves before the next page
\* as many as it takes from the list.
LEMMA BehindKept ==
    ASSUME NEW R, NEW S, NEW Q, NEW T, Orders(R, S), Orders(Q, T), MoreOrOneLess(R, S, Q, T),
           NEW A \in SUBSET S, NEW o \in Nat
    PROVE  /\ Cardinality(Before(R, S, A, o)) \in Nat
           /\ Cardinality(Before(Q, T, A \cap T, o)) \in Nat
           /\ Cardinality(S \ T) \in Nat
           /\ Cardinality(Before(Q, T, A \cap T, o)) <=
                  Cardinality(Before(R, S, A, o)) + Cardinality(S \ T)
<1> DEFINE B == A \cap T
<1>0. PICK before, after : /\ before = Before(R, S, A, o) /\ after = Before(Q, T, B, o)
                           /\ before = {x \in A : RankIn(R, x, S) < o}
                           /\ after = {x \in B : RankIn(Q, x, T) < o}
  BY DEF Before
<1>1. /\ IsFiniteSet(before) /\ Cardinality(before) \in Nat
      /\ IsFiniteSet(after) /\ Cardinality(after) \in Nat
      /\ IsFiniteSet(S \ T) /\ Cardinality(S \ T) \in Nat
  <2>1. before \in SUBSET S /\ after \in SUBSET S /\ S \ T \in SUBSET S
    BY <1>0
  <2> QED  BY <2>1, FS_Subset, FS_CardinalityType DEF Orders
<1>2. ASSUME S \subseteq T, R \subseteq Q
      PROVE  Cardinality(after) <= Cardinality(before) + Cardinality(S \ T)
  <2>1. \A x \in B : RankIn(R, x, S) <= RankIn(Q, x, T)
    BY <1>2, RankAfterInsert
  <2>2. \A x \in B : RankIn(R, x, S) \in Nat /\ RankIn(Q, x, T) \in Nat
    BY RankIsNat
  <2>3. after \in SUBSET before
    <3>1. \A x \in B : RankIn(Q, x, T) < o => RankIn(R, x, S) < o
      BY <2>1, <2>2
    <3> QED  BY <1>0, <3>1
  <2>4. Cardinality(after) <= Cardinality(before)
    BY <1>1, <2>3, FS_Subset
  <2> QED  BY <1>1, <2>4
<1>3. ASSUME NEW w, T = S \ {w}, w \notin S, R = Q
      PROVE  Cardinality(after) <= Cardinality(before) + Cardinality(S \ T)
  <2>1. T = S
    BY <1>3
  <2>2. after = before
    BY <1>0, <1>3, <2>1
  <2> QED  BY <1>1, <2>2
<1>4. ASSUME NEW w \in S, T = S \ {w}, R = Q
      PROVE  Cardinality(after) <= Cardinality(before) + Cardinality(S \ T)
  <2> DEFINE moved == {x \in B : RankIn(R, x, S) = o}
  <2>1. \A x \in B : RankIn(R, x, S) <= RankIn(Q, x, T) + 1
    BY <1>4, RankAfterRemove
  <2>2. \A x \in B : RankIn(R, x, S) \in Nat /\ RankIn(Q, x, T) \in Nat
    BY RankIsNat
  <2>3. after \in SUBSET (before \cup moved)
    <3>1. \A x \in B : RankIn(Q, x, T) < o => RankIn(R, x, S) < o \/ RankIn(R, x, S) = o
      BY <2>1, <2>2
    <3> QED  BY <1>0, <3>1
  <2>4. \A x, y \in moved : x = y
    BY RanksDiffer
  <2>5. IsFiniteSet(moved) /\ Cardinality(moved) <= 1 /\ Cardinality(moved) \in Nat
    <3>1. moved = {} \/ \E x : moved = {x}
      BY <2>4
    <3> HIDE DEF moved
    <3>2. IsFiniteSet({}) /\ Cardinality({}) = 0
      BY FS_EmptySet
    <3>3. \A x : IsFiniteSet({x}) /\ Cardinality({x}) = 1
      BY FS_Singleton
    <3>4. IsFiniteSet(moved) /\ Cardinality(moved) \in {0, 1}
      BY <3>1, <3>2, <3>3
    <3> QED  BY <3>4
  <2>6. S \ T = {w} /\ Cardinality(S \ T) = 1
    <3>1. S \ T = {w}
      BY <1>4
    <3>2. Cardinality({w}) = 1
      BY FS_Singleton
    <3> QED  BY <3>1, <3>2
  <2> HIDE DEF moved
  <2>7. Cardinality(before \cup moved) <= Cardinality(before) + Cardinality(moved)
    <3>1. Cardinality(before \cap moved) \in Nat
      BY <1>1, <2>5, FS_Intersection, FS_CardinalityType
    <3>2. Cardinality(before \cup moved) =
              Cardinality(before) + Cardinality(moved) - Cardinality(before \cap moved)
      BY <1>1, <2>5, FS_Union
    <3> QED  BY <1>1, <2>5, <3>1, <3>2
  <2>8. /\ Cardinality(after) <= Cardinality(before \cup moved)
        /\ Cardinality(before \cup moved) \in Nat
    BY <1>1, <2>3, <2>5, FS_Union, FS_Subset, FS_CardinalityType
  <2> QED  BY <1>1, <2>5, <2>6, <2>7, <2>8
<1>5. Cardinality(after) <= Cardinality(before) + Cardinality(S \ T)
  <2>1. CASE R = Q /\ \E w : T = S \ {w}
    <3>1. PICK w : T = S \ {w}
      BY <2>1
    <3>2. CASE w \in S
      BY <1>4, <2>1, <3>1, <3>2
    <3>3. CASE w \notin S
      BY <1>3, <2>1, <3>1, <3>3
    <3> QED  BY <3>2, <3>3
  <2>2. CASE S \subseteq T /\ R \subseteq Q
    BY <1>2, <2>2
  <2> QED  BY <2>1, <2>2 DEF MoreOrOneLess
<1> QED  BY <1>0, <1>1, <1>5

LEMMA PagingInit == Init => PagingInv
<1> SUFFICES ASSUME Init PROVE PagingInv
  OBVIOUS
<1> USE DEF Init
<1>1. /\ owner = [r \in Requests |-> Null] /\ reqStatus = [r \in Requests |-> "none"]
      /\ negStatus = [n \in Negs |-> "none"] /\ chain = [n \in Negs |-> << >>]
      /\ agreed = [n \in Negs |-> Null]
  BY ServiceData DEF Service!Init
<1>2. ServiceHolds
  BY <1>1 DEF ServiceHolds, RequestStatus, NegotiationStatus
<1>3. RequestRows = {} /\ NegRows = {}
  BY <1>1 DEF RequestRows, NegRows
<1>4. IdsHold
  BY <1>3, FS_EmptySet DEF IdsHold, Orders
<1> QED  BY <1>2, <1>4 DEF PagingInv, TypeOK, Asked, ReadingDetail, PagesHold, ReadingList,
                           MissedOnlyForDepartures

LEMMA ThreadHolds ==
    ASSUME ServiceHolds, NEW n \in Negs
    PROVE  Thread(n) \in ThreadState
BY DEF ServiceHolds, Thread, ThreadState

\* The read under way, of either kind.
LEMMA QueryUnderWay ==
    ASSUME PagingInv, phase = "reading"
    PROVE  /\ query.kind = "detail" => query \in DetailQuery /\ query.neg \in Negs
           /\ query.kind # "detail" => query \in ListQuery
BY DEF PagingInv, TypeOK, Asked, DetailQuery, ListQuery

\* A command keeps the invariant.
LEMMA PagingKept ==
    ASSUME PagingInv, Watch, ServiceHolds', IdsHold', ListsKept
    PROVE  PagingInv'
<1>1. /\ UNCHANGED <<query, phase, first, detail, offset, got>>
      /\ steady' \subseteq steady
      /\ ~ ReadingList => UNCHANGED <<steady, left>>
      /\ ReadingList => /\ steady' = steady \cap Listed(query)'
                        /\ left' = left + Cardinality(Listed(query) \ Listed(query)')
      /\ held' = IF ReadingDetail THEN held \cup {Thread(query.neg)'} ELSE held
  BY DEF Watch, reader, ReadingDetail, ReadingList
<1>2. TypeOK'
  <2>1. held' \subseteq ThreadState
    <3>1. CASE ReadingDetail
      <4>1. query.neg \in Negs /\ query' = query
        BY <1>1, <3>1, QueryUnderWay DEF ReadingDetail
      <4>2. Thread(query.neg)' \in ThreadState
        BY <4>1 DEF ServiceHolds, Thread, ThreadState
      <4> QED  BY <1>1, <3>1, <4>2 DEF PagingInv, TypeOK
    <3>2. CASE ~ ReadingDetail
      BY <1>1, <3>2 DEF PagingInv, TypeOK
    <3> QED  BY <3>1, <3>2
  <2>2. newer' \subseteq (Requests \X Requests) \cup (Negs \X Negs)
    <3>1. RequestRows' \subseteq Requests /\ NegRows' \subseteq Negs
      BY DEF RequestRows, NegRows
    <3> QED  BY <3>1 DEF IdsHold
  <2> QED  BY <1>1, <2>1, <2>2 DEF PagingInv, TypeOK
<1>3. Asked' /\ MissedOnlyForDepartures'
  BY <1>1 DEF PagingInv, Asked, ReadingDetail, ReadingList, MissedOnlyForDepartures
<1>4. ASSUME ReadingList
      PROVE  /\ steady' \subseteq Listed(query)'
             /\ left' \in Nat
             /\ Cardinality(Behind') <= left'
             /\ Permanent(query) => left' = 0
  <2> DEFINE S == Listed(query)
             T == Listed(query)'
  <2>1. /\ query \in ListQuery /\ steady \subseteq S
        /\ offset \in Nat /\ left \in Nat /\ Cardinality(Behind) <= left
        /\ Permanent(query) => left = 0
        /\ ServiceHolds /\ IdsHold
    BY <1>4, QueryUnderWay DEF ReadingList, PagingInv, PagesHold
  <2>2. \/ S \subseteq T /\ newer \subseteq newer'
        \/ newer = newer' /\ ~ Permanent(query) /\ \E w : T = S \ {w}
    <3>1. PICK q \in ListQuery : q = query /\ q = query'
      BY <1>1, <2>1
    <3>2. \/ Listed(q) \subseteq Listed(q)'
          \/ newer' = newer /\ ~ Permanent(q) /\ \E w : Listed(q)' = Listed(q) \ {w}
      BY DEF ListsKept
    <3> QED  BY <3>1, <3>2 DEF ListsKept
  <2>3. Orders(newer, S) /\ Orders(newer', T)
    <3>1. Orders(newer, S)
      BY <2>1, ListedOrders DEF ListsOrdered
    <3>2. PICK q \in ListQuery : q = query /\ q = query'
      BY <1>1, <2>1
    <3>3. Orders(newer', Listed(q)')
      BY ListedOrdersNext DEF ListsOrdered, ListQuery
    <3>4. Listed(q)' = T
      BY <3>2
    <3> QED  BY <3>1, <3>3, <3>4
  <2>4. /\ Behind = Before(newer, S, steady \ got, offset)
        /\ Behind' = Before(newer', T, steady' \ got, offset)
    BY <1>1 DEF Behind, Rank, Above, RankIn, AboveIn, Before
  <2>5. steady' = steady \cap T /\ left' = left + Cardinality(S \ T)
    BY <1>1, <1>4
  <2> HIDE DEF S, T
  <2>6. steady' \ got = (steady \ got) \cap T /\ steady \ got \in SUBSET S
    BY <2>1, <2>5
  <2>7. MoreOrOneLess(newer, S, newer', T)
    BY <2>2 DEF MoreOrOneLess
  <2>8. /\ Cardinality(Behind) \in Nat /\ Cardinality(Behind') \in Nat
        /\ Cardinality(S \ T) \in Nat
        /\ Cardinality(Behind') <= Cardinality(Behind) + Cardinality(S \ T)
    BY <2>1, <2>3, <2>4, <2>6, <2>7, BehindKept
  <2>9. Permanent(query) => S \ T = {} /\ Cardinality(S \ T) = 0
    BY <2>2, FS_EmptySet
  <2>10. left' \in Nat /\ Cardinality(Behind') <= left'
    BY <2>1, <2>5, <2>8
  <2> QED  BY <2>1, <2>5, <2>9, <2>10 DEF T
<1>5. PagesHold'
  BY <1>1, <1>4 DEF PagingInv, PagesHold, ReadingList, Permanent
<1> QED  BY <1>2, <1>3, <1>5 DEF PagingInv

LEMMA StartKeeps ==
    ASSUME PagingInv, NEW u \in Users, NEW kind \in {"requests", "negotiations"},
           StartList(u, kind)
    PROVE  PagingInv'
<1> DEFINE q == [kind |-> kind, user |-> u, neg |-> Null]
<1>1. /\ q \in ListQuery /\ q.kind # "detail"
      /\ query' = q /\ phase' = "reading" /\ offset' = 0 /\ got' = {}
      /\ steady' = Listed(query') /\ left' = 0
      /\ first' = Null /\ detail' = Null /\ held' = {}
      /\ UNCHANGED <<service, newer>>
  BY DEF StartList, ListQuery
<1> HIDE DEF q
<1>2. ServiceHolds /\ IdsHold /\ TypeOK
  BY DEF PagingInv
<1>3. Listed(q)' = Listed(q)
  BY <1>1 DEF Listed, ListRequests, ListNegotiations, service
<1>4. Listed(query)' = Listed(q)
  BY <1>1, <1>3
<1>5. ServiceHolds' /\ IdsHold'
  BY <1>1, <1>2 DEF service, ServiceHolds, IdsHold, Orders, RequestRows, NegRows
<1>6. steady' = Listed(q)
  BY <1>1 DEF Listed, ListRequests, ListNegotiations, service
<1>7. TypeOK'
  BY <1>1, <1>2, <1>6, ListedOrders DEF ListsOrdered, TypeOK
<1>8. Asked' /\ MissedOnlyForDepartures'
  BY <1>1, RecordsAssumption DEF Asked, ReadingDetail, MissedOnlyForDepartures
<1>9. PagesHold'
  <2>1. Behind' = {x \in Listed(q) : RankIn(newer, x, Listed(q)) < 0}
    BY <1>1, <1>4, <1>6 DEF Behind, Rank, Above, RankIn, AboveIn
  <2>2. \A x \in Listed(q) : RankIn(newer, x, Listed(q)) \in Nat
    BY <1>1, <1>2, ListedOrders, RankIsNat DEF ListsOrdered
  <2>3. Behind' = {} /\ Cardinality(Behind') = 0
    BY <2>1, <2>2, FS_EmptySet
  <2> QED  BY <1>1, <1>4, <1>6, <2>3 DEF PagesHold, ReadingList
<1> QED  BY <1>5, <1>7, <1>8, <1>9 DEF PagingInv

LEMMA PageKeeps ==
    ASSUME PagingInv, NextPage
    PROVE  PagingInv'
<1> DEFINE S == Listed(query)
           page == PageAt(S, offset)
<1>1. /\ phase = "reading" /\ query.kind # "detail"
      /\ got' = got \cup page /\ offset' = offset + Limit
      /\ phase' = IF Cardinality(page) < Limit THEN "done" ELSE "reading"
      /\ UNCHANGED <<service, newer, query, first, detail, history>>
  BY DEF NextPage, Pages
<1>2. /\ query \in ListQuery /\ steady \subseteq S
      /\ offset \in Nat /\ left \in Nat /\ Cardinality(Behind) <= left
      /\ Permanent(query) => left = 0
      /\ TypeOK /\ ServiceHolds /\ IdsHold
  BY <1>1, QueryUnderWay DEF ReadingList, PagingInv, PagesHold
<1>3. /\ Orders(newer, S) /\ S \subseteq Requests \cup Negs
      /\ IsFiniteSet(Behind) /\ Cardinality(Behind) \in Nat
  BY <1>2, ListedOrders, BehindFinite DEF ListsOrdered
<1>4. S' = S
  BY <1>1 DEF Listed, ListRequests, ListNegotiations, service
<1>5. ServiceHolds' /\ IdsHold'
  BY <1>1, <1>2 DEF service, ServiceHolds, IdsHold, Orders, RequestRows, NegRows
<1>6. /\ page = {x \in S : RankIn(newer, x, S) \in offset .. offset + Limit - 1}
      /\ Behind = {x \in steady \ got : RankIn(newer, x, S) < offset}
      /\ Behind' = {x \in steady \ got' : RankIn(newer, x, S) < offset'}
  BY <1>1, <1>4 DEF PageAt, Behind, Rank, Above, RankIn, AboveIn, history
<1> HIDE DEF S, page
<1>7. TypeOK'
  <2>1. page \subseteq Requests \cup Negs
    BY <1>3, <1>6
  <2> QED  BY <1>1, <1>2, <2>1 DEF TypeOK, history
<1>8. Asked'
  BY <1>1 DEF PagingInv, Asked, ReadingDetail
<1>9. /\ Behind' \in SUBSET Behind
      /\ Cardinality(Behind') <= left /\ Cardinality(Behind') \in Nat /\ IsFiniteSet(Behind')
  <2>1. \A x \in S : RankIn(newer, x, S) \in Nat
    BY <1>3, RankIsNat
  <2>2. \A x \in S : /\ RankIn(newer, x, S) < offset'
                     /\ ~ (RankIn(newer, x, S) \in offset .. offset + Limit - 1)
                     => RankIn(newer, x, S) < offset
    BY <1>1, <1>2, <2>1, PagingAssumption
  <2>3. Behind' \in SUBSET Behind
    BY <1>1, <1>2, <1>6, <2>2
  <2> QED  BY <1>2, <1>3, <2>3, FS_Subset, FS_CardinalityType
<1>10. PagesHold'
  BY <1>1, <1>2, <1>4, <1>9, PagingAssumption DEF PagesHold, ReadingList, S, history
<1>11. MissedOnlyForDepartures'
  <2> SUFFICES ASSUME phase' = "done"
               PROVE  /\ Cardinality(steady \ got') <= left
                      /\ Permanent(query) => steady \subseteq got'
    BY <1>1 DEF MissedOnlyForDepartures, Permanent, history
  <2>1. Cardinality(page) < Limit
    BY <1>1
  <2>2. \A x \in S : RankIn(newer, x, S) < offset + Limit
    BY <1>2, <1>3, <1>6, <2>1, PagingAssumption, ShortPageIsLast
  <2>3. steady \ got' = Behind'
    BY <1>1, <1>2, <1>6, <2>2
  <2>4. ASSUME Permanent(query) PROVE Behind' = {}
    <3>1. Cardinality(Behind') = 0
      BY <1>2, <1>9, <2>4
    <3> QED  BY <1>9, <3>1, FS_EmptySet
  <2> QED  BY <1>9, <2>3, <2>4
<1> QED  BY <1>5, <1>7, <1>8, <1>10, <1>11 DEF PagingInv

\* Reading a detail, or nothing at all.
LEMMA OtherStepsKeep ==
    ASSUME PagingInv,
           \/ \E u \in Users, n \in Negs : GetNegotiation(u, n)
           \/ LoadProposals
           \/ UNCHANGED vars
    PROVE  PagingInv'
<1>1. UNCHANGED <<service, newer>>
  BY DEF GetNegotiation, LoadProposals, vars
<1>2. ServiceHolds /\ IdsHold /\ TypeOK
  BY DEF PagingInv
<1>3. ServiceHolds' /\ IdsHold'
  BY <1>1, <1>2 DEF service, ServiceHolds, IdsHold, Orders, RequestRows, NegRows
<1>4. ASSUME NEW u \in Users, NEW n \in Negs, GetNegotiation(u, n)
      PROVE  TypeOK' /\ Asked' /\ PagesHold' /\ MissedOnlyForDepartures'
  <2> DEFINE q == [kind |-> "detail", user |-> u, neg |-> n]
  <2>1. /\ query' = q /\ phase' = "reading" /\ first' = Thread(n) /\ held' = {Thread(n)}
        /\ detail' = Null /\ offset' = 0 /\ got' = {} /\ steady' = {} /\ left' = 0
    BY <1>4 DEF GetNegotiation
  <2>2. q \in DetailQuery /\ q.kind = "detail" /\ Thread(n) \in ThreadState
    BY <1>2, ThreadHolds DEF DetailQuery
  <2>3. q # Null /\ Thread(n) # Null
    BY <2>2, RecordsAssumption
  <2> HIDE DEF q
  <2>4. TypeOK'
    BY <1>1, <1>2, <2>1, <2>2 DEF TypeOK
  <2> QED  BY <2>1, <2>2, <2>3, <2>4 DEF Asked, ReadingDetail, PagesHold, ReadingList,
                                         MissedOnlyForDepartures
<1>5. CASE LoadProposals
  <2>1. /\ phase = "reading" /\ query.kind = "detail"
        /\ detail' = Detail(query.neg) /\ phase' = "done"
        /\ UNCHANGED <<newer, query, first, offset, got, held, steady, left>>
    BY <1>5 DEF LoadProposals, history
  <2>2. first \in ThreadState /\ query.neg \in Negs
    BY <2>1, QueryUnderWay DEF PagingInv, TypeOK, Asked, ReadingDetail
  <2>3. Detail(query.neg) \in ThreadState
    BY <1>2, <2>2 DEF Detail, ThreadState, ServiceHolds
  <2> QED  BY <1>2, <1>3, <2>1, <2>3 DEF PagingInv, TypeOK, Asked, ReadingDetail, PagesHold,
                                         ReadingList, MissedOnlyForDepartures
<1>6. CASE UNCHANGED vars
  <2>1. /\ UNCHANGED <<query, phase, first, detail, offset, got, held, steady, left, newer>>
        /\ Listed(query)' = Listed(query)
    BY <1>6 DEF vars, reader, history, service, Listed, ListRequests, ListNegotiations
  <2> QED  BY <1>3, <2>1 DEF PagingInv, TypeOK, Asked, ReadingDetail, PagesHold, ReadingList,
                             MissedOnlyForDepartures, Behind, Rank, Above
<1> QED  BY <1>3, <1>4, <1>5, <1>6 DEF PagingInv

LEMMA PagingStep == PagingInv /\ [Next]_vars => PagingInv'
<1> SUFFICES ASSUME PagingInv, [Next]_vars PROVE PagingInv'
  OBVIOUS
<1>1. ServiceHolds /\ IdsHold
  BY DEF PagingInv
<1>2. ASSUME NEW c \in Clients, NEW r \in Requests, CreateRequest(c, r)
      PROVE  PagingInv'
  BY <1>1, <1>2, CreateServed, PagingKept DEF CreateRequest
<1>3. ASSUME NEW s \in Suppliers, NEW r \in Requests, NEW a \in Amounts, NEW cur \in Currencies,
             MakeOffer(s, r, a, cur)
      PROVE  PagingInv'
  BY <1>1, <1>3, OfferServed, PagingKept DEF MakeOffer
<1>4. ASSUME NEW u \in Users, NEW n \in Negs, Respond(u, n)
      PROVE  PagingInv'
  BY <1>1, <1>4, AnswerServed, PagingKept DEF Respond
<1>5. CASE \E u \in Users, kind \in {"requests", "negotiations"} : StartList(u, kind)
  BY <1>5, StartKeeps
<1>6. CASE NextPage
  BY <1>6, PageKeeps
<1> QED  BY <1>2, <1>3, <1>4, <1>5, <1>6, OtherStepsKeep DEF Next

\* PagingInv is inductive: the types, the order of the ids, and how far the rows
\* of a list can fall behind the reader.
THEOREM PagingInvariance == Spec => []PagingInv
BY PagingInit, PagingStep, PTL DEF Spec

\* The rows and the answers have their types.
THEOREM ReadsTypeCorrect == Spec => []TypeOK
<1>1. PagingInv => TypeOK
  BY DEF PagingInv
<1> QED  BY PagingInvariance, <1>1, PTL

\* GET /requests and GET /negotiations, read page after page while others act,
\* miss a row that was listed all the time only for a row that has left the list.
THEOREM MissedOnlyForDeparturesAlways == Spec => []MissedOnlyForDepartures
<1>1. PagingInv => MissedOnlyForDepartures
  BY DEF PagingInv
<1> QED  BY PagingInvariance, <1>1, PTL
=============================================================================
