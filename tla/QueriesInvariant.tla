-------------------------- MODULE QueriesInvariant --------------------------
(***************************************************************************)
(* What the two kinds of reads keep while they are under way: a detail     *)
(* (SnapshotInv) and a list read page by page (PagingInv).                 *)
(***************************************************************************)
EXTENDS Queries

(* The detail of a thread.                                                 *)

Rows ==
    /\ negStatus = [n \in Negs |-> negStatus[n]]
    /\ agreed = [n \in Negs |-> agreed[n]]
    /\ chain = [n \in Negs |-> chain[n]]

ReadingDetail == phase = "reading" /\ query.kind = "detail"

\* The columns read and the proposals as they stand make up a state that the
\* thread was in; while it is active, the present one.
Consistent ==
    ReadingDetail =>
        /\ query.neg \in Negs
        /\ negStatus[query.neg] # "none"
        /\ Detail(query.neg) \in held
        /\ negStatus[query.neg] = "active" => Detail(query.neg) = Thread(query.neg)

SnapshotInv == Rows /\ Consistent /\ DetailIsSnapshot

-----------------------------------------------------------------------------
(* The rows and their order.                                               *)

RequestRows == {r \in Requests : reqStatus[r] # "none"}
NegRows == {n \in Negs : negStatus[n] # "none"}

ServiceHolds ==
    /\ owner \in [Requests -> Clients \cup {Null}]
    /\ reqStatus \in [Requests -> RequestStatus]
    /\ negStatus \in [Negs -> NegotiationStatus]
    /\ chain \in [Negs -> Seq(Proposal)]
    /\ agreed \in [Negs -> Amounts \cup {Null}]
    /\ \A r \in Requests : reqStatus[r] = "none" => owner[r] = Null
    /\ \A n \in Negs : negStatus[n] # "none" =>
          Len(chain[n]) > 0 /\ reqStatus[RequestOf(n)] # "none"

\* R orders the rows S, which are finitely many.
Orders(R, S) ==
    /\ IsFiniteSet(S)
    /\ \A x \in S : <<x, x>> \notin R
    /\ \A x, y \in S : x = y \/ <<x, y>> \in R \/ <<y, x>> \in R
    /\ \A x, y, z \in S : <<x, y>> \in R /\ <<y, z>> \in R => <<x, z>> \in R

IdsHold ==
    /\ newer \subseteq (RequestRows \X RequestRows) \cup (NegRows \X NegRows)
    /\ Orders(newer, RequestRows)
    /\ Orders(newer, NegRows)

-----------------------------------------------------------------------------
(* A list, page by page.                                                   *)

ReadingList == phase = "reading" /\ query.kind # "detail"

\* Of this list no row is ever taken.
Permanent(q) == q.kind = "negotiations" \/ q.user \in Clients

\* The rows that were there all the time, are on no page so far and now stand
\* before the next page.
Behind == {x \in steady \ got : Rank(x, Listed(query)) < offset}

\* A row falls behind only if another has left before it.
PagesHold ==
    ReadingList =>
        /\ steady \subseteq Listed(query)
        /\ offset \in Nat /\ left \in Nat
        /\ Cardinality(Behind) <= left
        /\ Permanent(query) => left = 0

\* The read under way is known, and so is what its first statement read.
Asked ==
    /\ phase # "idle" => query # Null
    /\ ReadingDetail => first # Null

PagingInv ==
    TypeOK /\ Asked /\ ServiceHolds /\ IdsHold /\ PagesHold /\ MissedOnlyForDepartures
=============================================================================
