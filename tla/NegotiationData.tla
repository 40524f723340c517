-------------------------- MODULE NegotiationData --------------------------
(***************************************************************************)
(* The rows of the procurement database and what can be read off them,     *)
(* shared by the specification of the promised service (Negotiation) and   *)
(* by the specification of its transactions (NegotiationTxn).              *)
(*                                                                         *)
(* A negotiation is named by its request and its supplier: the table has   *)
(* the unique constraint uq_request_supplier on that pair, so the          *)
(* surrogate id carries no further information.                            *)
(***************************************************************************)
EXTENDS Naturals, Sequences

CONSTANTS Clients,      \* users registered with role 'client'
          Suppliers,    \* users registered with role 'supplier'
          Requests,     \* ids of rows of product_requests
          Amounts,      \* prices a proposal can name
          Currencies,   \* currency codes an offer can name
          Null          \* an absent value: SQL NULL, Python None, no row

ASSUME UsersAssumption ==
    /\ Clients \cap Suppliers = {}
    /\ Null \notin Clients \cup Suppliers
    /\ Null \notin Amounts

Users == Clients \cup Suppliers

Negs == Requests \X Suppliers

RequestOf(n) == n[1]
SupplierOf(n) == n[2]

\* The other threads of the same request, whether they exist or not.
Siblings(n) == {m \in Negs : RequestOf(m) = RequestOf(n) /\ m # n}

\* The two parties of a thread, whose request belongs to client c.
Participants(c, n) == {c, SupplierOf(n)}

\* "none" stands for an absent row.
RequestStatus == {"none", "open", "closed", "cancelled"}
NegotiationStatus == {"none", "active", "accepted", "rejected"}
Terminal == {"accepted", "rejected"}

Proposal == [actor : Users, amount : Amounts, currency : Currencies]

LastProposal(c) == c[Len(c)]

\* Variant of NewProposal: the amount is not stored.
NewProposalUnpriced(u, a, cur) == [actor |-> u, amount |-> Null, currency |-> cur]

NewProposal(u, a, cur) == [actor |-> u, amount |-> a, currency |-> cur]

\* Variants of Settled: the losers get a status of their own; the update of the
\* losers is forgotten.
SettledSuperseded(m, n, losers, old) ==
    IF m = n THEN "accepted" ELSE IF m \in losers THEN "superseded" ELSE old
SettledWinnerOnly(m, n, losers, old) ==
    IF m = n THEN "accepted" ELSE old

\* The status an accept leaves thread m with when it closes the request of n
\* and rejects the threads of the set losers.
Settled(m, n, losers, old) ==
    IF m = n THEN "accepted" ELSE IF m \in losers THEN "rejected" ELSE old
=============================================================================
