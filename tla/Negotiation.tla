---------------------------- MODULE Negotiation ----------------------------
(***************************************************************************)
(* What the negotiation service promises its callers: every service call   *)
(* that succeeds happens at one instant, on the committed rows, with the   *)
(* guards of app/services/negotiation.py true at that instant.  Locks,     *)
(* statements and transactions do not appear; NegotiationTxn has them and  *)
(* implements this specification.                                          *)
(***************************************************************************)
EXTENDS NegotiationData

VARIABLES owner,      \* product_requests.client_id
          reqStatus,  \* product_requests.status
          negStatus,  \* negotiations.status
          chain,      \* the proposals of each negotiation, in id order
          agreed      \* negotiations.agreed_amount

vars == <<owner, reqStatus, negStatus, chain, agreed>>

Init ==
    /\ owner = [r \in Requests |-> Null]
    /\ reqStatus = [r \in Requests |-> "none"]
    /\ negStatus = [n \in Negs |-> "none"]
    /\ chain = [n \in Negs |-> << >>]
    /\ agreed = [n \in Negs |-> Null]

CreateRequest(c, r) ==
    /\ reqStatus[r] = "none"
    /\ owner' = [owner EXCEPT ![r] = c]
    /\ reqStatus' = [reqStatus EXCEPT ![r] = "open"]
    /\ UNCHANGED <<negStatus, chain, agreed>>

MakeOffer(s, r, a, cur) ==
    LET n == <<r, s>> IN
    /\ reqStatus[r] = "open"
    /\ negStatus[n] = "none"
    /\ negStatus' = [negStatus EXCEPT ![n] = "active"]
    /\ chain' = [chain EXCEPT ![n] = <<NewProposal(s, a, cur)>>]
    /\ UNCHANGED <<owner, reqStatus, agreed>>

\* Variant of Answerable: the turn is not checked.
AnswerableInAnyTurn(u, n) ==
    /\ negStatus[n] = "active"
    /\ u \in Participants(owner[RequestOf(n)], n)

\* Only a participant, on an active thread, and only the counterparty of the
\* last proposal.
Answerable(u, n) ==
    /\ negStatus[n] = "active"
    /\ u \in Participants(owner[RequestOf(n)], n)
    /\ LastProposal(chain[n]).actor # u

Accept(u, n) ==
    /\ Answerable(u, n)
    /\ LET losers == {m \in Siblings(n) : negStatus[m] = "active"} IN
       negStatus' = [m \in Negs |-> Settled(m, n, losers, negStatus[m])]
    /\ agreed' = [agreed EXCEPT ![n] = LastProposal(chain[n]).amount]
    /\ reqStatus' = [reqStatus EXCEPT ![RequestOf(n)] = "closed"]
    /\ UNCHANGED <<owner, chain>>

Reject(u, n) ==
    /\ Answerable(u, n)
    /\ negStatus' = [negStatus EXCEPT ![n] = "rejected"]
    /\ UNCHANGED <<owner, reqStatus, chain, agreed>>

Counter(u, n, a) ==
    /\ Answerable(u, n)
    /\ chain' = [chain EXCEPT ![n] =
          Append(@, NewProposal(u, a, LastProposal(@).currency))]
    /\ UNCHANGED <<owner, reqStatus, negStatus, agreed>>

Next ==
    \/ \E c \in Clients, r \in Requests : CreateRequest(c, r)
    \/ \E s \in Suppliers, r \in Requests, a \in Amounts, cur \in Currencies :
          MakeOffer(s, r, a, cur)
    \/ \E u \in Users, n \in Negs :
          \/ Accept(u, n)
          \/ Reject(u, n)
          \/ \E a \in Amounts : Counter(u, n, a)

Spec == Init /\ [][Next]_vars
=============================================================================
