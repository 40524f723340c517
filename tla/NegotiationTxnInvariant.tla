----------------------- MODULE NegotiationTxnInvariant -----------------------
(***************************************************************************)
(* Why the transactions of NegotiationTxn are correct: an invariant that   *)
(* every step preserves.  It says of each worker what its locks protect    *)
(* between the statement that checked it and the commit that relies on it, *)
(* and of the committed rows how their statuses fit together.              *)
(***************************************************************************)
EXTENDS NegotiationTxn

Decision == {"accept", "reject", "counter"}

\* A worker serves a call exactly while its transaction runs, and only runs
\* the statements of that call.
CallFits(w) ==
    /\ call[w] # Null <=> pc[w] \in InTransaction
    /\ pc[w] = "create" => call[w].kind = "create"
    /\ pc[w] \in {"offer", "insert"} => call[w].kind = "offer"
    /\ pc[w] = "load" => call[w].kind \in Decision
    /\ pc[w] \in {"close", "supersede"} => call[w].kind = "accept"
    /\ pc[w] \in {"lookup", "save"} => call[w].key # Null

\* From _load_active_for_response on, the lock on the negotiation keeps what
\* was checked true, and the proposal that was read the last one.
DecisionHolds(w) ==
    pc[w] \in {"close", "supersede", "save", "commit"} /\ call[w].kind \in Decision =>
        LET n == call[w].neg  u == call[w].user IN
        /\ negLock[n] = w
        /\ IsActive(n)
        /\ Party(u, n)
        /\ MyTurn(u, n)
        /\ seen[w] = LastProposal(chain[n])

\* From CloseRequest on, the lock on the request keeps new threads out: every
\* sibling that is active is among the selected ones, and none of these wins.
\* Once the last of them is updated the transaction holds them all.
SiblingsHold(w) ==
    pc[w] \in {"supersede", "save", "commit"} /\ call[w].kind = "accept" =>
        LET n == call[w].neg IN
        /\ reqLock[RequestOf(n)] = w
        /\ sibs[w] \subseteq Siblings(n)
        /\ \A m \in sibs[w] : negStatus[m] \in {"active", "rejected"}
        /\ \A m \in Siblings(n) : IsActive(m) => m \in sibs[w]
        /\ pc[w] # "supersede" => \A m \in sibs[w] : negLock[m] = w

SiblingChosen(w) == pc[w] = "supersede" => sib[w] \in sibs[w]

\* make_offer holds the request from its checks to its commit.
OfferHolds(w) ==
    pc[w] \in {"insert", "save", "commit"} /\ call[w].kind = "offer" =>
        LET n == call[w].neg IN
        /\ reqLock[RequestOf(n)] = w
        /\ reqStatus[RequestOf(n)] = "open"
        /\ negStatus[n] = "none"
        /\ pc[w] # "insert" => negLock[n] = w

\* A request is locked for a call under way, and the row create_request
\* inserted is invisible until the commit.
CreateHolds(w) ==
    \A r \in Requests : reqLock[r] = w =>
        call[w] # Null /\ (call[w].kind = "create" => reqStatus[r] = "none")

\* The key that was inserted was not there, and nobody else inserts it.
KeyHolds(w) ==
    pc[w] = "commit" /\ call[w].key # Null =>
        keyLock[call[w].key] = w /\ KeyUnused(call[w].key)

WorkerInv(w) ==
    /\ CallFits(w)
    /\ DecisionHolds(w)
    /\ SiblingsHold(w)
    /\ SiblingChosen(w)
    /\ OfferHolds(w)
    /\ CreateHolds(w)
    /\ KeyHolds(w)

\* The committed rows: statuses, chains and prices.
ChainInv ==
    \A n \in Negs : (negStatus[n] = "none") <=> (chain[n] = << >>)

\* The foreign key negotiations.request_id.
ForeignKeyInv ==
    \A n \in Negs : negStatus[n] # "none" => reqStatus[RequestOf(n)] # "none"

RowsInv ==
    /\ OneWinner
    /\ ClosedSettled
    /\ ForeignKeyInv
    /\ ChainInv
    /\ AgreedIsLast

IInv ==
    /\ TypeOK
    /\ RowsInv
    /\ \A w \in Workers : WorkerInv(w)

-----------------------------------------------------------------------------
(* Which locks a transaction has, by the statement it is about to run.  IInv *)
(* says what a lock protects; this says that nobody holds more than that.  *)

RequestLocks(w) ==
    \A r \in Requests : reqLock[r] = w =>
        \/ pc[w] \in {"save", "commit"} /\ call[w].kind = "create"
        \/ /\ pc[w] \in {"insert", "supersede", "save", "commit"}
           /\ call[w].kind \in {"offer", "accept"}
           /\ r = RequestOf(call[w].neg)

NegotiationLocks(w) ==
    \A n \in Negs : negLock[n] = w =>
        \/ pc[w] \in {"close", "supersede", "save", "commit"} /\ n = call[w].neg
        \/ /\ pc[w] \in {"supersede", "save", "commit"}
           /\ call[w].kind = "accept"
           /\ n \in sibs[w]

KeyLocks(w) ==
    \A k \in Keys : keyLock[k] = w => pc[w] = "commit" /\ k = call[w].key

\* What the SELECT ... FOR UPDATE, the UPDATEs and the inserts lock is what the
\* call is about, from the statement that takes it to the end of the transaction,
\* and the key is locked by nobody who still has to wait.
LocksFit ==
    \A w \in Workers : RequestLocks(w) /\ NegotiationLocks(w) /\ KeyLocks(w)
=============================================================================
