------------------------- MODULE WebClientInvariant -------------------------
(***************************************************************************)
(* The inductive invariant of WebClient: what the service keeps, what the  *)
(* page may still believe of a thread it has read, and how often an intent *)
(* can have taken effect.                                                  *)
(***************************************************************************)
EXTENDS WebClient

\* The proposals of a thread are its parties', who take turns.
Alternates(n) ==
    \A k \in 1 .. Len(chain[n]) :
        /\ chain[n][k].actor \in Participants(owner[RequestOf(n)], n)
        /\ k > 1 => chain[n][k].actor # chain[n][k - 1].actor

\* The rows of the service, as far as the page rests on them.
ServiceInv ==
    /\ owner \in [Requests -> Users \cup {Null}]
    /\ reqStatus \in [Requests -> RequestStatus]
    /\ negStatus \in [Negs -> NegotiationStatus]
    /\ chain \in [Negs -> Seq(Proposal)]
    /\ \A n \in Negs : negStatus[n] # "none" =>
          /\ reqStatus[RequestOf(n)] # "none"
          /\ Len(chain[n]) > 0
          /\ Alternates(n)

-----------------------------------------------------------------------------
(* What was read stays on record.                                          *)

Decisions == {"accept", "reject", "counter"}
Executed == {"done", "refresh", "get", "got"}
Modals == {"offer", "counter"}

Ours(n) == n \in Negs /\ negStatus[n] # "none" /\ Me \in Participants(owner[RequestOf(n)], n)

\* Proposal k of thread n is another user's.
Theirs(n, k) == Ours(n) /\ k \in 1 .. Len(chain[n]) /\ chain[n][k].actor # Me

Own(n) == Me \in Suppliers /\ \E r \in Requests : n = <<r, Me>>

ViewHolds(v) ==
    /\ Ours(v.neg)
    /\ Len(v.chain) \in 1 .. Len(chain[v.neg])
    /\ chain[v.neg][Len(v.chain)] = LastProposal(v.chain)

CallHolds(x) ==
    /\ x.act \in Decisions => Theirs(x.neg, x.seen)
    /\ x.act = "offer" => Own(x.neg)
    /\ x.act = "create" => Me \in Clients /\ x.phase \notin {"get", "got"}
    /\ x.act = "open" => x.phase \in {"get", "got"}
    /\ x.phase \in Executed => x.act = "create" \/ Ours(x.neg)
    /\ x.phase = "got" => x.view \in View /\ x.view.neg = x.neg /\ ViewHolds(x.view)

PageHolds ==
    /\ shown # Null => ViewHolds(shown)
    /\ modal # Null =>
          /\ modal.act = "counter" => Theirs(modal.neg, modal.seen)
          /\ modal.act = "offer" => Own(modal.neg)

CallsHold == \A c \in Calls : call[c] # Null => CallHolds(call[c])

-----------------------------------------------------------------------------
(* For a user who waits, the other party's proposal stays the last one, as *)
(* long as the page is read again after a counteroffer.                    *)

\* A user who waits has one call at most.
Alone ==
    smooth => \A c \in Calls : call[c] # Null =>
        /\ call[c].phase # "orphan"
        /\ \A d \in Calls : call[d] # Null => c = d

\* The counteroffer of Me is with the service, and the page not yet read again.
Countered(n) ==
    \E c \in Calls :
        call[c] # Null /\ call[c].act = "counter" /\ call[c].neg = n /\ call[c].phase \in Executed

Latest(n, k) == k = Len(chain[n])

Fresh ==
    smooth =>
        /\ shown # Null /\ MyTurn(shown) =>
              Countered(shown.neg) \/ Latest(shown.neg, Len(shown.chain))
        /\ modal # Null /\ modal.act = "counter" =>
              Countered(modal.neg) \/ Latest(modal.neg, modal.seen)
        /\ \A c \in Calls : call[c] # Null =>
              /\ \/ call[c].act \in Decisions /\ call[c].phase = "post"
                 \/ call[c].act = "accept" /\ call[c].phase = "done"
                 => Latest(call[c].neg, call[c].seen)
              /\ call[c].phase = "got" /\ MyTurn(call[c].view) =>
                    Latest(call[c].view.neg, Len(call[c].view.chain))

-----------------------------------------------------------------------------
(* An intent is with one call at a time.                                   *)

\* Intents are numbered as they come, and each is of one modal or of the form.
Numbered ==
    /\ \A i \in 1 .. MaxIntents : i > intents => effects[i] = 0
    /\ \A c \in Calls : call[c] # Null =>
          /\ call[c].intent <= intents
          /\ call[c].act \in Modals \cup {"create"} => call[c].here /\ call[c].intent # 0
          /\ modal # Null /\ call[c].intent = modal.intent => call[c].act \in Modals
          /\ form # 0 /\ call[c].intent = form => call[c].act = "create"
    /\ modal # Null => modal.intent <= intents /\ modal.intent # form

\* The calls of an intent that was not misreported.
Once ==
    /\ \A c \in Calls : call[c] # Null /\ call[c].intent \in (1 .. MaxIntents) \ misreported =>
          /\ call[c].phase # "orphan"
          /\ call[c].phase = "post" => effects[call[c].intent] = 0
          /\ \A d \in Calls : call[d] # Null /\ call[d].intent = call[c].intent => c = d
    /\ \A i \in (1 .. MaxIntents) \ misreported : effects[i] <= 1

\* As long as the modal or the form of an intent that took effect is there, so is
\* the call, and its button is disabled.
Guarded ==
    /\ modal # Null /\ modal.intent \notin misreported /\ effects[modal.intent] # 0 =>
          \E c \in Calls : call[c] # Null /\ call[c].intent = modal.intent
                           /\ call[c].phase \in Executed
    /\ form # 0 /\ form \notin misreported /\ effects[form] # 0 =>
          \E c \in Calls : call[c] # Null /\ call[c].intent = form /\ call[c].phase = "done"

IInv ==
    /\ TypeOK
    /\ ServiceInv
    /\ PageHolds
    /\ CallsHold
    /\ Alone
    /\ Fresh
    /\ Numbered
    /\ Once
    /\ Guarded
=============================================================================
