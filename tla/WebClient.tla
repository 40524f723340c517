----------------------------- MODULE WebClient -----------------------------
(***************************************************************************)
(* One page of the web client, app/static/app.js, in the hands of the user *)
(* Me, over the service of Negotiation.  A call of api() is a request that *)
(* the server executes at some moment and an answer that arrives later, so *)
(* the handlers that await it interleave; between any two of them the      *)
(* other users call the service too.  Any answer may be an error.          *)
(*                                                                         *)
(* Lossy lets requests and answers get lost.  The lists are not kept: a    *)
(* thread in a list can be opened, a request in it can be offered on.      *)
(* MaxProposals and MaxIntents bound the runs that TLC explores.           *)
(***************************************************************************)
EXTENDS NegotiationData, FiniteSets

CONSTANTS Me,            \* state.user
          Calls,         \* names for the calls under way
          Lossy,
          MaxProposals,  \* the others counter on shorter chains only
          MaxIntents     \* modals opened and forms filled in

ASSUME MeAssumption == Me \in Users
ASSUME CallsAssumption == Calls # {} /\ Null \notin Calls
ASSUME LossyAssumption == Lossy \in BOOLEAN
ASSUME BoundsAssumption == MaxProposals \in Nat /\ MaxIntents \in Nat

VARIABLES owner, reqStatus, negStatus, chain, agreed,  \* the service
          call,     \* the calls under way
          shown,    \* the thread in the detail panel, as it was read
          modal,    \* the open modal: offer or counteroffer
          form,     \* the intent of the filled-in request form, 0 if empty
          intents,  \* how many modals were opened and forms filled in
          \* History, for the properties:
          effects,  \* what each intent has done to the service
          misreported, \* the intents of which an error was shown after they took effect,
                       \* or may have done so
          smooth    \* so far nothing was clicked during a call, no connection failed and
                    \* the reads after a counteroffer were answered

service == <<owner, reqStatus, negStatus, chain, agreed>>
page == <<shown, modal, form, intents>>
history == <<effects, misreported, smooth>>
vars == <<owner, reqStatus, negStatus, chain, agreed, call, shown, modal, form, intents,
          effects, misreported, smooth>>

Server == INSTANCE Negotiation WITH
    owner <- owner, reqStatus <- reqStatus, negStatus <- negStatus,
    chain <- chain, agreed <- agreed

View == [neg : Negs, status : NegotiationStatus, chain : Seq(Proposal)]
Posts == {"create", "offer", "accept", "reject", "counter"}
\* post: the server has not executed it; done: its answer is on the way; refresh,
\* get, got: the reads after it; refused: an error is on the way to the handler;
\* orphan: nobody awaits it.
Phases == {"post", "done", "refused", "refresh", "get", "got", "orphan"}
\* seen is the number of proposals on the screen at the click, here whether the
\* button is still on the screen.
Call == [act : Posts \cup {"open"}, neg : Negs \cup {Null}, seen : Nat, here : BOOLEAN,
         intent : 0 .. MaxIntents, phase : Phases, view : View \cup {Null}]
Modal == [act : {"offer", "counter"}, neg : Negs, seen : Nat, intent : 1 .. MaxIntents]
ASSUME RecordsAssumption == Null \notin Call /\ Null \notin Modal /\ Null \notin View

TypeOK ==
    /\ call \in [Calls -> Call \cup {Null}]
    /\ shown \in View \cup {Null}
    /\ modal \in Modal \cup {Null}
    /\ intents \in 0 .. MaxIntents
    /\ form \in 0 .. intents
    /\ effects \in [1 .. MaxIntents -> Nat]
    /\ misreported \subseteq 1 .. MaxIntents
    /\ smooth \in BOOLEAN

Init ==
    /\ Server!Init
    /\ call = [c \in Calls |-> Null]
    /\ shown = Null
    /\ modal = Null
    /\ form = 0
    /\ intents = 0
    /\ effects = [i \in 1 .. MaxIntents |-> 0]
    /\ misreported = {}
    /\ smooth = TRUE

At(c, phase) == call[c] # Null /\ call[c].phase = phase
Awaited(c) == call[c] # Null /\ call[c].phase # "orphan"

Click == smooth' = (smooth /\ \A c \in Calls : ~Awaited(c))

-----------------------------------------------------------------------------
(* What the user does.                                                     *)

Begin(c, act, n, seen, intent, phase) ==
    /\ call[c] = Null
    /\ call' = [call EXCEPT ![c] = [act |-> act, neg |-> n, seen |-> seen, here |-> TRUE,
                                    intent |-> intent, phase |-> phase, view |-> Null]]

\* Variant of Enabled: the button is not disabled while its call is under way.
AlwaysEnabled(acts) == TRUE

\* withLoading: a button is disabled while its own call is under way; rendering
\* the detail anew makes new buttons.
Enabled(acts) ==
    ~\E c \in Calls : Awaited(c) /\ call[c].here /\ call[c].act \in acts

\* Variant of MyTurn: the buttons are there whoever proposed last.
AnyTurn(v) == v.status = "active"

\* renderTurn: the three buttons are there.
MyTurn(v) == v.status = "active" /\ LastProposal(v.chain).actor # Me

OpenNegotiation(c, n) ==
    /\ Click
    /\ negStatus[n] # "none" /\ Me \in Participants(owner[RequestOf(n)], n)
    /\ modal = Null
    /\ Begin(c, "open", n, 0, 0, "get")
    /\ UNCHANGED <<service, page, effects, misreported>>

Decide(c, act) ==
    /\ Click
    /\ shown # Null /\ modal = Null
    /\ MyTurn(shown)
    /\ Enabled({act})
    /\ Begin(c, act, shown.neg, Len(shown.chain), 0, "post")
    /\ UNCHANGED <<service, page, effects, misreported>>

OpenModal(act, n, seen) ==
    /\ Click
    /\ modal = Null
    /\ intents < MaxIntents
    /\ intents' = intents + 1
    /\ modal' = [act |-> act, neg |-> n, seen |-> seen, intent |-> intents + 1]
    /\ UNCHANGED <<service, call, shown, form, effects, misreported>>

CounterOffer ==
    /\ shown # Null
    /\ MyTurn(shown)
    /\ OpenModal("counter", shown.neg, Len(shown.chain))

MakeOffer(r) ==
    /\ Me \in Suppliers
    /\ reqStatus[r] # "none"
    /\ OpenModal("offer", <<r, Me>>, 0)

\* Escape, the cancel button or a click beside the modal.
CloseModal ==
    /\ Click
    /\ modal # Null
    /\ modal' = Null
    /\ UNCHANGED <<service, call, shown, form, intents, effects, misreported>>

\* The confirm button is the same one for every modal.
Confirm(c) ==
    /\ Click
    /\ modal # Null
    /\ Enabled({"offer", "counter"})
    /\ Begin(c, modal.act, modal.neg, modal.seen, modal.intent, "post")
    /\ UNCHANGED <<service, page, effects, misreported>>

\* The form keeps its content until it is reset by a success.
SubmitRequest(c) ==
    /\ Click
    /\ Me \in Clients /\ modal = Null
    /\ Enabled({"create"})
    /\ Cardinality({d \in Calls : call[d] # Null /\ call[d].act = "create"})
          < Cardinality({r \in Requests : reqStatus[r] = "none"})
    /\ \/ form # 0 /\ UNCHANGED <<form, intents>>
       \/ form = 0 /\ intents < MaxIntents /\ form' = intents + 1 /\ intents' = intents + 1
    /\ Begin(c, "create", Null, 0, form', "post")
    /\ UNCHANGED <<service, shown, modal, effects, misreported>>

-----------------------------------------------------------------------------
(* What the server does with a call.                                       *)

Granted(c) ==
    LET n == call[c].neg IN
    \/ call[c].act = "create"
    \/ call[c].act = "offer" /\ reqStatus[RequestOf(n)] = "open" /\ negStatus[n] = "none"
    \/ call[c].act \in {"accept", "reject", "counter"} /\ Server!Answerable(Me, n)

ServerStep(c) ==
    LET n == call[c].neg IN
    \/ call[c].act = "create" /\ \E r \in Requests : Server!CreateRequest(Me, r)
    \/ /\ call[c].act = "offer"
       /\ \E a \in Amounts, cur \in Currencies : Server!MakeOffer(Me, RequestOf(n), a, cur)
    \/ call[c].act = "accept" /\ Server!Accept(Me, n)
    \/ call[c].act = "reject" /\ Server!Reject(Me, n)
    \/ call[c].act = "counter" /\ \E a \in Amounts : Server!Counter(Me, n, a)

\* The answer sets out, unless the connection is gone.
Answer(c, phase) ==
    call' = [call EXCEPT ![c] = IF @.phase = "orphan" THEN Null ELSE [@ EXCEPT !.phase = phase]]

Execute(c) ==
    /\ At(c, "post") \/ At(c, "orphan")
    /\ Granted(c)
    /\ ServerStep(c)
    /\ Answer(c, "done")
    /\ effects' = [i \in DOMAIN effects |->
                      IF i = call[c].intent THEN effects[i] + 1 ELSE effects[i]]
    /\ UNCHANGED <<page, misreported, smooth>>

Refuse(c) ==
    /\ At(c, "post") \/ At(c, "orphan")
    /\ ~Granted(c)
    /\ Answer(c, "refused")
    /\ UNCHANGED <<service, page, history>>

\* Any other error, of the pool, the database or the server: nothing is stored.
\* Once the POST has succeeded, what api throws for the lists is caught by the
\* handler just the same; the form is reset by then, a modal still open.
ServerError(c) ==
    /\ At(c, "post") \/ At(c, "orphan") \/ At(c, "refresh")
    /\ Answer(c, "refused")
    /\ misreported' = IF At(c, "refresh") /\ call[c].act \in {"offer", "counter"}
                      THEN misreported \cup {call[c].intent} ELSE misreported
    /\ smooth' = (smooth /\ ~(At(c, "refresh") /\ call[c].act = "counter"))
    /\ UNCHANGED <<service, page, effects>>

GetNegotiation(c) ==
    LET n == call[c].neg IN
    /\ At(c, "get")
    /\ call' = [call EXCEPT ![c].phase = "got",
                            ![c].view = [neg |-> n, status |-> negStatus[n], chain |-> chain[n]]]
    /\ UNCHANGED <<service, page, history>>

-----------------------------------------------------------------------------
(* What the page does with an answer.                                      *)

\* The success of a POST: the form is reset, the lists are read again.
Succeeded(c) ==
    /\ At(c, "done")
    /\ call' = [call EXCEPT ![c].phase = "refresh"]
    /\ form' = IF call[c].act = "create" THEN 0 ELSE form
    /\ UNCHANGED <<service, shown, modal, intents, history>>

\* The lists are there; after a decision or an offer the thread is read again.
Refreshed(c) ==
    /\ At(c, "refresh")
    /\ call' = [call EXCEPT ![c] = IF @.act = "create" THEN Null ELSE [@ EXCEPT !.phase = "get"]]
    /\ UNCHANGED <<service, page, history>>

\* openNegotiation has returned: the handler of a modal closes whatever is open.
Returned(c) == modal' = IF call[c].act \in {"offer", "counter"} THEN Null ELSE modal

\* The detail is rendered from what was read, whatever was read since.
Render(c) ==
    /\ At(c, "got")
    /\ shown' = call[c].view
    /\ call' = [d \in Calls |->
                   IF d = c THEN Null
                   ELSE IF call[d] # Null /\ call[d].act \in {"accept", "reject"}
                        THEN [call[d] EXCEPT !.here = FALSE]
                        ELSE call[d]]
    /\ Returned(c)
    /\ UNCHANGED <<service, form, intents, history>>

\* openNegotiation catches the error of its read and returns: the old detail stays
\* there with its buttons, and the handler goes on.
DetailError(c) ==
    /\ At(c, "get")
    /\ call' = [call EXCEPT ![c] = Null]
    /\ Returned(c)
    /\ smooth' = (smooth /\ call[c].act # "counter")
    /\ UNCHANGED <<service, shown, form, intents, effects, misreported>>

\* Variant of ShowError: without the finally of withLoading.
ButtonStaysDisabled(c) ==
    /\ At(c, "refused")
    /\ UNCHANGED vars

\* The handler catches an error: a toast, or a line in the modal, which stays open.
ShowError(c) ==
    /\ At(c, "refused")
    /\ call' = [call EXCEPT ![c] = Null]
    /\ UNCHANGED <<service, page, history>>

\* The connection fails.  A POST may have reached the server all the same; a
\* detail that breaks off is null, and the handler fails at reading it.
NetworkError(c) ==
    /\ Lossy
    /\ Awaited(c)
    /\ \/ call' = [call EXCEPT ![c] = Null]
       \/ At(c, "post") /\ call' = [call EXCEPT ![c].phase = "orphan"]
    /\ \/ UNCHANGED modal
       \/ (At(c, "get") \/ At(c, "got")) /\ Returned(c)
    /\ misreported' = misreported \cup ({call[c].intent} \ {0})
    /\ smooth' = FALSE
    /\ UNCHANGED <<service, shown, form, intents, effects>>

-----------------------------------------------------------------------------
\* The other users, by whatever client.
Others ==
    /\ \E u \in Users \ {Me} :
          \/ u \in Clients /\ \E r \in Requests : Server!CreateRequest(u, r)
          \/ /\ u \in Suppliers
             /\ \E r \in Requests, a \in Amounts, cur \in Currencies :
                   Server!MakeOffer(u, r, a, cur)
          \/ \E n \in Negs :
                \/ Server!Accept(u, n)
                \/ Server!Reject(u, n)
                \/ /\ Len(chain[n]) < MaxProposals
                   /\ \E a \in Amounts : Server!Counter(u, n, a)
    /\ UNCHANGED <<call, page, history>>

Progress(c) ==
    \/ Execute(c) \/ Refuse(c) \/ ServerError(c) \/ GetNegotiation(c)
    \/ Succeeded(c) \/ Refreshed(c) \/ Render(c) \/ DetailError(c) \/ ShowError(c)

Next ==
    \/ \E c \in Calls :
          \/ \E n \in Negs : OpenNegotiation(c, n)
          \/ \E act \in {"accept", "reject"} : Decide(c, act)
          \/ Confirm(c) \/ SubmitRequest(c)
          \/ Progress(c) \/ NetworkError(c)
    \/ CounterOffer \/ CloseModal
    \/ \E r \in Requests : MakeOffer(r)
    \/ Others

Spec == Init /\ [][Next]_vars

\* The server answers, be it with an error, the network delivers and the page
\* runs its handlers.
FairSpec == Spec /\ \A c \in Calls : WF_vars(Progress(c))

-----------------------------------------------------------------------------
(* Properties.                                                             *)

\* "Aceptar <price>" posts no price.  For a user who waits for the answers it
\* accepts the proposal that was on the screen, as long as no connection fails and
\* what was read after a counteroffer was not an error (that leaves the button of
\* the proposal before it).  While it is Me's turn nobody else can propose.
AcceptedAsShown ==
    \A c \in Calls :
        smooth /\ At(c, "done") /\ call[c].act = "accept" => call[c].seen = Len(chain[call[c].neg])

\* Whatever was clicked meanwhile, failed or was overtaken by another read: what
\* is accepted differs from what was on the screen only if Me has answered that
\* proposal with a counteroffer.
OutdatedByMeOnly ==
    \A c \in Calls :
        LET proposals == chain[call[c].neg] IN
        At(c, "done") /\ call[c].act = "accept" =>
            \/ call[c].seen = Len(proposals)
            \/ proposals[call[c].seen + 1].actor = Me

\* A modal or a form that is sent, and sent again after an error, takes effect
\* once.  Not so when the answer was lost: every call carries a key of its own.
OneEffectPerIntent == \A i \in DOMAIN effects : effects[i] <= 1

\* What does hold, thanks to the disabled buttons: it takes effect once unless
\* an error was shown of a call that may have taken effect, because a connection
\* failed or, for a modal, because the lists could not be read after it.
OneEffectUnlessMisreported == \A i \in DOMAIN effects : i \notin misreported => effects[i] <= 1

\* The page offers a decision exactly when the service grants it: a decision
\* is refused only if the thread has changed since it was read.
RefusedOnlyIfStale ==
    [][\A c \in Calls :
          /\ At(c, "post") /\ Refuse(c)
          /\ call[c].act \in {"accept", "reject", "counter"}
          => \/ negStatus[call[c].neg] # "active"
             \/ Len(chain[call[c].neg]) # call[c].seen]_vars

\* Every button that was pressed comes back, whatever the answer.
ButtonsComeBack == \A c \in Calls : Awaited(c) ~> ~Awaited(c)
=============================================================================
