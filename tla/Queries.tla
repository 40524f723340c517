------------------------------ MODULE Queries ------------------------------
(***************************************************************************)
(* The reads of the service beside its commands: the detail of a thread    *)
(* and the lists by page.  They take no locks, and at READ COMMITTED every *)
(* statement sees what is committed when it runs, so a read of several     *)
(* statements is no snapshot of the database.                              *)
(*                                                                         *)
(* The commands are the atomic steps of Negotiation; the rows also have    *)
(* ids here, since the lists are in their order.  One reader is enough:    *)
(* readers change nothing, so they do not meet.                            *)
(***************************************************************************)
EXTENDS NegotiationData, FiniteSets

CONSTANTS Limit,        \* the limit the reader pages with
          MaxProposals  \* bound: proposals in one thread

ASSUME PagingAssumption == Limit \in Nat \ {0} /\ MaxProposals \in Nat

\* A row is in one table.
ASSUME TablesAssumption == Requests \cap Negs = {}

VARIABLES owner, reqStatus, negStatus, chain, agreed,  \* as in Negotiation
          newer,    \* the pairs of rows of one table whose first has the higher id
          query,    \* the read under way or answered last
          phase,    \* whether it is under way
          first,    \* detail: the thread at its first statement
          detail,   \* detail: the response
          offset,   \* list: where the next page starts
          got,      \* list: the rows of the pages so far
          held,     \* history: the states of the thread since the first statement
          steady,   \* history: the rows that were in the list all the time
          left      \* history: how many rows have left the list meanwhile

service == <<owner, reqStatus, negStatus, chain, agreed>>
reader == <<query, phase, first, detail, offset, got>>
history == <<held, steady, left>>
vars == <<service, newer, reader, history>>

Service == INSTANCE Negotiation WITH
    owner <- owner, reqStatus <- reqStatus, negStatus <- negStatus,
    chain <- chain, agreed <- agreed

DetailQuery == [kind : {"detail"}, user : Users, neg : Negs]
ListQuery == [kind : {"requests", "negotiations"}, user : Users, neg : {Null}]

ThreadState == [status : NegotiationStatus, agreed : Amounts \cup {Null}, chain : Seq(Proposal)]

\* Null is none of these records.
ASSUME RecordsAssumption == Null \notin DetailQuery \cup ListQuery \cup ThreadState

Thread(n) == [status |-> negStatus[n], agreed |-> agreed[n], chain |-> chain[n]]

Init ==
    /\ Service!Init
    /\ newer = {}
    /\ query = Null /\ phase = "idle" /\ first = Null /\ detail = Null
    /\ offset = 0 /\ got = {}
    /\ held = {} /\ steady = {} /\ left = 0

-----------------------------------------------------------------------------
(* The lists.                                                              *)

\* A client lists its own requests, a supplier the open ones.
ListRequests(u) ==
    {r \in Requests : IF u \in Clients THEN owner[r] = u ELSE reqStatus[r] = "open"}

\* A supplier lists its threads, a client those on its requests.
ListNegotiations(u) ==
    {n \in Negs : /\ negStatus[n] # "none"
                  /\ IF u \in Suppliers THEN SupplierOf(n) = u ELSE owner[RequestOf(n)] = u}

Listed(q) == IF q.kind = "requests" THEN ListRequests(q.user) ELSE ListNegotiations(q.user)

\* ORDER BY id DESC: how many of the rows come before x.
Above(x, rows) == {y \in rows : <<y, x>> \in newer}
Rank(x, rows) == Cardinality(Above(x, rows))

\* LIMIT and OFFSET over the ordered rows.
PageAt(rows, o) == {x \in rows : Rank(x, rows) \in o .. o + Limit - 1}

\* Variant: no ORDER BY, so that any rows make up a page.
UnorderedPages(rows, o) ==
    {page \in SUBSET rows : Cardinality(page) = Cardinality(PageAt(rows, o))}

\* The answers there are to a query for a page.
Pages(rows, o) == {PageAt(rows, o)}

-----------------------------------------------------------------------------
(* The commands, as far as reads can tell.                                 *)

\* What goes on while a read is under way.
Watch ==
    /\ UNCHANGED reader
    /\ held' = IF phase = "reading" /\ query.kind = "detail"
               THEN held \cup {Thread(query.neg)'} ELSE held
    /\ IF phase = "reading" /\ query.kind # "detail"
       THEN LET before == Listed(query)
                after == Listed(query)'
            IN  /\ steady' = steady \cap after
                /\ left' = left + Cardinality(before \ after)
       ELSE UNCHANGED <<steady, left>>

\* Ids are drawn at the insert, rows appear at the commit: a row may appear
\* below others that were drawn later, but above all that are older than those.
Insert(row, rows) ==
    \E older \in SUBSET rows :
        /\ \A x \in older : \A y \in rows : <<x, y>> \in newer => y \in older
        /\ newer' = newer \cup ({row} \X older) \cup ((rows \ older) \X {row})

CreateRequest(c, r) ==
    /\ Service!CreateRequest(c, r)
    /\ Insert(r, {q \in Requests : reqStatus[q] # "none"})
    /\ Watch

MakeOffer(s, r, a, cur) ==
    /\ Service!MakeOffer(s, r, a, cur)
    /\ Insert(<<r, s>>, {n \in Negs : negStatus[n] # "none"})
    /\ Watch

Respond(u, n) ==
    /\ \/ Service!Accept(u, n)
       \/ Service!Reject(u, n)
       \/ Len(chain[n]) < MaxProposals /\ \E a \in Amounts : Service!Counter(u, n, a)
    /\ UNCHANGED newer
    /\ Watch

-----------------------------------------------------------------------------
(* The reads.                                                              *)

\* get_negotiation: the row of the thread (404), then the owner of its request,
\* which never changes (403).
GetNegotiation(u, n) ==
    /\ phase # "reading"
    /\ negStatus[n] # "none"
    /\ u \in Participants(owner[RequestOf(n)], n)
    /\ query' = [kind |-> "detail", user |-> u, neg |-> n]
    /\ phase' = "reading"
    /\ first' = Thread(n)
    /\ held' = {Thread(n)}
    /\ detail' = Null /\ offset' = 0 /\ got' = {}
    /\ steady' = {} /\ left' = 0
    /\ UNCHANGED <<service, newer>>

\* Variant: the proposals are loaded before the row is read again.
DetailRefreshed(n) ==
    [status |-> negStatus[n], agreed |-> agreed[n], chain |-> first.chain]

\* The columns are those of the first statement, the proposals are loaded when
\* the response is built.
Detail(n) == [status |-> first.status, agreed |-> first.agreed, chain |-> chain[n]]

LoadProposals ==
    /\ phase = "reading" /\ query.kind = "detail"
    /\ detail' = Detail(query.neg)
    /\ phase' = "done"
    /\ UNCHANGED <<service, newer, query, first, offset, got, history>>

StartList(u, kind) ==
    /\ phase # "reading"
    /\ query' = [kind |-> kind, user |-> u, neg |-> Null]
    /\ phase' = "reading"
    /\ offset' = 0 /\ got' = {}
    /\ steady' = Listed(query') /\ left' = 0
    /\ first' = Null /\ detail' = Null /\ held' = {}
    /\ UNCHANGED <<service, newer>>

\* The reader asks for page after page until one is short.
NextPage ==
    /\ phase = "reading" /\ query.kind # "detail"
    /\ \E page \in Pages(Listed(query), offset) :
          /\ got' = got \cup page
          /\ offset' = offset + Limit
          /\ phase' = IF Cardinality(page) < Limit THEN "done" ELSE "reading"
    /\ UNCHANGED <<service, newer, query, first, detail, history>>

Next ==
    \/ \E c \in Clients, r \in Requests : CreateRequest(c, r)
    \/ \E s \in Suppliers, r \in Requests, a \in Amounts, cur \in Currencies :
          MakeOffer(s, r, a, cur)
    \/ \E u \in Users, n \in Negs : Respond(u, n) \/ GetNegotiation(u, n)
    \/ \E u \in Users, kind \in {"requests", "negotiations"} : StartList(u, kind)
    \/ LoadProposals
    \/ NextPage

Spec == Init /\ [][Next]_vars

-----------------------------------------------------------------------------
(* Properties.                                                             *)

TypeOK ==
    /\ query \in DetailQuery \cup ListQuery \cup {Null}
    /\ phase \in {"idle", "reading", "done"}
    /\ first \in ThreadState \cup {Null} /\ detail \in ThreadState \cup {Null}
    /\ newer \subseteq (Requests \X Requests) \cup (Negs \X Negs)
    /\ got \subseteq Requests \cup Negs /\ steady \subseteq Requests \cup Negs
    /\ held \subseteq ThreadState

\* NegotiationDetailOut shows a thread as it stood at one moment of the call,
\* though its columns and its proposals are read by two statements between which
\* the parties act: an accepted thread is never shown without the proposal whose
\* price was agreed, nor a proposal beside the status of an earlier moment.
DetailIsSnapshot ==
    phase = "done" /\ query.kind = "detail" => detail \in held

\* Whoever reads a list page by page misses at most as many of the rows that
\* were in it all the time as rows have left it meanwhile (a supplier's view of
\* the open requests, from which an accept takes one).  A client's requests and
\* anybody's threads stay listed: of these none is missed, whatever is inserted.
MissedOnlyForDepartures ==
    phase = "done" /\ query.kind # "detail" =>
        /\ Cardinality(steady \ got) <= left
        /\ query.kind = "negotiations" \/ query.user \in Clients => steady \subseteq got
=============================================================================
