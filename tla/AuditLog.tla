------------------------------ MODULE AuditLog -------------------------------
(***************************************************************************)
(* The audit log and its readers: AuditLogRepository.record, list_events   *)
(* and count_events, AuditLogService.list_events and GET /v1/audit-logs,   *)
(* with requests that record events while a client follows the pages.      *)
(*                                                                         *)
(* occurred_at is PostgreSQL's now(): the time at which the transaction    *)
(* executed its first statement, not the time of the INSERT or the COMMIT. *)
(* So rows need not become visible in the order of occurred_at, and two of *)
(* them may carry the same time; ORDER BY occurred_at DESC then leaves     *)
(* their order open, in every query anew.  The page and the total are two  *)
(* statements, each of which sees the rows committed when it starts.       *)
(***************************************************************************)
EXTENDS Naturals, Sequences, FiniteSets

CONSTANTS
    Actors, Actions, Organizations,  \* values of the columns one can filter by
    Writers,                         \* requests that record events
    Readers,                         \* clients that read the log
    NULL,                            \* None
    MaxLimit,                        \* largest page (200 in the code)
    MaxOffset,                       \* bound: where a client may start
    MaxRows,                         \* bound: rows recorded
    MaxTime                          \* bound: the clock

ASSUME AuditNullAssumption == NULL \notin Actors \cup Actions \cup Organizations \cup Nat
ASSUME AuditBoundAssumption ==
    /\ MaxLimit \in Nat /\ MaxOffset \in Nat /\ MaxRows \in Nat /\ MaxTime \in Nat

VARIABLES
    log,       \* audit_logs rows in the order of their commits
    clock,     \* the database's time when a transaction began last
    begun,     \* writer: now() of the open transaction, NULL: none is open
    pc,        \* reader: the statement or answer that comes next
    query,     \* reader: the filters
    limit, offset, page, total,  \* reader: parameters and answer of the request
    listed,    \* history: rows committed when list_events ran
    first,     \* history: the offset of the client's first request
    promised,  \* history: rows committed then
    opened,    \* history: transactions open then
    pending,   \* history: writers whose transaction was open then and has not ended
    seen,      \* history: rows received
    shown      \* history: entries received, repeated ones included

writers == <<log, clock, begun>>
readers == <<pc, query, limit, offset, page, total, listed, first, promised, opened,
             seen, shown>>
vars == <<writers, readers, pending>>

OrNull(S) == S \cup {NULL}

-----------------------------------------------------------------------------
(* Types *)

Events == [actor : OrNull(Actors), action : Actions, organization : OrNull(Organizations)]
Filters == [actor : OrNull(Actors), action : OrNull(Actions),
            organization : OrNull(Organizations)]
Rows == [event : Events, occurred_at : Nat]

(* Every column, parameter and answer holds a value of its kind, and what a  *)
(* reader has received are rows of the log.                                  *)
TypeOK ==
    /\ log \in Seq(Rows)
    /\ clock \in Nat
    /\ begun \in [Writers -> OrNull(Nat)]
    /\ pending \in [Readers -> SUBSET Writers]
    /\ pc \in [Readers -> {"idle", "list", "count", "answered"}]
    /\ query \in [Readers -> Filters]
    /\ limit \in [Readers -> Nat] /\ offset \in [Readers -> Nat] /\ total \in [Readers -> Nat]
    /\ first \in [Readers -> Nat]
    /\ page \in [Readers -> SUBSET (1..Len(log))] /\ seen \in [Readers -> SUBSET (1..Len(log))]
    /\ listed \in [Readers -> 0..Len(log)] /\ promised \in [Readers -> 0..Len(log)]
    /\ shown \in [Readers -> Nat] /\ opened \in [Readers -> Nat]

NoFilter == [actor |-> NULL, action |-> NULL, organization |-> NULL]

Init ==
    /\ log = <<>> /\ clock = 0
    /\ begun = [w \in Writers |-> NULL]
    /\ pending = [c \in Readers |-> {}]
    /\ pc = [c \in Readers |-> "idle"]
    /\ query = [c \in Readers |-> NoFilter]
    /\ limit = [c \in Readers |-> 0] /\ offset = [c \in Readers |-> 0]
    /\ page = [c \in Readers |-> {}] /\ total = [c \in Readers |-> 0]
    /\ listed = [c \in Readers |-> 0]
    /\ first = [c \in Readers |-> 0] /\ promised = [c \in Readers |-> 0]
    /\ opened = [c \in Readers |-> 0]
    /\ seen = [c \in Readers |-> {}] /\ shown = [c \in Readers |-> 0]

-----------------------------------------------------------------------------
(* Queries *)

(* The WHERE clause: every filter that is given, joined with AND. *)
Matches(event, f) ==
    /\ f.actor # NULL => event.actor = f.actor
    /\ f.action # NULL => event.action = f.action
    /\ f.organization # NULL => event.organization = f.organization

Matching(f) == {i \in 1..Len(log) : Matches(log[i].event, f)}

(* Rows of S, none of which the others of R precede in ORDER BY occurred_at  *)
(* DESC.                                                                     *)
Leads(S, R) ==
    \A i \in S, j \in R \ S : log[i].occurred_at >= log[j].occurred_at

Least(m, n) == IF m <= n THEN m ELSE n

(* The choices of the first k rows of R. *)
Tops(k, R) == {S \in SUBSET R : Cardinality(S) = Least(k, Cardinality(R)) /\ Leads(S, R)}

(* The possible results of ORDER BY occurred_at DESC LIMIT l OFFSET o: the   *)
(* rows after the first o, whichever order rows of the same time are in.     *)
Pages(f, l, o) ==
    UNION {Tops(l, Matching(f) \ skipped) : skipped \in Tops(o, Matching(f))}

-----------------------------------------------------------------------------
(* Writers: the services' requests, as far as the log can tell *)

(* Mutant: occurred_at is the time of a host whose clock may be behind. *)
BeginOnHostClock(w, now) ==
    /\ begun[w] = NULL
    /\ clock' = now
    /\ \E behind \in 0..now : begun' = [begun EXCEPT ![w] = behind]
    /\ UNCHANGED <<log, readers, pending>>

(* The first statement of a transaction, a SELECT or the INSERT itself, some  *)
(* time after the last one.                                                  *)
Begin(w, now) ==
    /\ begun[w] = NULL
    /\ clock' = now
    /\ begun' = [begun EXCEPT ![w] = now]
    /\ UNCHANGED <<log, readers, pending>>

(* The transaction of a writer ends. *)
Close(w) ==
    /\ begun' = [begun EXCEPT ![w] = NULL]
    /\ pending' = [c \in Readers |-> pending[c] \ {w}]

OpenTransactions == {w \in Writers : begun[w] # NULL}

(* AuditLogRepository.record: INSERT and COMMIT. *)
Record(w, event) ==
    /\ begun[w] # NULL
    /\ Len(log) < MaxRows
    /\ log' = Append(log, [event |-> event, occurred_at |-> begun[w]])
    /\ Close(w)
    /\ UNCHANGED <<clock, readers>>

(* The transaction ends with another commit, or is rolled back. *)
End(w) ==
    /\ begun[w] # NULL
    /\ Close(w)
    /\ UNCHANGED <<log, clock, readers>>

-----------------------------------------------------------------------------
(* Readers *)

(* GET /v1/audit-logs with limit >= 1 and offset >= 0 (422 otherwise).       *)
Open(c, f, l, o) ==
    /\ pc[c] = "idle"
    /\ pc' = [pc EXCEPT ![c] = "list"]
    /\ query' = [query EXCEPT ![c] = f]
    /\ limit' = [limit EXCEPT ![c] = l]
    /\ offset' = [offset EXCEPT ![c] = o]
    /\ promised' = [promised EXCEPT ![c] = Len(log)]
    /\ first' = [first EXCEPT ![c] = o]
    /\ opened' = [opened EXCEPT ![c] = Cardinality(OpenTransactions)]
    /\ pending' = [pending EXCEPT ![c] = OpenTransactions]
    /\ UNCHANGED <<writers, page, total, listed, seen, shown>>

(* The statement of list_events returns events. *)
Lists(c, events) ==
    /\ pc[c] = "list"
    /\ page' = [page EXCEPT ![c] = events]
    /\ listed' = [listed EXCEPT ![c] = Len(log)]
    /\ pc' = [pc EXCEPT ![c] = "count"]
    /\ UNCHANGED <<writers, pending, query, limit, offset, total, first, promised, opened,
                   seen, shown>>

(* Mutants: the offset is one too large, one too small. *)
ListEventsFromOne(c) ==
    \E events \in Pages(query[c], limit[c], offset[c] + 1) : Lists(c, events)
ListEventsOverlapping(c) ==
    \E events \in Pages(query[c], limit[c], IF offset[c] = 0 THEN 0 ELSE offset[c] - 1) :
        Lists(c, events)

(* Mutant: ORDER BY is forgotten. *)
ListEventsUnordered(c) ==
    \E events \in SUBSET Matching(query[c]) :
        /\ Cardinality(events) =
              IF Cardinality(Matching(query[c])) <= offset[c] THEN 0
              ELSE Least(limit[c], Cardinality(Matching(query[c])) - offset[c])
        /\ Lists(c, events)

(* AuditLogRepository.list_events. *)
ListEvents(c) == \E events \in Pages(query[c], limit[c], offset[c]) : Lists(c, events)

(* Mutant: the filters are not passed on. *)
CountAll(c) ==
    /\ pc[c] = "count"
    /\ total' = [total EXCEPT ![c] = Len(log)]
    /\ seen' = [seen EXCEPT ![c] = @ \cup page[c]]
    /\ shown' = [shown EXCEPT ![c] = @ + Cardinality(page[c])]
    /\ pc' = [pc EXCEPT ![c] = "answered"]
    /\ UNCHANGED <<writers, pending, query, limit, offset, page, listed, first, promised,
                   opened>>

(* AuditLogRepository.count_events with the same filters, and the answer. *)
CountEvents(c) ==
    /\ pc[c] = "count"
    /\ total' = [total EXCEPT ![c] = Cardinality(Matching(query[c]))]
    /\ seen' = [seen EXCEPT ![c] = @ \cup page[c]]
    /\ shown' = [shown EXCEPT ![c] = @ + Cardinality(page[c])]
    /\ pc' = [pc EXCEPT ![c] = "answered"]
    /\ UNCHANGED <<writers, pending, query, limit, offset, page, listed, first, promised,
                   opened>>

(* The client asks for the next page while the total says there is one. *)
NextPage(c) ==
    /\ pc[c] = "answered"
    /\ offset[c] + limit[c] < total[c]
    /\ offset' = [offset EXCEPT ![c] = @ + limit[c]]
    /\ pc' = [pc EXCEPT ![c] = "list"]
    /\ page' = [page EXCEPT ![c] = {}]
    /\ total' = [total EXCEPT ![c] = 0]
    /\ listed' = [listed EXCEPT ![c] = 0]
    /\ UNCHANGED <<writers, pending, query, limit, first, promised, opened, seen, shown>>

(* The client is through, audit:view is missing by now (403), or a request   *)
(* is cut off: nothing remains of it.                                        *)
Leave(c) ==
    /\ pc[c] # "idle"
    /\ pc' = [pc EXCEPT ![c] = "idle"]
    /\ query' = [query EXCEPT ![c] = NoFilter]
    /\ limit' = [limit EXCEPT ![c] = 0] /\ offset' = [offset EXCEPT ![c] = 0]
    /\ page' = [page EXCEPT ![c] = {}] /\ total' = [total EXCEPT ![c] = 0]
    /\ listed' = [listed EXCEPT ![c] = 0]
    /\ first' = [first EXCEPT ![c] = 0] /\ promised' = [promised EXCEPT ![c] = 0]
    /\ opened' = [opened EXCEPT ![c] = 0] /\ pending' = [pending EXCEPT ![c] = {}]
    /\ seen' = [seen EXCEPT ![c] = {}] /\ shown' = [shown EXCEPT ![c] = 0]
    /\ UNCHANGED writers

-----------------------------------------------------------------------------
Write(w) ==
    \/ \E now \in clock..MaxTime : Begin(w, now)
    \/ \E event \in Events : Record(w, event)
    \/ End(w)

Read(c) ==
    \/ \E f \in Filters, l \in 1..MaxLimit, o \in 0..MaxOffset : Open(c, f, l, o)
    \/ ListEvents(c) \/ CountEvents(c) \/ NextPage(c) \/ Leave(c)

Next == (\E w \in Writers : Write(w)) \/ (\E c \in Readers : Read(c))

Spec == Init /\ [][Next]_vars

-----------------------------------------------------------------------------
(* Properties *)

(* The page of a client fits n, the number of matching rows counted after it *)
(* was listed: n covers the page, and a page that is not full is the last    *)
(* one but for rows recorded since.                                          *)
Fits(c, n) ==
    LET end == offset[c] + Cardinality(page[c])
    IN  /\ page[c] # {} => end <= n
        /\ Cardinality(page[c]) < limit[c] => n <= end + (Len(log) - listed[c])

(* The page and the total of one answer fit together although rows are       *)
(* recorded between the two statements.                                      *)
TotalAgrees == \A c \in Readers : pc[c] = "answered" => Fits(c, total[c])

(* No other matching row has the time of row i. *)
AloneInTime(i, f) ==
    \A j \in Matching(f) : log[j].occurred_at = log[i].occurred_at => j = i

(* The matching rows on record when the client began, but for those that     *)
(* share their time.                                                         *)
Owed(c) == {i \in Matching(query[c]) : i <= promised[c] /\ AloneInTime(i, query[c])}

(* The last page has been answered. *)
Through(c) == pc[c] = "answered" /\ total[c] <= offset[c] + limit[c]

(* A client that follows the pages from the first one until the total says   *)
(* it is through has received every matching row that was on record when it  *)
(* began, whatever was recorded meanwhile; only rows that share their        *)
(* occurred_at with another may have slipped through.                        *)
PagesCover ==
    \A c \in Readers : Through(c) /\ first[c] = 0 => Owed(c) \subseteq seen[c]

NoTies(f) == \A i \in Matching(f) : AloneInTime(i, f)

(* It receives a row again only because of rows recorded meanwhile, at most  *)
(* one for each of them (unless times are shared).                           *)
RepeatsBounded ==
    \A c \in Readers : NoTies(query[c]) =>
        shown[c] <= Cardinality(seen[c]) + (Len(log) - promised[c])

(* Rows recorded since the client began that are listed below one that was   *)
(* on record then.                                                           *)
Late(c) ==
    {i \in promised[c] + 1..Len(log) :
        \E j \in 1..promised[c] : log[i].occurred_at < log[j].occurred_at}

(* The rows a client has seen are all but final: what is recorded later is   *)
(* listed above them, except for at most one row of each transaction that    *)
(* was open when the client began, however long it stays open (the INSERT of *)
(* record carries the time of its transaction's first statement).            *)
LateRowsBounded == \A c \in Readers : Cardinality(Late(c)) <= opened[c]

-----------------------------------------------------------------------------
(* The inductive invariant *)

(* The rows a query lists before row i. *)
Ahead(i, f) == {j \in Matching(f) : log[j].occurred_at > log[i].occurred_at}

(* What a client has fetched, the page not yet answered included: the rows,  *)
(* the number of entries, and how far into the listing it has come.          *)
Fetched(c) == seen[c] \cup page[c]
Entries(c) == shown[c] + (IF pc[c] = "count" THEN Cardinality(page[c]) ELSE 0)
Reached(c) == IF pc[c] \in {"count", "answered"} THEN offset[c] + limit[c] ELSE offset[c]

(* Fetched rows that a later page shows again. *)
Again(c) == {i \in Fetched(c) : Reached(c) <= Cardinality(Ahead(i, query[c]))}

(* No row is from the future, and neither is an open transaction. *)
TimesOK ==
    /\ \A i \in 1..Len(log) : log[i].occurred_at <= clock
    /\ \A w \in OpenTransactions : begun[w] <= clock
    /\ IsFiniteSet(OpenTransactions)

(* Only a transaction that was open when the client began can still record a *)
(* late row, and it does so once.                                            *)
LateOK(c) ==
    /\ pending[c] \subseteq OpenTransactions
    /\ \A w \in OpenTransactions \ pending[c], i \in 1..promised[c] :
          log[i].occurred_at <= begun[w]
    /\ Cardinality(Late(c)) + Cardinality(pending[c]) <= opened[c]

(* What is owed to a client and not fetched lies ahead of it, and each entry *)
(* it got twice, or will get, is paid for by a new row.                      *)
ReaderOK(c) ==
    /\ pc[c] \in {"idle", "list"} => page[c] = {}
    /\ pc[c] = "idle" => promised[c] = 0 /\ seen[c] = {} /\ shown[c] = 0
    /\ pc[c] = "answered" => page[c] \subseteq seen[c]
    /\ Fetched(c) \subseteq Matching(query[c])
    /\ pc[c] = "count" => Fits(c, Cardinality(Matching(query[c])))
    /\ first[c] = 0 => \A i \in Owed(c) \ Fetched(c) :
         /\ Reached(c) <= Cardinality(Ahead(i, query[c]))
         /\ pc[c] = "answered" => Reached(c) < total[c]
    /\ NoTies(query[c]) =>
         Entries(c) + Cardinality(Again(c)) <= Cardinality(Fetched(c)) + (Len(log) - promised[c])

(* Why the audit log's readers and writers keep the properties above. *)
AuditInv == TypeOK /\ TimesOK /\ TotalAgrees /\ \A c \in Readers : LateOK(c) /\ ReaderOK(c)
=============================================================================
