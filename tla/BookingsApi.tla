------------------------------ MODULE BookingsApi ------------------------------
(***************************************************************************)
(* What the clients of the HTTP API see: api/handler/bookings_handler.go   *)
(* over BookingsService and BookingsQueries.  A request is taken apart     *)
(* into the statements that commit or read on their own: a list is a count *)
(* and a page, statistics are three queries, and none of them runs in a    *)
(* transaction.                                                            *)
(*                                                                         *)
(* Cancel and the changes that come from elsewhere are the transactions of *)
(* BookingsService, one step each.  Requests that are refused before they  *)
(* reach the table (a body, an id, a date or a status that does not parse) *)
(* change and read nothing and are left out.  Filters by user and resource *)
(* are left out too: these columns never change, so such a list is a list  *)
(* of a smaller table.                                                     *)
(***************************************************************************)
EXTENDS Booking, Naturals, FiniteSets

CONSTANTS
  Bookings,     \* the ids 1 .. n that the sequence of the table gives out
  InPeriod,     \* those whose created_at lies in the period asked about
  Resource,     \* Resource[b]: the resource of booking b
  Clients,
  Serves,       \* Serves[c]: the kinds of request client c makes
  Filters,      \* the status filters of their lists, None for all bookings
  Size,         \* the page size they ask for
  TopLimit      \* the LIMIT of queryTopResourcesByCreatedAtRange, 5

Requests == {"create", "cancel", "lookup", "list", "statistics"}

ASSUME ApiAssumption ==
  /\ Bookings \subseteq Nat \ {0}
  /\ InPeriod \subseteq Bookings
  /\ Resource \in [Bookings -> Nat]
  /\ Serves \in [Clients -> SUBSET Requests]
  /\ Filters \subseteq BookingStatus \cup {None}
  /\ Size \in Nat \ {0}
  /\ TopLimit \in Nat \ {0}

VARIABLES
  rows,         \* table bookings: the committed status of each id
  next,         \* bookings_id_seq: the next id to give out
  client,       \* the request each client is waiting for
  created,      \* history: the ids that were answered with 201
  cancelled     \* history: the ids whose cancellation was answered with 204

vars == <<rows, next, client, created, cancelled>>

Idle == [op |-> "none"]

CreateRequest == [op : {"create"}, at : {"insert", "answer"}, id : Bookings]

(* The codes of a cancellation, 0 before it is answered.                   *)
Codes == {0, 204, 409, 500}

CancelRequest ==
  [op : {"cancel"}, at : {"update", "answer"}, id : Bookings, code : Codes]

Lookup ==
  [op : {"lookup"}, at : {"select", "answer"}, id : Bookings,
   status : BookingStatus \cup {None, Absent},
   created : BOOLEAN, cancelled : BOOLEAN]

(* A walk through the pages of one filter.  Of the items of a page it      *)
(* keeps how many there are.  History: what the table held when the walk   *)
(* began and no page has shown yet.  A lookup keeps what clients had been  *)
(* told about its booking.                                                 *)
Listing ==
  [op : {"list"}, at : {"count", "page", "answer"}, filter : Filters,
   page : Nat \ {0}, total : Nat, items : Nat, unseen : SUBSET Bookings]

Resources == {Resource[b] : b \in Bookings}

(* Kept of the lines of a list is the count of each, 0 without a line.     *)
Report ==
  [op : {"statistics"}, at : {"total", "breakdown", "top", "answer"}, total : Nat,
   breakdown : [BookingStatus -> Nat], top : [Resources -> Nat]]

ClientState ==
  {Idle} \cup CreateRequest \cup CancelRequest \cup Lookup \cup Listing \cup Report

(* Every variable has its type.                                            *)
TypeOK ==
  /\ rows \in [Bookings -> BookingStatus \cup {Absent}]
  /\ next \in Nat
  /\ client \in [Clients -> ClientState]
  /\ created \subseteq Bookings
  /\ cancelled \subseteq Bookings

Init ==
  /\ rows = [b \in Bookings |-> Absent]
  /\ next = 1
  /\ client = [c \in Clients |-> Idle]
  /\ created = {}
  /\ cancelled = {}

-----------------------------------------------------------------------------
Begins(c, request) ==
  /\ client[c] = Idle
  /\ request.op \in Serves[c]
  /\ client' = [client EXCEPT ![c] = request]

Waits(c, op, at) == client[c].op = op /\ client[c].at = at

Returns(c) == client' = [client EXCEPT ![c] = Idle]

(* POST /create.  The id is drawn when the INSERT starts and the row is    *)
(* there when it has committed: of two that overlap the later id may       *)
(* appear first.                                                           *)
BeginCreate(c) ==
  /\ next \in Bookings
  /\ Begins(c, [op |-> "create", at |-> "insert", id |-> next])
  /\ next' = next + 1
  /\ UNCHANGED <<rows, created, cancelled>>

(* A faulty INSERT that leaves the status to the table.                    *)
InsertWithoutStatus(c) ==
  /\ Waits(c, "create", "insert")
  /\ rows' = [rows EXCEPT ![client[c].id] = None]
  /\ client' = [client EXCEPT ![c].at = "answer"]
  /\ UNCHANGED <<next, created, cancelled>>

Insert(c) ==
  /\ Waits(c, "create", "insert")
  /\ rows' = [rows EXCEPT ![client[c].id] = AwaitsConfirmation]
  /\ client' = [client EXCEPT ![c].at = "answer"]
  /\ UNCHANGED <<next, created, cancelled>>

(* 201, whether the create command could be published or not.              *)
AnswerCreate(c) ==
  /\ Waits(c, "create", "answer")
  /\ created' = created \cup {client[c].id}
  /\ Returns(c)
  /\ UNCHANGED <<rows, next, cancelled>>

(* PUT /{id}/cancel.                                                       *)
BeginCancel(c) ==
  /\ \E b \in Bookings :
       Begins(c, [op |-> "cancel", at |-> "update", id |-> b, code |-> 0])
  /\ UNCHANGED <<rows, next, created, cancelled>>

(* A faulty Cancel that takes a cancellation that is pending for done.     *)
CancelIfNeeded(c) ==
  /\ Waits(c, "cancel", "update")
  /\ LET b == client[c].id IN
       \/ /\ CancelAllowed(rows[b], TRUE)
          /\ rows' = [rows EXCEPT ![b] = Cancelled]
          /\ client' = [client EXCEPT ![c].at = "answer", ![c].code = 204]
       \/ /\ rows[b] \in {Cancelled, CancellationPending}
          /\ client' = [client EXCEPT ![c].at = "answer", ![c].code = 204]
          /\ UNCHANGED rows
  /\ UNCHANGED <<next, created, cancelled>>

(* The transaction of BookingsService.Cancel and what handleServiceError   *)
(* makes of its error: 409 for both refusals of the domain method, 500 for *)
(* an unknown id (pgx.ErrNoRows is not mapped in UpdateWithOutbox) and for *)
(* any failed statement.  A commit that reports an error may have happened. *)
(* The first day of the booking may have come or not.                      *)
Cancel(c) ==
  /\ Waits(c, "cancel", "update")
  /\ LET b == client[c].id IN
       \/ /\ CancelAllowed(rows[b], TRUE)
          /\ rows' = [rows EXCEPT ![b] = Cancelled]
          /\ \E code \in {204, 500} :
               client' = [client EXCEPT ![c].at = "answer", ![c].code = code]
       \/ /\ rows[b] # Absent
          /\ ~ CancelAllowed(rows[b], FALSE)
          /\ client' = [client EXCEPT ![c].at = "answer", ![c].code = 409]
          /\ UNCHANGED rows
       \/ /\ client' = [client EXCEPT ![c].at = "answer", ![c].code = 500]
          /\ UNCHANGED rows
  /\ UNCHANGED <<next, created, cancelled>>

AnswerCancel(c) ==
  /\ Waits(c, "cancel", "answer")
  /\ cancelled' = IF client[c].code = 204 THEN cancelled \cup {client[c].id} ELSE cancelled
  /\ Returns(c)
  /\ UNCHANGED <<rows, next, created>>

-----------------------------------------------------------------------------
(* GET /{id} and GET /{id}/status: one read.                               *)
BeginLookup(c) ==
  /\ \E b \in Bookings :
       Begins(c, [op |-> "lookup", at |-> "select", id |-> b, status |-> None,
                  created |-> b \in created, cancelled |-> b \in cancelled])
  /\ UNCHANGED <<rows, next, created, cancelled>>

(* No row is ErrBookingNotFound, and a 404.                                *)
GetByID(c) ==
  /\ Waits(c, "lookup", "select")
  /\ client' = [client EXCEPT ![c].at = "answer", ![c].status = rows[client[c].id]]
  /\ UNCHANGED <<rows, next, created, cancelled>>

AnswerLookup(c) ==
  /\ Waits(c, "lookup", "answer")
  /\ Returns(c)
  /\ UNCHANGED <<rows, next, created, cancelled>>

-----------------------------------------------------------------------------
(* POST /by-filter, page after page until one is not full.                 *)

Matching(filter) ==
  {b \in Bookings : rows[b] # Absent /\ filter \in {None, rows[b]}}

(* NewDefaultFilter starts at page 1.                                      *)
BeginList(c) ==
  /\ \E filter \in Filters :
       Begins(c, [op |-> "list", at |-> "count", filter |-> filter, page |-> 1, total |-> 0,
                  items |-> 0, unseen |-> Matching(filter)])
  /\ UNCHANGED <<rows, next, created, cancelled>>

(* queryCountBookingsByFilter.                                             *)
CountByFilter(c) ==
  /\ Waits(c, "list", "count")
  /\ client' = [client EXCEPT ![c].at = "page",
                              ![c].total = Cardinality(Matching(client[c].filter))]
  /\ UNCHANGED <<rows, next, created, cancelled>>

(* A faulty offset that counts the pages from zero.                        *)
OffsetFromZero(page) == page * Size

Offset(page) == (page - 1) * Size

(* queryGetBookingsByFilter: ORDER BY id DESC LIMIT Size OFFSET offset.    *)
PageOf(S, offset) ==
  {b \in S : Cardinality({a \in S : a > b}) \in offset .. offset + Size - 1}

PageRead(c, at) ==
  LET items == PageOf(Matching(client[c].filter), Offset(client[c].page))
  IN  client' = [client EXCEPT ![c].at = at, ![c].items = Cardinality(items),
                               ![c].unseen = @ \ items]

(* A faulty GetByFilter that runs the two queries side by side.            *)
GetByFilterConcurrently(c) ==
  /\ \/ Waits(c, "list", "count") /\ client[c].items = 0 /\ PageRead(c, "count")
     \/ Waits(c, "list", "page") /\ client[c].items = 0 /\ PageRead(c, "answer")
     \/ /\ Waits(c, "list", "page") /\ client[c].items > 0
        /\ client' = [client EXCEPT ![c].at = "answer"]
  /\ UNCHANGED <<rows, next, created, cancelled>>

GetByFilter(c) ==
  /\ Waits(c, "list", "page")
  /\ PageRead(c, "answer")
  /\ UNCHANGED <<rows, next, created, cancelled>>

IsLastPage(c) == Waits(c, "list", "answer") /\ client[c].items < Size

NextPage(c) ==
  /\ Waits(c, "list", "answer") /\ ~ IsLastPage(c)
  /\ client' = [client EXCEPT ![c].at = "count", ![c].page = @ + 1,
                              ![c].total = 0, ![c].items = 0]
  /\ UNCHANGED <<rows, next, created, cancelled>>

AnswerList(c) ==
  /\ IsLastPage(c)
  /\ Returns(c)
  /\ UNCHANGED <<rows, next, created, cancelled>>

-----------------------------------------------------------------------------
(* GET /statistics.  Which bookings are in the period never changes:       *)
(* created_at is written once.                                             *)

Counted == {b \in InPeriod : rows[b] # Absent}

BeginStatistics(c) ==
  /\ Begins(c, [op |-> "statistics", at |-> "total", total |-> 0,
                breakdown |-> [s \in BookingStatus |-> 0], top |-> [r \in Resources |-> 0]])
  /\ UNCHANGED <<rows, next, created, cancelled>>

(* queryCountBookingsByCreatedAtRange.                                     *)
CountTotal(c) ==
  /\ Waits(c, "statistics", "total")
  /\ client' = [client EXCEPT ![c].at = "breakdown", ![c].total = Cardinality(Counted)]
  /\ UNCHANGED <<rows, next, created, cancelled>>

(* The lines of queryStatusBreakdownByCreatedAtRange, one per status, and  *)
(* a faulty list that was not extended when the last status came.          *)
LinesOfThree == BookingStatus \ {CancellationPending}

Lines == BookingStatus

Breakdown(c) ==
  /\ Waits(c, "statistics", "breakdown")
  /\ client' = [client EXCEPT ![c].at = "top",
       ![c].breakdown = [s \in BookingStatus |->
          IF s \in Lines THEN Cardinality({b \in Counted : rows[b] = s}) ELSE 0]]
  /\ UNCHANGED <<rows, next, created, cancelled>>

BookingCount(r) == Cardinality({b \in Counted : Resource[b] = r})

(* ORDER BY booking_count DESC, resource_id ASC.                           *)
Precedes(q, r) ==
  \/ BookingCount(q) > BookingCount(r)
  \/ BookingCount(q) = BookingCount(r) /\ q < r

Used == {Resource[b] : b \in Counted}

Listed == {r \in Used : Cardinality({q \in Used : Precedes(q, r)}) < TopLimit}

(* queryTopResourcesByCreatedAtRange.                                      *)
TopResources(c) ==
  /\ Waits(c, "statistics", "top")
  /\ client' = [client EXCEPT ![c].at = "answer",
                              ![c].top = [r \in Resources |->
                                            IF r \in Listed THEN BookingCount(r) ELSE 0]]
  /\ UNCHANGED <<rows, next, created, cancelled>>

AnswerStatistics(c) ==
  /\ Waits(c, "statistics", "answer")
  /\ Returns(c)
  /\ UNCHANGED <<rows, next, created, cancelled>>

-----------------------------------------------------------------------------
(* A statement of a read failed, or the INSERT did: 500, and what was read *)
(* before is dropped.  An id that was drawn is lost.                       *)
Fail(c) ==
  /\ client[c] # Idle
  /\ client[c].op # "cancel"
  /\ client[c].at # "answer"
  /\ Returns(c)
  /\ UNCHANGED <<rows, next, created, cancelled>>

(* Confirmations, cancellations and requests for one from elsewhere.       *)
Elsewhere(b) ==
  /\ \/ ConfirmAllowed(rows[b]) /\ rows' = [rows EXCEPT ![b] = Confirmed]
     \/ CancelAllowed(rows[b], TRUE) /\ rows' = [rows EXCEPT ![b] = Cancelled]
     \/ /\ StartCancellationAllowed(rows[b], TRUE)
        /\ rows' = [rows EXCEPT ![b] = CancellationPending]
  /\ UNCHANGED <<next, client, created, cancelled>>

Next ==
  \/ \E c \in Clients :
       \/ BeginCreate(c) \/ Insert(c) \/ AnswerCreate(c)
       \/ BeginCancel(c) \/ Cancel(c) \/ AnswerCancel(c)
       \/ BeginLookup(c) \/ GetByID(c) \/ AnswerLookup(c)
       \/ BeginList(c) \/ CountByFilter(c) \/ GetByFilter(c) \/ NextPage(c) \/ AnswerList(c)
       \/ BeginStatistics(c) \/ CountTotal(c) \/ Breakdown(c) \/ TopResources(c)
       \/ AnswerStatistics(c) \/ Fail(c)
  \/ \E b \in Bookings : Elsewhere(b)

Spec == Init /\ [][Next]_vars

-----------------------------------------------------------------------------
(* Rows come in but none ever leaves a list of all bookings, or of the     *)
(* cancelled ones.                                                         *)
OnlyGrows(filter) == filter \in {None, Cancelled}

(* A client that walks such a list to its last page has seen every booking *)
(* that was in it when the walk began, although the pages are read at      *)
(* different times and bookings that are created or cancelled in between   *)
(* push the others to later pages.                                         *)
NothingIsSkipped ==
  \A c \in Clients :
    IsLastPage(c) /\ OnlyGrows(client[c].filter) => client[c].unseen = {}

(* The total of a last page never promises a booking beyond it, although   *)
(* the total and the page come from two queries.                           *)
TotalEndsTheWalk ==
  \A c \in Clients :
    IsLastPage(c) /\ OnlyGrows(client[c].filter) =>
      client[c].total <= (client[c].page - 1) * Size + client[c].items

(* How many bookings some lines account for together: as many as there are *)
(* pairs of a line and a number up to its count.                           *)
Sum(lines) == Cardinality(UNION {{key} \X (1 .. lines[key]) : key \in DOMAIN lines})

(* Three queries that see different tables still fit together: the         *)
(* statuses account for every booking of the total, and the resources for  *)
(* every booking of the statuses unless the list was cut off.              *)
StatisticsAddUp ==
  \A c \in Clients :
    Waits(c, "statistics", "answer") =>
      LET report == client[c] IN
        /\ report.total <= Sum(report.breakdown)
        /\ Cardinality({r \in Resources : report.top[r] > 0}) < TopLimit =>
             Sum(report.breakdown) <= Sum(report.top)

(* What an answer told a client holds for every lookup that begins after   *)
(* it, whoever makes it: a booking it was given an id for is found, and a  *)
(* booking it was told is cancelled is cancelled.                          *)
AnswersHold ==
  \A c \in Clients :
    Waits(c, "lookup", "answer") =>
      /\ client[c].created => client[c].status # Absent
      /\ client[c].cancelled => client[c].status = Cancelled
=============================================================================
