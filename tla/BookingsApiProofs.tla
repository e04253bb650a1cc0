--------------------------- MODULE BookingsApiProofs ---------------------------
(***************************************************************************)
(* Theorems about BookingsApi, for any number of bookings and clients, any *)
(* page size and any limit of the top resources.                           *)
(***************************************************************************)
EXTENDS BookingsApi, FiniteSetTheorems, TLAPS

(* What a client waits for says which request it has made.                 *)
LEMMA RequestShape ==
  ASSUME TypeOK, NEW c \in Clients
  PROVE  /\ client[c] \in ClientState
         /\ client[c].op = "create" => client[c] \in CreateRequest
         /\ client[c].op = "cancel" => client[c] \in CancelRequest
         /\ client[c].op = "lookup" => client[c] \in Lookup
         /\ client[c].op = "list" => client[c] \in Listing
         /\ client[c].op = "statistics" => client[c] \in Report
BY DEF TypeOK, ClientState, Idle, CreateRequest, CancelRequest, Lookup, Listing, Report

(* The ids in the table and in flight have been drawn from the sequence,   *)
(* and no two INSERTs in flight have the same.                             *)
RowsAreDrawn == \A b \in Bookings : rows[b] # Absent => b < next

IdsAreDrawn ==
  /\ RowsAreDrawn
  /\ \A c \in Clients : client[c].op = "create" => client[c].id < next
  /\ \A c \in Clients : Waits(c, "create", "insert") => rows[client[c].id] = Absent
  /\ \A c, d \in Clients :
       Waits(c, "create", "insert") /\ Waits(d, "create", "insert")
         /\ client[c].id = client[d].id => c = d

(* The list of a filter in a given state of the table.                     *)
List(table, filter) == {b \in Bookings : table[b] # Absent /\ filter \in {None, table[b]}}

(* The rows of a list in a table where all ids have been drawn are finite. *)
LEMMA ListsAreFinite ==
  ASSUME NEW table, NEW n \in Nat, \A b \in Bookings : table[b] # Absent => b < n
  PROVE  /\ \A filter : /\ IsFiniteSet(List(table, filter))
                        /\ List(table, filter) \subseteq Nat
                        /\ Cardinality(List(table, filter)) \in Nat
         /\ IsFiniteSet({b \in InPeriod : table[b] # Absent})
<1> DEFINE Existing == {b \in Bookings : table[b] # Absent}
<1>1. IsFiniteSet(1 .. n)
  BY FS_Interval
<1>2. Existing \subseteq 1 .. n
  <2>1. ASSUME NEW b \in Bookings, table[b] # Absent PROVE b \in 1 .. n
    <3>1. b \in Nat /\ b # 0 /\ b < n
      BY <2>1, ApiAssumption
    <3> QED
      BY <3>1
  <2> QED
    BY <2>1
<1>3. /\ \A filter : List(table, filter) \subseteq Existing
      /\ {b \in InPeriod : table[b] # Absent} \subseteq Existing
  BY ApiAssumption DEF List
<1>4. IsFiniteSet(Existing) /\ Existing \subseteq Nat
  BY <1>1, <1>2, FS_Subset
<1> HIDE DEF Existing
<1> QED
  BY <1>3, <1>4, FS_Subset, FS_CardinalityType

(* The table is finite, and so is every list.                              *)
LEMMA TablesAreFinite ==
  ASSUME TypeOK, RowsAreDrawn
  PROVE  /\ \A filter : /\ IsFiniteSet(Matching(filter))
                        /\ Cardinality(Matching(filter)) \in Nat
         /\ IsFiniteSet(Counted) /\ Cardinality(Counted) \in Nat
<1>1. \A filter : Matching(filter) = List(rows, filter)
  BY DEF Matching, List
<1>2. /\ \A filter : /\ IsFiniteSet(List(rows, filter))
                     /\ Cardinality(List(rows, filter)) \in Nat
      /\ IsFiniteSet(Counted)
  BY ListsAreFinite DEF TypeOK, RowsAreDrawn, Counted
<1> QED
  BY <1>1, <1>2, FS_CardinalityType

(* A step changes the request of one client.                               *)
LEMMA BeginsTyped ==
  ASSUME TypeOK, NEW c \in Clients, NEW request \in ClientState
  PROVE  /\ Begins(c, request) => /\ client' \in [Clients -> ClientState]
                                  /\ client'[c] = request
                                  /\ \A d \in Clients \ {c} : client'[d] = client[d]
         /\ Returns(c) => /\ client' \in [Clients -> ClientState]
                          /\ client'[c] = Idle
                          /\ \A d \in Clients \ {c} : client'[d] = client[d]
         /\ client' = [client EXCEPT ![c] = request] =>
              /\ client' \in [Clients -> ClientState]
              /\ client'[c] = request
              /\ \A d \in Clients \ {c} : client'[d] = client[d]
<1>1. Idle \in ClientState
  BY DEF ClientState
<1> QED
  BY <1>1 DEF TypeOK, Begins, Returns

(* No step leaves the types.  That the counts are numbers needs finite     *)
(* tables, hence that ids are drawn.                                       *)
LEMMA TypeStep ==
  ASSUME TypeOK, RowsAreDrawn, [Next]_vars
  PROVE  TypeOK'
<1>1. ASSUME NEW c \in Clients, BeginCreate(c)
      PROVE  TypeOK'
  <2>1. [op |-> "create", at |-> "insert", id |-> next] \in ClientState
    BY <1>1 DEF BeginCreate, ClientState, CreateRequest
  <2> QED
    BY <1>1, <2>1, BeginsTyped DEF BeginCreate, TypeOK
<1>2. ASSUME NEW c \in Clients, Insert(c)
      PROVE  TypeOK'
  <2>1. client[c] \in CreateRequest
    BY <1>2, RequestShape DEF Insert, Waits
  <2>2. [client[c] EXCEPT !.at = "answer"] \in ClientState
    BY <2>1 DEF ClientState, CreateRequest
  <2>3. client' \in [Clients -> ClientState]
    BY <1>2, <2>2, BeginsTyped DEF Insert
  <2> QED
    BY <1>2, <2>3 DEF Insert, TypeOK, BookingStatus
<1>3. ASSUME NEW c \in Clients, AnswerCreate(c)
      PROVE  TypeOK'
  <2>1. client[c] \in CreateRequest
    BY <1>3, RequestShape DEF AnswerCreate, Waits
  <2>2. client[c].id \in Bookings
    BY <2>1 DEF CreateRequest
  <2> QED
    BY <1>3, <2>2, BeginsTyped, RequestShape DEF AnswerCreate, TypeOK
<1>4. ASSUME NEW c \in Clients, BeginCancel(c)
      PROVE  TypeOK'
  <2>1. \A b \in Bookings :
          [op |-> "cancel", at |-> "update", id |-> b, code |-> 0] \in ClientState
    BY DEF ClientState, CancelRequest, Codes
  <2> QED
    BY <1>4, <2>1, BeginsTyped DEF BeginCancel, TypeOK
<1>5. ASSUME NEW c \in Clients, Cancel(c)
      PROVE  TypeOK'
  <2>1. client[c] \in CancelRequest
    BY <1>5, RequestShape DEF Cancel, Waits
  <2>2. ASSUME NEW code \in Codes,
               client' = [client EXCEPT ![c].at = "answer", ![c].code = code]
        PROVE  client' \in [Clients -> ClientState]
    <3>1. [client[c] EXCEPT !.at = "answer", !.code = code] \in CancelRequest
      BY <2>1 DEF CancelRequest
    <3>2. [client[c] EXCEPT !.at = "answer", !.code = code] \in ClientState
      BY <3>1 DEF ClientState
    <3> QED
      BY <2>2, <3>2, BeginsTyped
  <2>3. \E code \in Codes : client' = [client EXCEPT ![c].at = "answer", ![c].code = code]
    <3>1. /\ {204, 500} \subseteq Codes /\ 409 \in Codes /\ 500 \in Codes
      BY DEF Codes
    <3>2. \/ \E code \in {204, 500} :
               client' = [client EXCEPT ![c].at = "answer", ![c].code = code]
          \/ client' = [client EXCEPT ![c].at = "answer", ![c].code = 409]
          \/ client' = [client EXCEPT ![c].at = "answer", ![c].code = 500]
      BY <1>5, Zenon DEF Cancel
    <3> QED
      BY <3>1, <3>2, Zenon
  <2>4. client' \in [Clients -> ClientState]
    BY <2>2, <2>3
  <2> QED
    BY <1>5, <2>4 DEF Cancel, TypeOK, BookingStatus
<1>6. ASSUME NEW c \in Clients, AnswerCancel(c)
      PROVE  TypeOK'
  <2>1. client[c] \in CancelRequest
    BY <1>6, RequestShape DEF AnswerCancel, Waits
  <2>2. client[c].id \in Bookings
    BY <2>1 DEF CancelRequest
  <2> QED
    BY <1>6, <2>2, BeginsTyped, RequestShape DEF AnswerCancel, TypeOK
<1>7. ASSUME NEW c \in Clients, BeginLookup(c)
      PROVE  TypeOK'
  <2>1. \A b \in Bookings :
          [op |-> "lookup", at |-> "select", id |-> b, status |-> None,
           created |-> b \in created, cancelled |-> b \in cancelled] \in ClientState
    BY DEF ClientState, Lookup
  <2> QED
    BY <1>7, <2>1, BeginsTyped DEF BeginLookup, TypeOK
<1>8. ASSUME NEW c \in Clients, GetByID(c)
      PROVE  TypeOK'
  <2>1. client[c] \in Lookup
    BY <1>8, RequestShape DEF GetByID, Waits
  <2>2. [client[c] EXCEPT !.at = "answer", !.status = rows[client[c].id]] \in ClientState
    BY <2>1 DEF ClientState, Lookup, TypeOK
  <2> QED
    BY <1>8, <2>2, BeginsTyped DEF GetByID, TypeOK
<1>9. ASSUME NEW c \in Clients, BeginList(c)
      PROVE  TypeOK'
  <2>1. \A filter \in Filters :
          [op |-> "list", at |-> "count", filter |-> filter, page |-> 1, total |-> 0,
           items |-> 0, unseen |-> Matching(filter)] \in ClientState
    BY DEF ClientState, Listing, Matching
  <2> QED
    BY <1>9, <2>1, BeginsTyped DEF BeginList, TypeOK
<1>10. ASSUME NEW c \in Clients, CountByFilter(c)
       PROVE  TypeOK'
  <2>1. client[c] \in Listing
    BY <1>10, RequestShape DEF CountByFilter, Waits
  <2>2. [client[c] EXCEPT !.at = "page", !.total = Cardinality(Matching(client[c].filter))]
          \in ClientState
    BY <2>1, TablesAreFinite DEF ClientState, Listing
  <2> QED
    BY <1>10, <2>2, BeginsTyped DEF CountByFilter, TypeOK
<1>11. ASSUME NEW c \in Clients, GetByFilter(c)
       PROVE  TypeOK'
  <2> DEFINE items == PageOf(Matching(client[c].filter), Offset(client[c].page))
  <2>1. client[c] \in Listing
    BY <1>11, RequestShape DEF GetByFilter, Waits
  <2>2. Cardinality(items) \in Nat
    <3>1. items \subseteq Matching(client[c].filter)
      BY DEF PageOf
    <3> QED
      BY <3>1, TablesAreFinite, FS_Subset, FS_CardinalityType
  <2> HIDE DEF items
  <2>3. [client[c] EXCEPT !.at = "answer", !.items = Cardinality(items),
                          !.unseen = client[c].unseen \ items] \in ClientState
    BY <2>1, <2>2 DEF ClientState, Listing
  <2>4. client' = [client EXCEPT ![c] =
                     [client[c] EXCEPT !.at = "answer", !.items = Cardinality(items),
                                       !.unseen = client[c].unseen \ items]]
    BY <1>11 DEF GetByFilter, PageRead, TypeOK, items
  <2> QED
    BY <1>11, <2>3, <2>4, BeginsTyped DEF GetByFilter, TypeOK
<1>12. ASSUME NEW c \in Clients, NextPage(c)
       PROVE  TypeOK'
  <2>1. client[c] \in Listing
    BY <1>12, RequestShape DEF NextPage, Waits
  <2> DEFINE next_page == client[c].page + 1
             none_yet  == 0
  <2>2. next_page \in Nat \ {0} /\ none_yet \in Nat
    BY <2>1 DEF Listing
  <2> HIDE DEF next_page, none_yet
  <2>3. [client[c] EXCEPT !.at = "count", !.page = next_page,
                          !.total = none_yet, !.items = none_yet] \in ClientState
    BY <2>1, <2>2 DEF ClientState, Listing
  <2>4. client' = [client EXCEPT ![c] =
                     [client[c] EXCEPT !.at = "count", !.page = next_page,
                                       !.total = none_yet, !.items = none_yet]]
    BY <1>12 DEF NextPage, TypeOK, next_page, none_yet
  <2> QED
    BY <1>12, <2>3, <2>4, BeginsTyped DEF NextPage, TypeOK
<1>13. ASSUME NEW c \in Clients, BeginStatistics(c)
       PROVE  TypeOK'
  <2>1. [op |-> "statistics", at |-> "total", total |-> 0,
         breakdown |-> [s \in BookingStatus |-> 0], top |-> [r \in Resources |-> 0]]
          \in ClientState
    BY DEF ClientState, Report
  <2> QED
    BY <1>13, <2>1, BeginsTyped DEF BeginStatistics, TypeOK
<1>14. ASSUME NEW c \in Clients, CountTotal(c)
       PROVE  TypeOK'
  <2>1. client[c] \in Report
    BY <1>14, RequestShape DEF CountTotal, Waits
  <2>2. [client[c] EXCEPT !.at = "breakdown", !.total = Cardinality(Counted)] \in ClientState
    BY <2>1, TablesAreFinite DEF ClientState, Report
  <2> QED
    BY <1>14, <2>2, BeginsTyped DEF CountTotal, TypeOK
<1>15. ASSUME NEW c \in Clients, Breakdown(c)
       PROVE  TypeOK'
  <2> DEFINE breakdown == [s \in BookingStatus |->
          IF s \in Lines THEN Cardinality({b \in Counted : rows[b] = s}) ELSE 0]
  <2>1. client[c] \in Report
    BY <1>15, RequestShape DEF Breakdown, Waits
  <2>2. breakdown \in [BookingStatus -> Nat]
    BY TablesAreFinite, FS_Subset, FS_CardinalityType
  <2> HIDE DEF breakdown
  <2>3. [client[c] EXCEPT !.at = "top", !.breakdown = breakdown] \in ClientState
    BY <2>1, <2>2 DEF ClientState, Report
  <2>4. client' = [client EXCEPT ![c] =
                     [client[c] EXCEPT !.at = "top", !.breakdown = breakdown]]
    BY <1>15 DEF Breakdown, TypeOK, breakdown
  <2> QED
    BY <1>15, <2>3, <2>4, BeginsTyped DEF Breakdown, TypeOK
<1>16. ASSUME NEW c \in Clients, TopResources(c)
       PROVE  TypeOK'
  <2> DEFINE top == [r \in Resources |-> IF r \in Listed THEN BookingCount(r) ELSE 0]
  <2>1. client[c] \in Report
    BY <1>16, RequestShape DEF TopResources, Waits
  <2>2. top \in [Resources -> Nat]
    BY TablesAreFinite, FS_Subset, FS_CardinalityType DEF BookingCount
  <2> HIDE DEF top
  <2>3. [client[c] EXCEPT !.at = "answer", !.top = top] \in ClientState
    BY <2>1, <2>2 DEF ClientState, Report
  <2>4. client' = [client EXCEPT ![c] = [client[c] EXCEPT !.at = "answer", !.top = top]]
    BY <1>16 DEF TopResources, TypeOK, top
  <2> QED
    BY <1>16, <2>3, <2>4, BeginsTyped DEF TopResources, TypeOK
<1>17. ASSUME NEW c \in Clients,
              AnswerLookup(c) \/ AnswerList(c) \/ AnswerStatistics(c) \/ Fail(c)
       PROVE  TypeOK'
  <2>1. Returns(c) /\ UNCHANGED <<rows, next, created, cancelled>>
    BY <1>17 DEF AnswerLookup, AnswerList, AnswerStatistics, Fail
  <2> QED
    BY <2>1, BeginsTyped, RequestShape DEF TypeOK
<1>18. ASSUME NEW b \in Bookings, Elsewhere(b)
       PROVE  TypeOK'
  BY <1>18 DEF Elsewhere, TypeOK, BookingStatus
<1>19. CASE UNCHANGED vars
  BY <1>19 DEF vars, TypeOK
<1> QED
  BY <1>1, <1>2, <1>3, <1>4, <1>5, <1>6, <1>7, <1>8, <1>9, <1>10, <1>11, <1>12, <1>13,
     <1>14, <1>15, <1>16, <1>17, <1>18, <1>19 DEF Next

-----------------------------------------------------------------------------
(* What each step leaves in the request of the client that takes it.       *)

(* What the steps of a create do to the request.                           *)
LEMMA CreateSteps ==
  ASSUME TypeOK, NEW c \in Clients
  PROVE  Insert(c) => /\ client'[c].op = "create"
                      /\ client'[c].at = "answer"
                      /\ client'[c].id = client[c].id
<1> SUFFICES ASSUME Insert(c) PROVE /\ client'[c].op = "create"
                                    /\ client'[c].at = "answer"
                                    /\ client'[c].id = client[c].id
  OBVIOUS
<1>1. client[c] \in CreateRequest
  BY RequestShape DEF Insert, Waits
<1> QED
  BY <1>1 DEF Insert, TypeOK, CreateRequest

(* What the transaction of a cancellation does to the request.             *)
LEMMA CancelSteps ==
  ASSUME TypeOK, NEW c \in Clients
  PROVE  Cancel(c) => /\ client'[c].op = "cancel"
                      /\ client'[c].id = client[c].id
                      /\ \/ client'[c].code # 204
                         \/ rows' = [rows EXCEPT ![client[c].id] = Cancelled]
<1> SUFFICES ASSUME Cancel(c) PROVE /\ client'[c].op = "cancel"
                                    /\ client'[c].id = client[c].id
                                    /\ \/ client'[c].code # 204
                                       \/ rows' = [rows EXCEPT ![client[c].id] = Cancelled]
  OBVIOUS
<1>1. client[c] \in CancelRequest
  BY RequestShape DEF Cancel, Waits
<1>2. ASSUME NEW code, client' = [client EXCEPT ![c].at = "answer", ![c].code = code]
      PROVE  /\ client'[c].op = "cancel"
             /\ client'[c].id = client[c].id
             /\ client'[c].code = code
  BY <1>1, <1>2 DEF TypeOK, CancelRequest
<1>3. CASE rows' = [rows EXCEPT ![client[c].id] = Cancelled]
  <2>1. \E code : client' = [client EXCEPT ![c].at = "answer", ![c].code = code]
    BY Zenon DEF Cancel
  <2> QED
    BY <1>2, <1>3, <2>1
<1>4. CASE \/ client' = [client EXCEPT ![c].at = "answer", ![c].code = 409]
           \/ client' = [client EXCEPT ![c].at = "answer", ![c].code = 500]
  <2> DEFINE conflict == 409
             failure  == 500
  <2>1. conflict # 204 /\ failure # 204
    OBVIOUS
  <2>2. \/ client' = [client EXCEPT ![c].at = "answer", ![c].code = conflict]
        \/ client' = [client EXCEPT ![c].at = "answer", ![c].code = failure]
    BY <1>4, Zenon
  <2> HIDE DEF conflict, failure
  <2> QED
    BY <1>2, <2>1, <2>2
<1> QED
  BY <1>3, <1>4, Zenon DEF Cancel

(* What the read of a lookup does to the request.                          *)
LEMMA LookupSteps ==
  ASSUME TypeOK, NEW c \in Clients
  PROVE  GetByID(c) => /\ client'[c].op = "lookup"
                       /\ client'[c].id = client[c].id
                       /\ client'[c].created = client[c].created
                       /\ client'[c].cancelled = client[c].cancelled
                       /\ client'[c].status = rows[client[c].id]
<1> SUFFICES ASSUME GetByID(c) PROVE /\ client'[c].op = "lookup"
                                     /\ client'[c].id = client[c].id
                                     /\ client'[c].created = client[c].created
                                     /\ client'[c].cancelled = client[c].cancelled
                                     /\ client'[c].status = rows[client[c].id]
  OBVIOUS
<1>1. client[c] \in Lookup
  BY RequestShape DEF GetByID, Waits
<1> QED
  BY <1>1 DEF GetByID, TypeOK, Lookup

(* What the steps of a walk do to the request.                             *)
LEMMA ListSteps ==
  ASSUME TypeOK, NEW c \in Clients
  PROVE  /\ CountByFilter(c) =>
              /\ client'[c].op = "list" /\ client'[c].at = "page"
              /\ client'[c].filter = client[c].filter
              /\ client'[c].page = client[c].page
              /\ client'[c].unseen = client[c].unseen
              /\ client'[c].total = Cardinality(Matching(client[c].filter))
         /\ GetByFilter(c) =>
              LET items == PageOf(Matching(client[c].filter), Offset(client[c].page)) IN
              /\ client'[c].op = "list" /\ client'[c].at = "answer"
              /\ client'[c].filter = client[c].filter
              /\ client'[c].page = client[c].page
              /\ client'[c].total = client[c].total
              /\ client'[c].items = Cardinality(items)
              /\ client'[c].unseen = client[c].unseen \ items
         /\ NextPage(c) =>
              /\ client'[c].op = "list" /\ client'[c].at = "count"
              /\ client'[c].filter = client[c].filter
              /\ client'[c].page = client[c].page + 1
              /\ client'[c].unseen = client[c].unseen
<1>1. CountByFilter(c) \/ GetByFilter(c) \/ NextPage(c) => client[c] \in Listing
  BY RequestShape DEF CountByFilter, GetByFilter, NextPage, Waits
<1>2. ASSUME CountByFilter(c)
      PROVE  /\ client'[c].op = "list" /\ client'[c].at = "page"
             /\ client'[c].filter = client[c].filter
             /\ client'[c].page = client[c].page
             /\ client'[c].unseen = client[c].unseen
             /\ client'[c].total = Cardinality(Matching(client[c].filter))
  BY <1>1, <1>2 DEF CountByFilter, TypeOK, Listing
<1> DEFINE items == PageOf(Matching(client[c].filter), Offset(client[c].page))
<1>3. ASSUME GetByFilter(c)
      PROVE  /\ client'[c].op = "list" /\ client'[c].at = "answer"
             /\ client'[c].filter = client[c].filter
             /\ client'[c].page = client[c].page
             /\ client'[c].total = client[c].total
             /\ client'[c].items = Cardinality(items)
             /\ client'[c].unseen = client[c].unseen \ items
  BY <1>1, <1>3 DEF GetByFilter, PageRead, TypeOK, Listing
<1>4. ASSUME NextPage(c)
      PROVE  /\ client'[c].op = "list" /\ client'[c].at = "count"
             /\ client'[c].filter = client[c].filter
             /\ client'[c].page = client[c].page + 1
             /\ client'[c].unseen = client[c].unseen
  <2> DEFINE next_page == client[c].page + 1
             none_yet  == 0
  <2>1. client' = [client EXCEPT ![c].at = "count", ![c].page = next_page,
                                 ![c].total = none_yet, ![c].items = none_yet]
    BY <1>4 DEF NextPage
  <2> HIDE DEF next_page, none_yet
  <2>2. /\ client'[c].op = "list" /\ client'[c].at = "count"
        /\ client'[c].filter = client[c].filter
        /\ client'[c].page = next_page
        /\ client'[c].unseen = client[c].unseen
    BY <1>1, <1>4, <2>1 DEF TypeOK, Listing
  <2> QED
    BY <2>2 DEF next_page
<1> QED
  BY <1>2, <1>3, <1>4

(* What the three queries of the statistics do to the request.             *)
LEMMA ReportSteps ==
  ASSUME TypeOK, NEW c \in Clients
  PROVE  /\ CountTotal(c) =>
              /\ client'[c].op = "statistics" /\ client'[c].at = "breakdown"
              /\ client'[c].total = Cardinality(Counted)
         /\ Breakdown(c) =>
              /\ client'[c].op = "statistics" /\ client'[c].at = "top"
              /\ client'[c].total = client[c].total
              /\ client'[c].breakdown = [s \in BookingStatus |->
                   IF s \in Lines THEN Cardinality({b \in Counted : rows[b] = s}) ELSE 0]
         /\ TopResources(c) =>
              /\ client'[c].op = "statistics" /\ client'[c].at = "answer"
              /\ client'[c].total = client[c].total
              /\ client'[c].breakdown = client[c].breakdown
              /\ client'[c].top = [r \in Resources |->
                   IF r \in Listed THEN BookingCount(r) ELSE 0]
<1>1. CountTotal(c) \/ Breakdown(c) \/ TopResources(c) => client[c] \in Report
  BY RequestShape DEF CountTotal, Breakdown, TopResources, Waits
<1>2. ASSUME CountTotal(c)
      PROVE  /\ client'[c].op = "statistics" /\ client'[c].at = "breakdown"
             /\ client'[c].total = Cardinality(Counted)
  BY <1>1, <1>2 DEF CountTotal, TypeOK, Report
<1> DEFINE breakdown == [s \in BookingStatus |->
             IF s \in Lines THEN Cardinality({b \in Counted : rows[b] = s}) ELSE 0]
<1>3. ASSUME Breakdown(c)
      PROVE  /\ client'[c].op = "statistics" /\ client'[c].at = "top"
             /\ client'[c].total = client[c].total
             /\ client'[c].breakdown = breakdown
  <2>1. client' = [client EXCEPT ![c].at = "top", ![c].breakdown = breakdown]
    BY <1>3 DEF Breakdown
  <2> HIDE DEF breakdown
  <2> QED
    BY <1>1, <1>3, <2>1 DEF TypeOK, Report
<1> DEFINE top == [r \in Resources |-> IF r \in Listed THEN BookingCount(r) ELSE 0]
<1>4. ASSUME TopResources(c)
      PROVE  /\ client'[c].op = "statistics" /\ client'[c].at = "answer"
             /\ client'[c].total = client[c].total
             /\ client'[c].breakdown = client[c].breakdown
             /\ client'[c].top = top
  <2>1. client' = [client EXCEPT ![c].at = "answer", ![c].top = top]
    BY <1>4 DEF TopResources
  <2> HIDE DEF top
  <2> QED
    BY <1>1, <1>4, <2>1 DEF TypeOK, Report
<1> QED
  BY <1>2, <1>3, <1>4

(* The steps of one client.                                                *)
Acts(c) ==
  \/ BeginCreate(c) \/ Insert(c) \/ AnswerCreate(c)
  \/ BeginCancel(c) \/ Cancel(c) \/ AnswerCancel(c)
  \/ BeginLookup(c) \/ GetByID(c) \/ AnswerLookup(c)
  \/ BeginList(c) \/ CountByFilter(c) \/ GetByFilter(c) \/ NextPage(c) \/ AnswerList(c)
  \/ BeginStatistics(c) \/ CountTotal(c) \/ Breakdown(c) \/ TopResources(c)
  \/ AnswerStatistics(c) \/ Fail(c)

(* A step of one client leaves the requests of the others alone.           *)
LEMMA OneClientActs ==
  ASSUME TypeOK, NEW c \in Clients, Acts(c)
  PROVE  \A d \in Clients \ {c} : client'[d] = client[d]
<1>1. CASE \/ BeginCreate(c) \/ BeginCancel(c) \/ BeginLookup(c) \/ BeginList(c)
           \/ BeginStatistics(c)
  BY <1>1 DEF BeginCreate, BeginCancel, BeginLookup, BeginList, BeginStatistics, Begins,
              TypeOK
<1>2. CASE \/ AnswerCreate(c) \/ AnswerCancel(c) \/ AnswerLookup(c) \/ AnswerList(c)
           \/ AnswerStatistics(c) \/ Fail(c)
  BY <1>2 DEF AnswerCreate, AnswerCancel, AnswerLookup, AnswerList, AnswerStatistics, Fail,
              Returns, TypeOK
<1>3. CASE Insert(c) \/ GetByID(c)
  BY <1>3 DEF Insert, GetByID, TypeOK
<1>4. CASE CountByFilter(c) \/ GetByFilter(c) \/ NextPage(c)
  BY <1>4 DEF CountByFilter, GetByFilter, PageRead, NextPage, TypeOK
<1>5. CASE CountTotal(c) \/ Breakdown(c) \/ TopResources(c)
  BY <1>5 DEF CountTotal, Breakdown, TopResources, TypeOK
<1>6. CASE Cancel(c)
  <2>1. \E code : client' = [client EXCEPT ![c].at = "answer", ![c].code = code]
    BY <1>6, Zenon DEF Cancel
  <2> QED
    BY <2>1 DEF TypeOK
<1> QED
  BY <1>1, <1>2, <1>3, <1>4, <1>5, <1>6 DEF Acts

(* The requests that begin with a step, and those that end with one.       *)
LEMMA Beginnings ==
  ASSUME TypeOK, NEW c \in Clients
  PROVE  /\ BeginCreate(c) => client'[c] = [op |-> "create", at |-> "insert", id |-> next]
         /\ BeginCancel(c) => client'[c].op = "cancel" /\ client'[c].at = "update"
         /\ BeginLookup(c) => \E b \in Bookings :
              client'[c] = [op |-> "lookup", at |-> "select", id |-> b, status |-> None,
                            created |-> b \in created, cancelled |-> b \in cancelled]
         /\ BeginList(c) => \E filter \in Filters :
              client'[c] = [op |-> "list", at |-> "count", filter |-> filter, page |-> 1,
                            total |-> 0, items |-> 0, unseen |-> Matching(filter)]
         /\ BeginStatistics(c) => client'[c].op = "statistics" /\ client'[c].at = "total"
         /\ (\/ AnswerCreate(c) \/ AnswerCancel(c) \/ AnswerLookup(c) \/ AnswerList(c)
             \/ AnswerStatistics(c) \/ Fail(c))
              => client'[c] = Idle
<1>1. BeginCreate(c) => client'[c] = [op |-> "create", at |-> "insert", id |-> next]
  BY DEF BeginCreate, Begins, TypeOK
<1>2. BeginCancel(c) => client'[c].op = "cancel" /\ client'[c].at = "update"
  BY DEF BeginCancel, Begins, TypeOK
<1>3. BeginLookup(c) => \E b \in Bookings :
        client'[c] = [op |-> "lookup", at |-> "select", id |-> b, status |-> None,
                      created |-> b \in created, cancelled |-> b \in cancelled]
  BY DEF BeginLookup, Begins, TypeOK
<1>4. BeginList(c) => \E filter \in Filters :
        client'[c] = [op |-> "list", at |-> "count", filter |-> filter, page |-> 1,
                      total |-> 0, items |-> 0, unseen |-> Matching(filter)]
  BY DEF BeginList, Begins, TypeOK
<1>5. BeginStatistics(c) => client'[c].op = "statistics" /\ client'[c].at = "total"
  BY DEF BeginStatistics, Begins, TypeOK
<1>6. (\/ AnswerCreate(c) \/ AnswerCancel(c) \/ AnswerLookup(c) \/ AnswerList(c)
       \/ AnswerStatistics(c) \/ Fail(c))
        => client'[c] = Idle
  BY DEF AnswerCreate, AnswerCancel, AnswerLookup, AnswerList, AnswerStatistics, Fail,
         Returns, TypeOK
<1> QED
  BY <1>1, <1>2, <1>3, <1>4, <1>5, <1>6

(* The row of a booking never goes away, and never leaves cancelled.       *)
LEMMA RowsOnlyGrow ==
  ASSUME TypeOK, IdsAreDrawn, [Next]_vars, NEW b \in Bookings
  PROVE  /\ rows[b] # Absent => rows'[b] # Absent
         /\ rows[b] = Cancelled => rows'[b] = Cancelled
<1> USE DEF AwaitsConfirmation, Confirmed, Cancelled, CancellationPending, Absent
<1>1. ASSUME NEW c \in Clients, Insert(c)
      PROVE  /\ rows[b] # Absent => rows'[b] # Absent
             /\ rows[b] = Cancelled => rows'[b] = Cancelled
  BY <1>1 DEF Insert, IdsAreDrawn, TypeOK
<1>2. ASSUME NEW c \in Clients, Cancel(c)
      PROVE  /\ rows[b] # Absent => rows'[b] # Absent
             /\ rows[b] = Cancelled => rows'[b] = Cancelled
  <2>1. UNCHANGED rows \/ rows' = [rows EXCEPT ![client[c].id] = Cancelled]
    BY <1>2, Zenon DEF Cancel
  <2> QED
    BY <2>1 DEF TypeOK
<1>3. ASSUME NEW a \in Bookings, Elsewhere(a)
      PROVE  /\ rows[b] # Absent => rows'[b] # Absent
             /\ rows[b] = Cancelled => rows'[b] = Cancelled
  BY <1>3 DEF Elsewhere, ConfirmAllowed, CancelAllowed, StartCancellationAllowed, TypeOK
<1>4. CASE UNCHANGED rows
  BY <1>4
<1> QED
  BY <1>1, <1>2, <1>3, <1>4
  DEF Next, BeginCreate, AnswerCreate, BeginCancel, AnswerCancel, BeginLookup, GetByID,
      AnswerLookup, BeginList, CountByFilter, GetByFilter, NextPage, AnswerList,
      BeginStatistics, CountTotal, Breakdown, TopResources, AnswerStatistics, Fail, vars

(* Steps that neither draw an id nor insert a row.                         *)
LEMMA OthersDrawNothing ==
  ASSUME TypeOK, IdsAreDrawn,
         UNCHANGED next,
         \A b \in Bookings : rows'[b] # Absent <=> rows[b] # Absent,
         \A c \in Clients : client'[c] = client[c] \/ client'[c].op # "create"
  PROVE  IdsAreDrawn'
<1>1. RowsAreDrawn'
  BY DEF IdsAreDrawn, RowsAreDrawn
<1>2. \A c \in Clients : client'[c].op = "create" =>
        client[c] = client'[c] /\ client[c].id \in Bookings
  BY RequestShape DEF CreateRequest
<1> QED
  BY <1>1, <1>2 DEF IdsAreDrawn, Waits

(* No step breaks what is known of the ids.                                *)
LEMMA DrawnStep ==
  ASSUME TypeOK, IdsAreDrawn, [Next]_vars
  PROVE  IdsAreDrawn'
<1>1. ASSUME NEW c \in Clients, BeginCreate(c)
      PROVE  IdsAreDrawn'
  <2>1. /\ next \in Nat /\ next \in Bookings /\ next' = next + 1 /\ rows' = rows
        /\ client'[c] = [op |-> "create", at |-> "insert", id |-> next]
        /\ \A d \in Clients \ {c} : client'[d] = client[d]
    BY <1>1, Beginnings, OneClientActs DEF BeginCreate, TypeOK, Acts
  <2>2. \A d \in Clients : client[d].op = "create" => client[d].id \in Nat
    BY RequestShape, ApiAssumption DEF CreateRequest
  <2>3. \A b \in Bookings : b \in Nat
    BY ApiAssumption
  <2>4. RowsAreDrawn'
    BY <2>1, <2>3 DEF IdsAreDrawn, RowsAreDrawn
  <2>5. \A d \in Clients : client'[d].op = "create" => client'[d].id < next'
    BY <2>1, <2>2 DEF IdsAreDrawn
  <2>6. rows[next] = Absent
    BY <2>1 DEF IdsAreDrawn, RowsAreDrawn
  <2>7. \A d \in Clients : client'[d].op = "create" /\ client'[d].at = "insert"
                             => rows'[client'[d].id] = Absent
    BY <2>1, <2>6 DEF IdsAreDrawn, Waits
  <2>8. ASSUME NEW d \in Clients, NEW e \in Clients,
               client'[d].op = "create", client'[d].at = "insert",
               client'[e].op = "create", client'[e].at = "insert",
               client'[d].id = client'[e].id
        PROVE  d = e
    <3>1. \A f \in Clients \ {c} : client[f].op = "create" => client[f].id # next
      BY <2>1, <2>2 DEF IdsAreDrawn
    <3> QED
      BY <2>1, <2>8, <3>1 DEF IdsAreDrawn, Waits
  <2> QED
    BY <2>4, <2>5, <2>7, <2>8 DEF IdsAreDrawn, Waits
<1>2. ASSUME NEW c \in Clients, Insert(c)
      PROVE  IdsAreDrawn'
  <2>1. /\ client'[c].op = "create" /\ client'[c].at = "answer"
        /\ client'[c].id = client[c].id
        /\ \A d \in Clients \ {c} : client'[d] = client[d]
        /\ Waits(c, "create", "insert")
        /\ rows' = [rows EXCEPT ![client[c].id] = AwaitsConfirmation]
        /\ next' = next
    BY <1>2, CreateSteps, OneClientActs DEF Insert, Acts
  <2>2. \A d \in Clients : client[d].op = "create" => client[d].id \in Bookings
    BY RequestShape DEF CreateRequest
  <2>3. RowsAreDrawn'
    BY <2>1, <2>2 DEF IdsAreDrawn, RowsAreDrawn, Waits, TypeOK
  <2>4. \A d \in Clients : client'[d].op = "create" => client'[d].id < next'
    BY <2>1 DEF IdsAreDrawn, Waits
  <2>5. \A d \in Clients : client'[d].op = "create" /\ client'[d].at = "insert"
                             => rows'[client'[d].id] = Absent
    BY <2>1, <2>2 DEF IdsAreDrawn, Waits, TypeOK
  <2>6. \A d, e \in Clients :
          /\ client'[d].op = "create" /\ client'[d].at = "insert"
          /\ client'[e].op = "create" /\ client'[e].at = "insert"
          /\ client'[d].id = client'[e].id
          => d = e
    BY <2>1 DEF IdsAreDrawn, Waits
  <2> QED
    BY <2>3, <2>4, <2>5, <2>6 DEF IdsAreDrawn, Waits
<1>3. ASSUME NEW c \in Clients, Cancel(c)
      PROVE  IdsAreDrawn'
  <2>1. next' = next
    BY <1>3 DEF Cancel
  <2>2. \A d \in Clients : client'[d] = client[d] \/ client'[d].op # "create"
    BY <1>3, CancelSteps, OneClientActs DEF Acts
  <2>3. \A b \in Bookings : rows'[b] # Absent <=> rows[b] # Absent
    <3>1. client[c].id \in Bookings
      BY <1>3, RequestShape DEF Cancel, Waits, CancelRequest
    <3>2. \/ UNCHANGED rows
          \/ /\ CancelAllowed(rows[client[c].id], TRUE)
             /\ rows' = [rows EXCEPT ![client[c].id] = Cancelled]
      BY <1>3, Zenon DEF Cancel
    <3> QED
      BY <3>1, <3>2
      DEF CancelAllowed, AwaitsConfirmation, Confirmed, Cancelled, Absent, TypeOK
  <2> QED
    BY <2>1, <2>2, <2>3, OthersDrawNothing
<1>4. ASSUME NEW c \in Clients, Acts(c),
             ~ BeginCreate(c), ~ Insert(c), ~ Cancel(c)
      PROVE  IdsAreDrawn'
  <2>1. UNCHANGED <<rows, next>>
    BY <1>4
    DEF Acts, AnswerCreate, BeginCancel, AnswerCancel, BeginLookup, GetByID, AnswerLookup,
        BeginList, CountByFilter, GetByFilter, NextPage, AnswerList, BeginStatistics,
        CountTotal, Breakdown, TopResources, AnswerStatistics, Fail
  <2>2. client'[c].op # "create"
    <3>1. BeginCancel(c) \/ BeginStatistics(c) => client'[c].op # "create"
      BY Beginnings
    <3>2. ASSUME BeginLookup(c) PROVE client'[c].op # "create"
      <4>1. PICK b \in Bookings :
              client'[c] = [op |-> "lookup", at |-> "select", id |-> b, status |-> None,
                            created |-> b \in created, cancelled |-> b \in cancelled]
        BY <3>2, Beginnings
      <4> QED
        BY <4>1
    <3>3. ASSUME BeginList(c) PROVE client'[c].op # "create"
      <4>1. PICK filter \in Filters :
              client'[c] = [op |-> "list", at |-> "count", filter |-> filter, page |-> 1,
                            total |-> 0, items |-> 0, unseen |-> Matching(filter)]
        BY <3>3, Beginnings
      <4> QED
        BY <4>1
    <3>4. (\/ AnswerCreate(c) \/ AnswerCancel(c) \/ AnswerLookup(c) \/ AnswerList(c)
           \/ AnswerStatistics(c) \/ Fail(c))
            => client'[c].op # "create"
      BY Beginnings DEF Idle
    <3>5. GetByID(c) => client'[c].op # "create"
      BY LookupSteps
    <3>6. CountByFilter(c) \/ GetByFilter(c) \/ NextPage(c) => client'[c].op # "create"
      BY ListSteps
    <3>7. CountTotal(c) \/ Breakdown(c) \/ TopResources(c) => client'[c].op # "create"
      BY ReportSteps
    <3> QED
      BY <1>4, <3>1, <3>2, <3>3, <3>4, <3>5, <3>6, <3>7 DEF Acts
  <2>3. \A d \in Clients : client'[d] = client[d] \/ client'[d].op # "create"
    BY <1>4, <2>2, OneClientActs
  <2> QED
    BY <2>1, <2>3, OthersDrawNothing
<1>5. ASSUME NEW b \in Bookings, Elsewhere(b)
      PROVE  IdsAreDrawn'
  <2>1. \A a \in Bookings : rows'[a] # Absent <=> rows[a] # Absent
    BY <1>5 DEF Elsewhere, ConfirmAllowed, CancelAllowed, StartCancellationAllowed,
                AwaitsConfirmation, Confirmed, Cancelled, CancellationPending, Absent, TypeOK
  <2> QED
    BY <1>5, <2>1, OthersDrawNothing DEF Elsewhere
<1>6. CASE UNCHANGED vars
  BY <1>6, OthersDrawNothing DEF vars
<1> QED
  BY <1>1, <1>2, <1>3, <1>4, <1>5, <1>6 DEF Next, Acts

(* Types and ids together are an inductive invariant.                      *)
LEMMA TypeInvariant == Spec => [](TypeOK /\ IdsAreDrawn)
<1>1. Init => TypeOK /\ IdsAreDrawn
  BY DEF Init, TypeOK, ClientState, IdsAreDrawn, RowsAreDrawn, Waits, Idle
<1>2. TypeOK /\ IdsAreDrawn /\ [Next]_vars => (TypeOK /\ IdsAreDrawn)'
  BY TypeStep, DrawnStep DEF IdsAreDrawn
<1> QED
  BY <1>1, <1>2, PTL DEF Spec

(* Every reachable state is well typed.                                    *)
THEOREM TypeCorrect == Spec => []TypeOK
BY TypeInvariant, PTL

-----------------------------------------------------------------------------
(* What clients have been told, are about to be told or remember having    *)
(* been told of a booking is true of its row.                              *)
HistoryIsTrue ==
  /\ \A b \in created : rows[b] # Absent
  /\ \A b \in cancelled : rows[b] = Cancelled

AnswerIsTrue(c) ==
  /\ Waits(c, "create", "answer") => rows[client[c].id] # Absent
  /\ Waits(c, "cancel", "answer") /\ client[c].code = 204 => rows[client[c].id] = Cancelled
  /\ client[c].op = "lookup" =>
       /\ client[c].created => rows[client[c].id] # Absent
       /\ client[c].cancelled => rows[client[c].id] = Cancelled
       /\ client[c].at = "answer" =>
            /\ client[c].created => client[c].status # Absent
            /\ client[c].cancelled => client[c].status = Cancelled

AnswersAreTrue == HistoryIsTrue /\ \A c \in Clients : AnswerIsTrue(c)

(* What is true of a row stays true.                                       *)
LEMMA TruthStays ==
  ASSUME TypeOK, IdsAreDrawn, [Next]_vars, AnswersAreTrue, NEW c \in Clients,
         client'[c] = client[c]
  PROVE  AnswerIsTrue(c)'
<1>1. client[c].op \in {"create", "cancel", "lookup"} => client[c].id \in Bookings
  BY RequestShape DEF CreateRequest, CancelRequest, Lookup
<1>2. client[c].op \in {"create", "cancel", "lookup"} =>
        /\ rows[client[c].id] # Absent => rows'[client[c].id] # Absent
        /\ rows[client[c].id] = Cancelled => rows'[client[c].id] = Cancelled
  BY <1>1, RowsOnlyGrow
<1> QED
  BY <1>2 DEF AnswersAreTrue, AnswerIsTrue, Waits

(* What clients were told and the table agree after every step.            *)
LEMMA HistoryStep ==
  ASSUME TypeOK, IdsAreDrawn, [Next]_vars, AnswersAreTrue
  PROVE  HistoryIsTrue'
<1>1. \A b \in created : rows'[b] # Absent
  BY RowsOnlyGrow DEF AnswersAreTrue, HistoryIsTrue, TypeOK
<1>2. \A b \in cancelled : rows'[b] = Cancelled
  BY RowsOnlyGrow DEF AnswersAreTrue, HistoryIsTrue, TypeOK
<1>3. ASSUME NEW c \in Clients, AnswerCreate(c)
      PROVE  HistoryIsTrue'
  BY <1>1, <1>2, <1>3 DEF AnswerCreate, AnswersAreTrue, AnswerIsTrue, HistoryIsTrue
<1>4. ASSUME NEW c \in Clients, AnswerCancel(c)
      PROVE  HistoryIsTrue'
  BY <1>1, <1>2, <1>4 DEF AnswerCancel, AnswersAreTrue, AnswerIsTrue, HistoryIsTrue
<1>5. CASE UNCHANGED <<created, cancelled>>
  BY <1>1, <1>2, <1>5 DEF HistoryIsTrue
<1> QED
  BY <1>3, <1>4, <1>5
  DEF Next, BeginCreate, Insert, BeginCancel, Cancel, BeginLookup, GetByID, AnswerLookup,
      BeginList, CountByFilter, GetByFilter, NextPage, AnswerList, BeginStatistics,
      CountTotal, Breakdown, TopResources, AnswerStatistics, Fail, Elsewhere, vars

(* A booking that a client was given an id for is found by every later     *)
(* lookup, and one that a client was told is cancelled is cancelled.       *)
THEOREM AnswersAreKept == Spec => []AnswersHold
<1>1. Init => AnswersAreTrue
  BY DEF Init, AnswersAreTrue, HistoryIsTrue, AnswerIsTrue, Waits, Idle
<1>2. TypeOK /\ IdsAreDrawn /\ AnswersAreTrue /\ [Next]_vars => AnswersAreTrue'
  <2> SUFFICES ASSUME TypeOK, IdsAreDrawn, AnswersAreTrue, [Next]_vars,
                      NEW d \in Clients
               PROVE  AnswerIsTrue(d)'
    BY HistoryStep DEF AnswersAreTrue
  <2>1. ASSUME NEW c \in Clients, Acts(c)
        PROVE  AnswerIsTrue(d)'
    <3>1. CASE d # c
      BY <2>1, <3>1, OneClientActs, TruthStays
    <3>2. CASE d = c /\ Insert(c)
      <4>1. client[c] \in CreateRequest
        BY <3>2, RequestShape DEF Insert, Waits
      <4>2. rows'[client[c].id] # Absent
        BY <3>2, <4>1 DEF Insert, CreateRequest, TypeOK, AwaitsConfirmation, Absent
      <4> QED
        BY <3>2, <4>2, CreateSteps DEF AnswerIsTrue, Waits
    <3>3. CASE d = c /\ Cancel(c)
      <4>1. client[c] \in CancelRequest
        BY <3>3, RequestShape DEF Cancel, Waits
      <4>2. /\ client'[c].op = "cancel"
            /\ client'[c].id = client[c].id
            /\ client'[c].code = 204 => rows' = [rows EXCEPT ![client[c].id] = Cancelled]
        BY <3>3, CancelSteps
      <4>3. client'[c].code = 204 => rows'[client'[c].id] = Cancelled
        BY <4>1, <4>2 DEF CancelRequest, TypeOK
      <4> QED
        BY <3>3, <4>2, <4>3 DEF AnswerIsTrue, Waits
    <3>4. CASE d = c /\ BeginLookup(c)
      <4>1. PICK b \in Bookings :
              client'[c] = [op |-> "lookup", at |-> "select", id |-> b, status |-> None,
                            created |-> b \in created, cancelled |-> b \in cancelled]
        BY <3>4, Beginnings
      <4>2. rows' = rows
        BY <3>4 DEF BeginLookup
      <4>3. client'[c].op = "lookup" /\ client'[c].at = "select" /\ client'[c].id = b
        BY <4>1
      <4>4. client'[c].created = (b \in created)
        BY <4>1
      <4>5. client'[c].cancelled = (b \in cancelled)
        BY <4>1
      <4> QED
        BY <3>4, <4>2, <4>3, <4>4, <4>5 DEF AnswersAreTrue, HistoryIsTrue, AnswerIsTrue, Waits
    <3>5. CASE d = c /\ GetByID(c)
      <4>1. client[c].op = "lookup" /\ rows' = rows
        BY <3>5 DEF GetByID, Waits
      <4> QED
        BY <3>5, <4>1, LookupSteps DEF AnswersAreTrue, AnswerIsTrue, Waits
    <3>6. CASE d = c /\ client'[c].op \notin {"create", "cancel", "lookup"}
      BY <3>6 DEF AnswerIsTrue, Waits
    <3>7. CASE d = c /\ client'[c].at \in {"insert", "update"} /\ client'[c].op # "lookup"
      BY <3>7 DEF AnswerIsTrue, Waits
    <3>8. BeginCreate(c) => client'[c].at = "insert" /\ client'[c].op # "lookup"
      BY Beginnings
    <3>9. BeginCancel(c) => client'[c].at = "update" /\ client'[c].op # "lookup"
      BY Beginnings
    <3>10. BeginList(c) => client'[c].op = "list"
      <4> SUFFICES ASSUME BeginList(c) PROVE client'[c].op = "list"
        OBVIOUS
      <4>1. PICK filter \in Filters :
              client'[c] = [op |-> "list", at |-> "count", filter |-> filter, page |-> 1,
                            total |-> 0, items |-> 0, unseen |-> Matching(filter)]
        BY Beginnings
      <4> QED
        BY <4>1
    <3>11. CountByFilter(c) \/ GetByFilter(c) \/ NextPage(c) => client'[c].op = "list"
      BY ListSteps
    <3>12. CountTotal(c) \/ Breakdown(c) \/ TopResources(c) \/ BeginStatistics(c)
             => client'[c].op = "statistics"
      BY ReportSteps, Beginnings
    <3>13. AnswerCreate(c) \/ AnswerCancel(c) \/ AnswerLookup(c) \/ AnswerList(c)
             \/ AnswerStatistics(c) \/ Fail(c) => client'[c].op = "none"
      BY Beginnings DEF Idle
    <3> QED
      BY <2>1, <3>1, <3>2, <3>3, <3>4, <3>5, <3>6, <3>7, <3>8, <3>9, <3>10, <3>11, <3>12,
         <3>13 DEF Acts
  <2>2. CASE UNCHANGED client
    BY <2>2, TruthStays
  <2> QED
    BY <2>1, <2>2 DEF Next, Acts, Elsewhere, vars
<1>3. AnswersAreTrue => AnswersHold
  BY DEF AnswersAreTrue, AnswerIsTrue, AnswersHold, Waits
<1> QED
  BY <1>1, <1>2, <1>3, TypeInvariant, PTL DEF Spec

-----------------------------------------------------------------------------
(* How many elements of a list come before b when it is sorted by id,      *)
(* latest first.                                                           *)
Rank(S, b) == Cardinality({a \in S : a > b})

(* Fewer elements come before b in a smaller list.                         *)
LEMMA RankGrows ==
  ASSUME NEW S, NEW T, IsFiniteSet(T), S \subseteq T, NEW b
  PROVE  /\ Rank(S, b) \in Nat
         /\ Rank(T, b) \in Nat
         /\ Rank(S, b) <= Rank(T, b)
<1>1. {a \in T : a > b} \subseteq T /\ {a \in S : a > b} \subseteq {a \in T : a > b}
  OBVIOUS
<1>2. IsFiniteSet({a \in T : a > b})
  BY <1>1, FS_Subset
<1> QED
  BY <1>1, <1>2, FS_Subset, FS_CardinalityType DEF Rank

(* Sorting numbers the elements from 0, without a gap and without a tie.   *)
LEMMA RanksAreAll ==
  ASSUME NEW S, IsFiniteSet(S), S \subseteq Nat
  PROVE  [b \in S |-> Rank(S, b)] \in Bijection(S, 0 .. Cardinality(S) - 1)
<1> DEFINE n == Cardinality(S)
           rank == [b \in S |-> Rank(S, b)]
           above(b) == {a \in S : a > b}
<1>1. n \in Nat
  BY FS_CardinalityType
<1>2. \A b \in S : IsFiniteSet(above(b)) /\ Rank(S, b) = Cardinality(above(b))
                   /\ Rank(S, b) \in Nat
  <2> SUFFICES ASSUME NEW b \in S PROVE IsFiniteSet(above(b))
                                        /\ Rank(S, b) = Cardinality(above(b))
                                        /\ Rank(S, b) \in Nat
    OBVIOUS
  <2>1. above(b) \subseteq S
    OBVIOUS
  <2> QED
    BY <2>1, FS_Subset, FS_CardinalityType DEF Rank
<1>3. ASSUME NEW b \in S PROVE Rank(S, b) \in 0 .. n - 1
  <2>1. above(b) \subseteq S \ {b}
    BY <1>3
  <2>2. IsFiniteSet(S \ {b}) /\ Cardinality(S \ {b}) = n - 1
    BY <1>3, FS_RemoveElement
  <2>3. Cardinality(above(b)) <= n - 1
    BY <2>1, <2>2, FS_Subset
  <2> QED
    BY <1>1, <1>2, <2>3
<1>4. ASSUME NEW b \in S, NEW c \in S, b < c PROVE Rank(S, c) < Rank(S, b)
  <2>1. above(c) \subseteq above(b) /\ c \in above(b) /\ c \notin above(c)
    <3>1. b \in Nat /\ c \in Nat /\ \A a \in S : a \in Nat
      OBVIOUS
    <3>2. \A a \in S : a > c => a > b
      BY <1>4, <3>1
    <3>3. c > b /\ ~ (c > c)
      BY <1>4, <3>1
    <3> QED
      BY <3>2, <3>3
  <2>2. /\ Cardinality(above(c)) <= Cardinality(above(b))
        /\ Cardinality(above(b)) = Cardinality(above(c)) => above(b) = above(c)
    BY <1>2, <2>1, FS_Subset
  <2>3. Cardinality(above(b)) # Cardinality(above(c))
    BY <2>1, <2>2
  <2>4. Rank(S, b) \in Nat /\ Rank(S, c) \in Nat
    BY <1>2
  <2>5. Rank(S, b) = Cardinality(above(b)) /\ Rank(S, c) = Cardinality(above(c))
    BY <1>2
  <2> HIDE DEF above
  <2> QED
    BY <2>2, <2>3, <2>4, <2>5
<1>5. ASSUME NEW b \in S, NEW c \in S, Rank(S, b) = Rank(S, c) PROVE b = c
  <2>1. b \in Nat /\ c \in Nat /\ Rank(S, b) \in Nat
    BY <1>2
  <2>2. ~ (b < c) /\ ~ (c < b)
    BY <1>4, <1>5, <2>1
  <2> QED
    BY <2>1, <2>2
<1>6. rank \in [S -> 0 .. n - 1]
  BY <1>3
<1>7. rank \in Injection(S, 0 .. n - 1)
  BY <1>5, <1>6 DEF Injection, IsInjective
<1>8. IsFiniteSet(0 .. n - 1) /\ Cardinality(0 .. n - 1) = n
  <2>1. 0 \in Int /\ n - 1 \in Int
    BY <1>1
  <2>2. Cardinality(0 .. n - 1) = IF 0 > n - 1 THEN 0 ELSE (n - 1) - 0 + 1
    BY <2>1, FS_Interval
  <2> HIDE DEF n
  <2> QED
    BY <1>1, <2>1, <2>2, FS_Interval
<1>9. rank \in Surjection(S, 0 .. n - 1)
  BY <1>7, <1>8, FS_Injection
<1> QED
  BY <1>7, <1>9 DEF Bijection

(* A page holds what its offset leaves of the list, up to its size.        *)
LEMMA PageCount ==
  ASSUME NEW S, IsFiniteSet(S), S \subseteq Nat, NEW offset \in Nat
  PROVE  /\ IsFiniteSet(PageOf(S, offset))
         /\ Cardinality(S) <= offset => Cardinality(PageOf(S, offset)) = 0
         /\ Cardinality(S) > offset /\ Cardinality(S) <= offset + Size
              => Cardinality(PageOf(S, offset)) = Cardinality(S) - offset
         /\ Cardinality(S) > offset + Size => Cardinality(PageOf(S, offset)) = Size
<1> DEFINE n == Cardinality(S)
           rank == [b \in S |-> Rank(S, b)]
           page == PageOf(S, offset)
           last == IF n < offset + Size THEN n - 1 ELSE offset + Size - 1
<1>1. n \in Nat /\ Size \in Nat \ {0}
  BY FS_CardinalityType, ApiAssumption
<1>2. /\ rank \in [S -> 0 .. n - 1]
      /\ \A b, c \in S : rank[b] = rank[c] => b = c
      /\ \A k \in 0 .. n - 1 : \E b \in S : rank[b] = k
  <2>1. rank \in Bijection(S, 0 .. n - 1)
    BY RanksAreAll
  <2> HIDE DEF rank, n
  <2> QED
    BY <2>1 DEF Bijection, Injection, Surjection, IsInjective
<1>3. page = {b \in S : rank[b] \in offset .. offset + Size - 1}
  BY DEF PageOf, Rank
<1>4. page \subseteq S /\ IsFiniteSet(page)
  BY <1>3, FS_Subset
<1>5. last \in Int
  BY <1>1
<1> HIDE DEF n, rank, page
<1>6. page = {b \in S : rank[b] \in offset .. last}
  <2>1. ASSUME NEW b \in S
        PROVE  rank[b] \in offset .. offset + Size - 1 <=> rank[b] \in offset .. last
    BY <1>1, <1>2
  <2> QED
    BY <1>3, <2>1
<1>7. offset .. last \subseteq 0 .. n - 1
  BY <1>1
<1> DEFINE ranked == [b \in page |-> rank[b]]
<1>8. ranked \in Injection(page, offset .. last)
  BY <1>2, <1>4, <1>6 DEF Injection, IsInjective
<1>9. ranked \in Surjection(page, offset .. last)
  <2>1. \A k \in offset .. last : \E b \in page : ranked[b] = k
    BY <1>2, <1>6, <1>7
  <2> QED
    BY <1>8, <2>1 DEF Injection, Surjection
<1>10. ExistsBijection(page, offset .. last)
  BY <1>8, <1>9 DEF ExistsBijection, Bijection
<1>11. Cardinality(page) = Cardinality(offset .. last)
  BY <1>4, <1>10, FS_Bijection
<1>12. Cardinality(page) = IF offset > last THEN 0 ELSE last - offset + 1
  BY <1>5, <1>11, FS_Interval
<1> QED
  BY <1>1, <1>4, <1>12 DEF n, page

(* What is left of a walk through S: the page that is read next begins at  *)
(* or before every booking the client has still to see.                    *)
CanComplete(walk, S) ==
  /\ walk.unseen \subseteq S
  /\ \A b \in walk.unseen :
       /\ Rank(S, b) >= Offset(walk.page)
       /\ walk.at = "answer" => Rank(S, b) >= Offset(walk.page + 1)
  /\ walk.at = "page" => walk.total <= Cardinality(S)
  /\ walk.at = "answer" =>
       /\ walk.unseen # {} => walk.items = Size
       /\ walk.items < Size => walk.total <= Offset(walk.page) + walk.items

WalksCanComplete ==
  \A c \in Clients : client[c].op = "list" /\ OnlyGrows(client[c].filter) =>
    CanComplete(client[c], List(rows, client[c].filter))

(* Offsets are numbers, and the next page starts where this one ends.      *)
LEMMA Offsets ==
  ASSUME NEW page \in Nat \ {0}
  PROVE  /\ Offset(page) \in Nat
         /\ Offset(page + 1) = Offset(page) + Size
         /\ Offset(1) = 0
<1>1. Size \in Nat /\ page - 1 \in Nat /\ page + 1 - 1 = page
  BY ApiAssumption
<1>2. (page - 1) * Size \in Nat
  BY <1>1
<1>3. page * Size = (page - 1) * Size + Size
  BY <1>1
<1> QED
  BY <1>1, <1>2, <1>3 DEF Offset

(* A list that grows pushes what the client has still to see to later      *)
(* pages, never to earlier ones.                                           *)
LEMMA GrowingKeepsWalks ==
  ASSUME NEW walk \in Listing, NEW S, NEW T, IsFiniteSet(T), S \subseteq T,
         CanComplete(walk, S)
  PROVE  CanComplete(walk, T)
<1>1. \A b : Rank(S, b) \in Nat /\ Rank(T, b) \in Nat /\ Rank(S, b) <= Rank(T, b)
  BY RankGrows
<1>2. /\ Cardinality(S) \in Nat /\ Cardinality(T) \in Nat
      /\ Cardinality(S) <= Cardinality(T)
  BY FS_Subset, FS_CardinalityType
<1>3. walk.page \in Nat \ {0} /\ walk.total \in Nat /\ walk.items \in Nat
  BY DEF Listing
<1>4. Offset(walk.page) \in Nat /\ Offset(walk.page + 1) \in Nat
  BY <1>3, Offsets, ApiAssumption
<1>5. walk.unseen \subseteq T
  BY DEF CanComplete
<1>6. \A b \in walk.unseen :
        /\ Rank(T, b) >= Offset(walk.page)
        /\ walk.at = "answer" => Rank(T, b) >= Offset(walk.page + 1)
  BY <1>1, <1>4 DEF CanComplete
<1>7. walk.at = "page" => walk.total <= Cardinality(T)
  BY <1>2, <1>3 DEF CanComplete
<1> QED
  BY <1>5, <1>6, <1>7 DEF CanComplete

(* A page shows everything from its offset on, or it is full.              *)
LEMMA PageShowsOrIsFull ==
  ASSUME NEW S, IsFiniteSet(S), S \subseteq Nat, NEW offset \in Nat
  PROVE  /\ \A b \in S \ PageOf(S, offset) : Rank(S, b) >= offset =>
              /\ Rank(S, b) >= offset + Size
              /\ Cardinality(PageOf(S, offset)) = Size
         /\ Cardinality(PageOf(S, offset)) < Size =>
              Cardinality(S) <= offset + Cardinality(PageOf(S, offset))
<1> DEFINE n == Cardinality(S)
           page == PageOf(S, offset)
<1>1. n \in Nat /\ Size \in Nat \ {0}
  BY FS_CardinalityType, ApiAssumption
<1>2. /\ n <= offset => Cardinality(page) = 0
      /\ n > offset /\ n <= offset + Size => Cardinality(page) = n - offset
      /\ n > offset + Size => Cardinality(page) = Size
  BY PageCount
<1>3. Cardinality(page) < Size => n <= offset + Cardinality(page)
  <2> HIDE DEF n, page
  <2> QED
    BY <1>1, <1>2
<1>4. ASSUME NEW b \in S \ page, Rank(S, b) >= offset
      PROVE  Rank(S, b) >= offset + Size /\ Cardinality(page) = Size
  <2>1. [a \in S |-> Rank(S, a)] \in [S -> 0 .. n - 1]
    BY RanksAreAll DEF Bijection, Injection
  <2>2. Rank(S, b) \in 0 .. n - 1
    BY <2>1
  <2>3. Rank(S, b) \notin offset .. offset + Size - 1
    BY <1>4 DEF PageOf, Rank
  <2> HIDE DEF n, page
  <2>4. Rank(S, b) >= offset + Size /\ n > offset + Size
    BY <1>1, <1>4, <2>2, <2>3
  <2> QED
    BY <1>2, <2>4
<1> QED
  BY <1>3, <1>4

(* A walk that can complete still can after every step: a page shows what  *)
(* it covers, and what is created or cancelled meanwhile moves the others  *)
(* back.                                                                   *)
LEMMA WalkStep ==
  ASSUME TypeOK, IdsAreDrawn, TypeOK', IdsAreDrawn', WalksCanComplete, [Next]_vars
  PROVE  WalksCanComplete'
<1> SUFFICES ASSUME NEW d \in Clients,
                    client'[d].op = "list", OnlyGrows(client'[d].filter)
             PROVE  CanComplete(client'[d], List(rows', client'[d].filter))
  BY DEF WalksCanComplete, List
<1>1. \A filter : /\ IsFiniteSet(List(rows, filter))
                  /\ List(rows, filter) \subseteq Nat
                  /\ IsFiniteSet(List(rows', filter))
  BY ListsAreFinite DEF TypeOK, IdsAreDrawn, RowsAreDrawn
<1>2. \A filter \in {None, Cancelled} : List(rows, filter) \subseteq List(rows', filter)
  <2>1. /\ None # Cancelled
        /\ \A b \in Bookings : rows[b] # None /\ rows'[b] # None
    BY DEF TypeOK, BookingStatus, AwaitsConfirmation, Confirmed, Cancelled,
           CancellationPending, None, Absent
  <2> QED
    BY <2>1, RowsOnlyGrow DEF List
<1>3. Matching(client[d].filter) = List(rows, client[d].filter)
  BY DEF Matching, List
<1>4. ASSUME client'[d] = client[d]
      PROVE  CanComplete(client'[d], List(rows', client'[d].filter))
  <2>1. client[d] \in Listing /\ client[d].filter \in {None, Cancelled}
    BY <1>4, RequestShape DEF OnlyGrows
  <2>2. CanComplete(client[d], List(rows, client[d].filter))
    BY <1>4 DEF WalksCanComplete
  <2>3. /\ List(rows, client[d].filter) \subseteq List(rows', client[d].filter)
        /\ IsFiniteSet(List(rows', client[d].filter))
    BY <1>1, <1>2, <2>1
  <2>4. CanComplete(client[d], List(rows', client[d].filter))
    BY <2>1, <2>2, <2>3, GrowingKeepsWalks
  <2> QED
    BY <1>4, <2>4
<1>5. CASE BeginList(d)
  <2>1. PICK filter \in Filters :
          client'[d] = [op |-> "list", at |-> "count", filter |-> filter, page |-> 1,
                        total |-> 0, items |-> 0, unseen |-> Matching(filter)]
    BY <1>5, Beginnings
  <2> DEFINE S == List(rows, filter)
  <2>2. Matching(filter) = S /\ rows' = rows
    BY <1>5 DEF Matching, List, BeginList
  <2>3. /\ client'[d].at = "count" /\ client'[d].filter = filter
        /\ client'[d].page = 1 /\ client'[d].unseen = S
    BY <2>1, <2>2
  <2>4. \A b : Rank(S, b) \in Nat
    BY <1>1, RankGrows
  <2> HIDE DEF S
  <2>5. CanComplete(client'[d], S)
    BY <2>3, <2>4, Offsets DEF CanComplete
  <2> QED
    BY <2>2, <2>3, <2>5 DEF S
<1>6. CASE CountByFilter(d)
  <2>1. /\ client[d].op = "list" /\ client[d].at = "count" /\ rows' = rows
        /\ client'[d].at = "page" /\ client'[d].filter = client[d].filter
        /\ client'[d].page = client[d].page /\ client'[d].unseen = client[d].unseen
        /\ client'[d].total = Cardinality(List(rows, client[d].filter))
    BY <1>3, <1>6, ListSteps DEF CountByFilter, Waits
  <2> DEFINE S == List(rows, client[d].filter)
  <2>2. CanComplete(client[d], S)
    BY <2>1 DEF WalksCanComplete
  <2>3. Cardinality(S) \in Nat
    BY <1>1, FS_CardinalityType
  <2> HIDE DEF S
  <2>4. client'[d].total = Cardinality(S)
    BY <2>1 DEF S
  <2>5. CanComplete(client'[d], S)
    BY <2>1, <2>2, <2>3, <2>4 DEF CanComplete
  <2> QED
    BY <2>1, <2>5 DEF S
<1>7. CASE GetByFilter(d)
  <2> DEFINE S      == List(rows, client[d].filter)
             offset == Offset(client[d].page)
             items  == PageOf(S, offset)
  <2>1. /\ client[d].op = "list" /\ client[d].at = "page" /\ rows' = rows
        /\ client'[d].at = "answer" /\ client'[d].filter = client[d].filter
        /\ client'[d].page = client[d].page /\ client'[d].total = client[d].total
        /\ client'[d].items = Cardinality(items)
        /\ client'[d].unseen = client[d].unseen \ items
    BY <1>3, <1>7, ListSteps DEF GetByFilter, Waits
  <2>2. CanComplete(client[d], S)
    BY <2>1 DEF WalksCanComplete
  <2>3. client[d].page \in Nat \ {0} /\ client[d].total \in Nat
    BY <2>1, RequestShape DEF Listing
  <2>4. offset \in Nat /\ Offset(client[d].page + 1) = offset + Size
    BY <2>3, Offsets
  <2>5. /\ \A b \in S \ items : Rank(S, b) >= offset =>
             Rank(S, b) >= offset + Size /\ Cardinality(items) = Size
        /\ Cardinality(items) < Size => Cardinality(S) <= offset + Cardinality(items)
    BY <1>1, <2>4, PageShowsOrIsFull
  <2>6. Cardinality(S) \in Nat /\ IsFiniteSet(items)
    BY <1>1, <2>4, FS_CardinalityType, PageCount
  <2>7. Cardinality(items) \in Nat /\ Size \in Nat
    BY <2>6, FS_CardinalityType, ApiAssumption
  <2>8. \A b : Rank(S, b) \in Nat
    BY <1>1, RankGrows
  <2> HIDE DEF S, items, offset
  <2>9. Offset(client[d].page) = offset
    BY DEF offset
  <2>10. client'[d].unseen \subseteq S
    BY <2>1, <2>2 DEF CanComplete
  <2>11. \A b \in client'[d].unseen : /\ Rank(S, b) >= offset
                                      /\ Rank(S, b) >= offset + Size
                                      /\ Cardinality(items) = Size
    BY <2>1, <2>2, <2>5, <2>9 DEF CanComplete
  <2>12. client'[d].items < Size => client'[d].total <= offset + client'[d].items
    BY <2>1, <2>2, <2>3, <2>4, <2>5, <2>6, <2>7 DEF CanComplete
  <2>13. CanComplete(client'[d], S)
    BY <2>1, <2>4, <2>9, <2>10, <2>11, <2>12 DEF CanComplete
  <2> QED
    BY <2>1, <2>13 DEF S
<1>8. CASE NextPage(d)
  <2>1. /\ client[d].op = "list" /\ client[d].at = "answer" /\ rows' = rows
        /\ client'[d].at = "count" /\ client'[d].filter = client[d].filter
        /\ client'[d].page = client[d].page + 1 /\ client'[d].unseen = client[d].unseen
    BY <1>8, ListSteps DEF NextPage, Waits
  <2> DEFINE S == List(rows, client[d].filter)
  <2>2. CanComplete(client[d], S)
    BY <2>1 DEF WalksCanComplete
  <2> HIDE DEF S
  <2>3. CanComplete(client'[d], S)
    BY <2>1, <2>2 DEF CanComplete
  <2> QED
    BY <2>1, <2>3 DEF S
<1>9. ASSUME Acts(d), ~ BeginList(d), ~ CountByFilter(d), ~ GetByFilter(d), ~ NextPage(d)
      PROVE  FALSE
  <2>1. BeginCreate(d) \/ BeginCancel(d) \/ BeginStatistics(d) => client'[d].op # "list"
    BY Beginnings
  <2>2. BeginLookup(d) => client'[d].op # "list"
    <3> SUFFICES ASSUME BeginLookup(d) PROVE client'[d].op # "list"
      OBVIOUS
    <3>1. PICK b \in Bookings :
            client'[d] = [op |-> "lookup", at |-> "select", id |-> b, status |-> None,
                          created |-> b \in created, cancelled |-> b \in cancelled]
      BY Beginnings
    <3> QED
      BY <3>1
  <2>3. AnswerCreate(d) \/ AnswerCancel(d) \/ AnswerLookup(d) \/ AnswerList(d)
          \/ AnswerStatistics(d) \/ Fail(d) => client'[d].op # "list"
    BY Beginnings DEF Idle
  <2>4. Insert(d) \/ Cancel(d) \/ GetByID(d) => client'[d].op # "list"
    BY CreateSteps, CancelSteps, LookupSteps
  <2>5. CountTotal(d) \/ Breakdown(d) \/ TopResources(d) => client'[d].op # "list"
    BY ReportSteps
  <2> QED
    BY <1>9, <2>1, <2>2, <2>3, <2>4, <2>5 DEF Acts
<1>10. client'[d] = client[d] \/ Acts(d)
  <2>1. ASSUME NEW c \in Clients, Acts(c), c # d PROVE client'[d] = client[d]
    BY <2>1, OneClientActs
  <2> QED
    BY <2>1 DEF Next, Acts, Elsewhere, vars
<1> QED
  BY <1>4, <1>5, <1>6, <1>7, <1>8, <1>9, <1>10

(* In every reachable state all walks can complete.                        *)
LEMMA WalkInvariant == Spec => []WalksCanComplete
<1>1. Init => WalksCanComplete
  BY DEF Init, WalksCanComplete, Idle
<1>2. TypeOK /\ IdsAreDrawn /\ (TypeOK /\ IdsAreDrawn)' /\ WalksCanComplete /\ [Next]_vars
        => WalksCanComplete'
  BY WalkStep
<1> QED
  BY <1>1, <1>2, TypeInvariant, PTL DEF Spec

(* A client that walks the list of all bookings, or of the cancelled ones, *)
(* to its last page has seen every booking that was there at the start,    *)
(* whatever is created and cancelled while it reads.                       *)
THEOREM WalksSkipNothing == Spec => []NothingIsSkipped
<1>1. TypeOK /\ WalksCanComplete => NothingIsSkipped
  <2> SUFFICES ASSUME TypeOK, WalksCanComplete, NEW c \in Clients, IsLastPage(c),
                      OnlyGrows(client[c].filter)
               PROVE  client[c].unseen = {}
    BY DEF NothingIsSkipped
  <2>1. client[c].items \in Nat /\ Size \in Nat
    BY RequestShape, ApiAssumption DEF IsLastPage, Waits, Listing
  <2> QED
    BY <2>1 DEF WalksCanComplete, CanComplete, IsLastPage, Waits
<1> QED
  BY <1>1, TypeInvariant, WalkInvariant, PTL

(* The total that comes with a last page never promises more than the      *)
(* pages have shown.                                                       *)
THEOREM TotalsEndTheWalk == Spec => []TotalEndsTheWalk
<1>1. WalksCanComplete => TotalEndsTheWalk
  BY DEF WalksCanComplete, CanComplete, TotalEndsTheWalk, IsLastPage, Waits, Offset
<1> QED
  BY <1>1, WalkInvariant, PTL

-----------------------------------------------------------------------------
(* Pairs of a line and a number up to its count: Sum counts these.         *)
Pairs(lines) == UNION {{key} \X (1 .. lines[key]) : key \in DOMAIN lines}

(* What the pairs of some lines are.                                       *)
LEMMA PairShape ==
  ASSUME NEW Keys, NEW lines \in [Keys -> Nat]
  PROVE  /\ \A k, i : <<k, i>> \in Pairs(lines) <=> k \in Keys /\ i \in 1 .. lines[k]
         /\ \A p \in Pairs(lines) : \E k \in Keys : \E i \in 1 .. lines[k] : p = <<k, i>>
<1>1. DOMAIN lines = Keys
  OBVIOUS
<1>2. \A k, i : <<k, i>> \in Pairs(lines) <=> k \in Keys /\ i \in 1 .. lines[k]
  BY <1>1 DEF Pairs
<1>3. ASSUME NEW p \in Pairs(lines)
      PROVE  \E k \in Keys : \E i \in 1 .. lines[k] : p = <<k, i>>
  <2>1. PICK k \in Keys : p \in {k} \X (1 .. lines[k])
    BY <1>1 DEF Pairs
  <2>2. p = <<p[1], p[2]>> /\ p[1] = k /\ p[2] \in 1 .. lines[k]
    BY <2>1
  <2> QED
    BY <2>2
<1> QED
  BY <1>2, <1>3

(* Counting S in groups: the lines of some keys account for what has one   *)
(* of these keys, and for nothing twice.                                   *)
LEMMA Grouping ==
  ASSUME NEW S, IsFiniteSet(S), NEW Keys, NEW Some \in SUBSET Keys,
         NEW keyOf \in [S -> Keys],
         NEW lines \in [Keys -> Nat],
         \A k \in Some : lines[k] = Cardinality({b \in S : keyOf[b] = k}),
         \A k \in Keys \ Some : lines[k] = 0
  PROVE  /\ Sum(lines) \in Nat
         /\ Sum(lines) <= Cardinality(S)
         /\ (\A b \in S : keyOf[b] \in Some) => Sum(lines) = Cardinality(S)
<1> DEFINE group(k) == {b \in S : keyOf[b] = k}
           Numbers(k) == Bijection(1 .. lines[k], group(k))
           number == [k \in Some |-> CHOOSE f : f \in Numbers(k)]
           nth == [pair \in Pairs(lines) |-> number[pair[1]][pair[2]]]
<1>1. ASSUME NEW k \in Some
      PROVE  number[k] \in Numbers(k)
  <2>1. IsFiniteSet(group(k))
    BY FS_Subset
  <2>2. ExistsBijection(1 .. lines[k], group(k))
    BY <2>1, FS_CardinalityType
  <2>3. \E f : f \in Numbers(k)
    BY <2>2 DEF ExistsBijection
  <2>4. number[k] = CHOOSE f : f \in Numbers(k)
    OBVIOUS
  <2> HIDE DEF number, Numbers
  <2> QED
    BY <2>3, <2>4
<1>2. ASSUME NEW k \in Some
      PROVE  /\ \A i \in 1 .. lines[k] : number[k][i] \in group(k)
             /\ \A i, j \in 1 .. lines[k] : number[k][i] = number[k][j] => i = j
             /\ \A b \in group(k) : \E i \in 1 .. lines[k] : number[k][i] = b
  <2> HIDE DEF number, group
  <2> QED
    BY <1>1 DEF Bijection, Injection, Surjection, IsInjective
<1> HIDE DEF number
<1>3. ASSUME NEW p \in Pairs(lines)
      PROVE  \E k \in Some : \E i \in 1 .. lines[k] : p = <<k, i>> /\ nth[p] = number[k][i]
  <2>1. PICK k \in Keys : \E i \in 1 .. lines[k] : p = <<k, i>>
    BY PairShape
  <2>2. PICK i \in 1 .. lines[k] : p = <<k, i>>
    BY <2>1
  <2>3. k \in Some
    <3>1. lines[k] # 0
      BY <2>2
    <3> QED
      BY <3>1
  <2>4. nth[p] = number[p[1]][p[2]]
    OBVIOUS
  <2> HIDE DEF nth
  <2> QED
    BY <2>2, <2>3, <2>4
<1>4. ASSUME NEW k \in Some, NEW i \in 1 .. lines[k]
      PROVE  <<k, i>> \in Pairs(lines) /\ nth[<<k, i>>] = number[k][i]
  <2>1. <<k, i>> \in Pairs(lines)
    BY PairShape
  <2> QED
    BY <2>1
<1>5. nth \in [Pairs(lines) -> S]
  <2>1. ASSUME NEW p \in Pairs(lines) PROVE nth[p] \in S
    <3>1. PICK k \in Some : \E i \in 1 .. lines[k] : nth[p] = number[k][i]
      BY <1>3
    <3>2. nth[p] \in group(k)
      BY <1>2, <3>1
    <3> QED
      BY <3>2
  <2> QED
    BY <2>1
<1>6. ASSUME NEW p \in Pairs(lines), NEW q \in Pairs(lines), nth[p] = nth[q]
      PROVE  p = q
  <2>1. PICK k \in Some : \E i \in 1 .. lines[k] : p = <<k, i>> /\ nth[p] = number[k][i]
    BY <1>3
  <2>2. PICK i \in 1 .. lines[k] : p = <<k, i>> /\ nth[p] = number[k][i]
    BY <2>1
  <2>3. PICK l \in Some : \E j \in 1 .. lines[l] : q = <<l, j>> /\ nth[q] = number[l][j]
    BY <1>3
  <2>4. PICK j \in 1 .. lines[l] : q = <<l, j>> /\ nth[q] = number[l][j]
    BY <2>3
  <2>5. number[k][i] \in group(k) /\ number[l][j] \in group(l)
    BY <1>2
  <2>6. k = l
    BY <1>6, <2>2, <2>4, <2>5
  <2>7. i = j
    BY <1>2, <1>6, <2>2, <2>4, <2>6
  <2> QED
    BY <2>2, <2>4, <2>6, <2>7
<1>7. nth \in Injection(Pairs(lines), S)
  BY <1>5, <1>6 DEF Injection, IsInjective
<1>8. /\ IsFiniteSet(Pairs(lines))
      /\ Cardinality(Pairs(lines)) <= Cardinality(S)
      /\ Cardinality(Pairs(lines)) = Cardinality(S) <=> nth \in Surjection(Pairs(lines), S)
  BY <1>7, FS_Injection
<1>9. ASSUME \A b \in S : keyOf[b] \in Some
      PROVE  nth \in Surjection(Pairs(lines), S)
  <2>1. ASSUME NEW b \in S PROVE \E p \in Pairs(lines) : nth[p] = b
    <3>1. keyOf[b] \in Some /\ b \in group(keyOf[b])
      BY <1>9
    <3>2. PICK i \in 1 .. lines[keyOf[b]] : number[keyOf[b]][i] = b
      BY <1>2, <3>1
    <3> QED
      BY <1>4, <3>1, <3>2
  <2> QED
    BY <1>5, <2>1 DEF Surjection
<1>10. Sum(lines) = Cardinality(Pairs(lines))
  BY DEF Sum, Pairs
<1> QED
  BY <1>8, <1>9, <1>10, FS_CardinalityType

(* The resources before r in the list.                                     *)
Before(r) == {q \in Used : Precedes(q, r)}

(* The resources are finite, and each that is used has a booking.          *)
LEMMA CountsAreNumbers ==
  ASSUME TypeOK, RowsAreDrawn
  PROVE  /\ IsFiniteSet(Used) /\ Used \subseteq Resources /\ Used \subseteq Nat
         /\ \A r : BookingCount(r) \in Nat
         /\ \A r \in Used : BookingCount(r) > 0
<1>1. IsFiniteSet(Counted) /\ Counted \subseteq Bookings
  BY TablesAreFinite, ApiAssumption DEF Counted
<1>2. Used \subseteq Resources /\ Used \subseteq Nat
  BY <1>1, ApiAssumption DEF Used, Resources
<1>3. [b \in Counted |-> Resource[b]] \in Surjection(Counted, Used)
  BY DEF Surjection, Used
<1>4. IsFiniteSet(Used)
  BY <1>1, <1>3, FS_Surjection
<1>5. ASSUME NEW r
      PROVE  BookingCount(r) \in Nat /\ (r \in Used => BookingCount(r) > 0)
  <2> DEFINE group == {b \in Counted : Resource[b] = r}
  <2>1. IsFiniteSet(group)
    BY <1>1, FS_Subset
  <2>2. r \in Used => group # {}
    BY DEF Used
  <2> HIDE DEF group
  <2>3. Cardinality(group) \in Nat /\ (r \in Used => Cardinality(group) # 0)
    BY <2>1, <2>2, FS_CardinalityType, FS_EmptySet
  <2>4. BookingCount(r) = Cardinality(group)
    BY DEF BookingCount, group
  <2> QED
    BY <2>3, <2>4
<1> QED
  BY <1>2, <1>4, <1>5

(* A list that is shorter than the limit has a line for every resource:    *)
(* the first that were left out would have the whole limit before it.      *)
LEMMA ShortListsAreComplete ==
  ASSUME TypeOK, RowsAreDrawn, Cardinality(Listed) < TopLimit
  PROVE  Listed = Used
<1>1. Listed \subseteq Used
  BY DEF Listed
<1>2. /\ \A r \in Used : r \notin Before(r)
      /\ \A q, r \in Used : q \in Before(r) => Before(q) \subseteq Before(r)
  <2>1. \A r \in Used : r \in Nat /\ BookingCount(r) \in Nat
    BY CountsAreNumbers
  <2> QED
    BY <2>1 DEF Before, Precedes
<1> SUFFICES ASSUME Used \ Listed # {} PROVE FALSE
  BY <1>1
<1> DEFINE T == {Before(r) : r \in Used \ Listed}
           less == StrictSubsetOrdering(Used)
<1>3. \A r : Before(r) \subseteq Used
  BY DEF Before
<1>4. \A r : IsFiniteSet(Before(r))
  BY <1>3, CountsAreNumbers, FS_Subset
<1>5. T \subseteq FiniteSubsetsOf(Used) /\ T # {}
  BY <1>3, <1>4 DEF FiniteSubsetsOf
<1>6. \E S \in T : \A R \in T : ~ (<<R, S>> \in less)
  <2> HIDE DEF T
  <2> QED
    BY <1>5, FS_StrictSubsetOrderingWellFounded, WFMin
<1>7. PICK r \in Used \ Listed : \A q \in Used \ Listed : ~ (<<Before(q), Before(r)>> \in less)
  BY <1>6
<1>8. Before(r) \subseteq Listed
  <2> SUFFICES ASSUME NEW q \in Before(r), q \notin Listed PROVE FALSE
    OBVIOUS
  <2>1. q \in Used \ Listed
    BY <1>3
  <2>2. Before(q) \subseteq Before(r) /\ Before(q) # Before(r)
    BY <1>2, <2>1
  <2>3. <<Before(q), Before(r)>> \in less
    BY <1>3, <2>2 DEF StrictSubsetOrdering
  <2> QED
    BY <1>7, <2>1, <2>3
<1>9. IsFiniteSet(Listed)
  BY <1>1, CountsAreNumbers, FS_Subset
<1>10. /\ Cardinality(Before(r)) <= Cardinality(Listed)
       /\ Cardinality(Before(r)) \in Nat /\ Cardinality(Listed) \in Nat
  BY <1>4, <1>8, <1>9, FS_Subset, FS_CardinalityType
<1>11. ~ (Cardinality(Before(r)) < TopLimit)
  BY DEF Listed, Before
<1> QED
  BY <1>10, <1>11, ApiAssumption

(* What a request for statistics can rely on while n bookings are counted. *)
Fits(report, n) ==
  /\ report.at = "breakdown" => report.total <= n
  /\ report.at = "top" => /\ report.total <= Sum(report.breakdown)
                          /\ Sum(report.breakdown) \in Nat
                          /\ Sum(report.breakdown) <= n
  /\ report.at = "answer" =>
       /\ report.total <= Sum(report.breakdown)
       /\ Cardinality({r \in Resources : report.top[r] > 0}) < TopLimit =>
            Sum(report.breakdown) <= Sum(report.top)

ReportsFit ==
  \A c \in Clients : client[c].op = "statistics" => Fits(client[c], Cardinality(Counted))

(* The statuses account for every booking that is counted.                 *)
LEMMA StatusesAccountForAll ==
  ASSUME TypeOK, RowsAreDrawn
  PROVE  LET lines == [s \in BookingStatus |->
                         IF s \in Lines THEN Cardinality({b \in Counted : rows[b] = s}) ELSE 0]
         IN  Sum(lines) = Cardinality(Counted)
<1> DEFINE count(s) == Cardinality({b \in Counted : rows[b] = s})
           lines == [s \in BookingStatus |-> IF s \in Lines THEN count(s) ELSE 0]
           statusOf == [b \in Counted |-> rows[b]]
<1>1. IsFiniteSet(Counted) /\ Counted \subseteq Bookings
  BY TablesAreFinite, ApiAssumption DEF Counted
<1>2. statusOf \in [Counted -> BookingStatus]
  BY <1>1 DEF TypeOK, Counted
<1>3. \A s : {b \in Counted : rows[b] = s} = {b \in Counted : statusOf[b] = s}
  OBVIOUS
<1>4. \A s : count(s) \in Nat
  <2>1. \A s : IsFiniteSet({b \in Counted : rows[b] = s})
    BY <1>1, FS_Subset
  <2> QED
    BY <2>1, FS_CardinalityType
<1>5. \A s \in BookingStatus : count(s) = Cardinality({b \in Counted : statusOf[b] = s})
  BY <1>3
<1> HIDE DEF count, statusOf
<1>6. /\ lines \in [BookingStatus -> Nat]
      /\ \A s \in BookingStatus : lines[s] = Cardinality({b \in Counted : statusOf[b] = s})
  BY <1>4, <1>5 DEF Lines
<1> HIDE DEF lines
<1>7. \A b \in Counted : statusOf[b] \in BookingStatus
  BY <1>2
<1>8. Sum(lines) = Cardinality(Counted)
  <2>1. BookingStatus \in SUBSET BookingStatus /\ BookingStatus \ BookingStatus = {}
    OBVIOUS
  <2> QED
    BY <1>1, <1>2, <1>6, <1>7, <2>1, Grouping
<1> QED
  BY <1>8 DEF lines, count

(* So do the resources, if the list is shorter than its limit.             *)
LEMMA ResourcesAccountForAll ==
  ASSUME TypeOK, RowsAreDrawn
  PROVE  LET lines == [r \in Resources |-> IF r \in Listed THEN BookingCount(r) ELSE 0]
         IN  Cardinality({r \in Resources : lines[r] > 0}) < TopLimit =>
               Sum(lines) = Cardinality(Counted)
<1> DEFINE lines == [r \in Resources |-> IF r \in Listed THEN BookingCount(r) ELSE 0]
           resourceOf == [b \in Counted |-> Resource[b]]
<1>1. IsFiniteSet(Counted) /\ Counted \subseteq Bookings
  BY TablesAreFinite, ApiAssumption DEF Counted
<1>2. Listed \in SUBSET Resources /\ Used \subseteq Resources
  BY CountsAreNumbers DEF Listed
<1>3. {r \in Resources : lines[r] > 0} = Listed
  <2>1. \A r \in Resources : lines[r] > 0 <=> r \in Listed
    BY <1>2, CountsAreNumbers DEF Listed
  <2> QED
    BY <1>2, <2>1
<1>4. lines \in [Resources -> Nat]
  BY CountsAreNumbers
<1>5. resourceOf \in [Counted -> Resources]
  BY <1>1 DEF Resources
<1>6. \A r : {b \in Counted : Resource[b] = r} = {b \in Counted : resourceOf[b] = r}
  OBVIOUS
<1>7. \A r \in Listed : lines[r] = Cardinality({b \in Counted : resourceOf[b] = r})
  BY <1>2, <1>6 DEF BookingCount
<1>8. \A r \in Resources \ Listed : lines[r] = 0
  OBVIOUS
<1>9. Listed = Used => \A b \in Counted : resourceOf[b] \in Listed
  BY DEF Used
<1> HIDE DEF lines, resourceOf
<1>10. (\A b \in Counted : resourceOf[b] \in Listed) => Sum(lines) = Cardinality(Counted)
  BY <1>1, <1>2, <1>4, <1>5, <1>7, <1>8, Grouping
<1>11. Cardinality({r \in Resources : lines[r] > 0}) < TopLimit =>
         Sum(lines) = Cardinality(Counted)
  BY <1>3, <1>9, <1>10, ShortListsAreComplete
<1> QED
  BY <1>11 DEF lines

(* What a request for statistics relies on holds after every step: each    *)
(* query counts at least as many bookings as the one before it.            *)
LEMMA ReportStep ==
  ASSUME TypeOK, IdsAreDrawn, TypeOK', IdsAreDrawn', ReportsFit, [Next]_vars
  PROVE  ReportsFit'
<1> SUFFICES ASSUME NEW d \in Clients, client'[d].op = "statistics"
             PROVE  Fits(client'[d], Cardinality(Counted'))
  BY DEF ReportsFit
<1> DEFINE n == Cardinality(Counted)
           m == Cardinality(Counted')
<1>1. n \in Nat /\ m \in Nat /\ n <= m
  <2>1. RowsAreDrawn
    BY DEF IdsAreDrawn
  <2>2. IsFiniteSet(Counted)
    BY <2>1, TablesAreFinite
  <2>3. IsFiniteSet({b \in InPeriod : rows'[b] # Absent})
    BY ListsAreFinite DEF TypeOK, IdsAreDrawn, RowsAreDrawn
  <2>4. Counted \subseteq {b \in InPeriod : rows'[b] # Absent}
    BY RowsOnlyGrow, ApiAssumption DEF Counted
  <2>5. Counted' = {b \in InPeriod : rows'[b] # Absent}
    BY DEF Counted
  <2> QED
    BY <2>2, <2>3, <2>4, <2>5, FS_Subset, FS_CardinalityType
<1> HIDE DEF n, m
<1>2. ASSUME client'[d] = client[d]
      PROVE  Fits(client'[d], m)
  <2>1. client[d] \in Report /\ Fits(client[d], n)
    BY <1>2, RequestShape DEF ReportsFit, n
  <2>2. client[d].total \in Nat
    BY <2>1 DEF Report
  <2> QED
    BY <1>1, <1>2, <2>1, <2>2 DEF Fits
<1>3. CASE BeginStatistics(d)
  <2>1. client'[d].at = "total"
    BY <1>3, Beginnings
  <2> QED
    BY <2>1 DEF Fits
<1>4. CASE CountTotal(d)
  <2>1. client'[d].at = "breakdown" /\ client'[d].total = n
    BY <1>4, ReportSteps DEF n
  <2> QED
    BY <1>1, <2>1 DEF Fits, m
<1>5. CASE Breakdown(d)
  <2> DEFINE lines == [s \in BookingStatus |->
                         IF s \in Lines THEN Cardinality({b \in Counted : rows[b] = s}) ELSE 0]
  <2>1. /\ client[d].op = "statistics" /\ client[d].at = "breakdown"
        /\ client'[d].at = "top" /\ client'[d].total = client[d].total
        /\ client'[d].breakdown = lines
    BY <1>5, ReportSteps DEF Breakdown, Waits
  <2>2. Sum(lines) = n
    BY StatusesAccountForAll DEF IdsAreDrawn, n
  <2> HIDE DEF lines
  <2>3. client[d].total <= n
    BY <2>1 DEF ReportsFit, Fits, n
  <2> QED
    BY <1>1, <2>1, <2>2, <2>3 DEF Fits, m
<1>6. CASE TopResources(d)
  <2> DEFINE lines == [r \in Resources |-> IF r \in Listed THEN BookingCount(r) ELSE 0]
  <2>1. /\ client[d].op = "statistics" /\ client[d].at = "top"
        /\ client'[d].at = "answer" /\ client'[d].total = client[d].total
        /\ client'[d].breakdown = client[d].breakdown
        /\ client'[d].top = lines
    BY <1>6, ReportSteps DEF TopResources, Waits
  <2>2. Cardinality({r \in Resources : lines[r] > 0}) < TopLimit => Sum(lines) = n
    BY ResourcesAccountForAll DEF IdsAreDrawn, n
  <2> HIDE DEF lines
  <2>3. /\ client[d].total <= Sum(client[d].breakdown)
        /\ Sum(client[d].breakdown) <= n
    BY <2>1 DEF ReportsFit, Fits, n
  <2> QED
    BY <2>1, <2>2, <2>3 DEF Fits
<1>7. ASSUME Acts(d), ~ BeginStatistics(d), ~ CountTotal(d), ~ Breakdown(d), ~ TopResources(d)
      PROVE  FALSE
  <2>1. BeginCreate(d) \/ BeginCancel(d) => client'[d].op # "statistics"
    BY Beginnings
  <2>2. BeginLookup(d) => client'[d].op # "statistics"
    <3> SUFFICES ASSUME BeginLookup(d) PROVE client'[d].op # "statistics"
      OBVIOUS
    <3>1. PICK b \in Bookings :
            client'[d] = [op |-> "lookup", at |-> "select", id |-> b, status |-> None,
                          created |-> b \in created, cancelled |-> b \in cancelled]
      BY Beginnings
    <3> QED
      BY <3>1
  <2>3. BeginList(d) => client'[d].op # "statistics"
    <3> SUFFICES ASSUME BeginList(d) PROVE client'[d].op # "statistics"
      OBVIOUS
    <3>1. PICK filter \in Filters :
            client'[d] = [op |-> "list", at |-> "count", filter |-> filter, page |-> 1,
                          total |-> 0, items |-> 0, unseen |-> Matching(filter)]
      BY Beginnings
    <3> QED
      BY <3>1
  <2>4. AnswerCreate(d) \/ AnswerCancel(d) \/ AnswerLookup(d) \/ AnswerList(d)
          \/ AnswerStatistics(d) \/ Fail(d) => client'[d].op # "statistics"
    BY Beginnings DEF Idle
  <2>5. Insert(d) \/ Cancel(d) \/ GetByID(d) => client'[d].op # "statistics"
    BY CreateSteps, CancelSteps, LookupSteps
  <2>6. CountByFilter(d) \/ GetByFilter(d) \/ NextPage(d) => client'[d].op # "statistics"
    BY ListSteps
  <2> QED
    BY <1>7, <2>1, <2>2, <2>3, <2>4, <2>5, <2>6 DEF Acts
<1>8. client'[d] = client[d] \/ Acts(d)
  <2>1. ASSUME NEW c \in Clients, Acts(c), c # d PROVE client'[d] = client[d]
    BY <2>1, OneClientActs
  <2> QED
    BY <2>1 DEF Next, Acts, Elsewhere, vars
<1> QED
  BY <1>2, <1>3, <1>4, <1>5, <1>6, <1>7, <1>8 DEF m

(* Three queries that see different tables still fit together: the         *)
(* statuses account for every booking of the total, and the resources for  *)
(* every booking of the statuses unless the list was cut off.              *)
THEOREM ReportsAddUp == Spec => []StatisticsAddUp
<1>1. Init => ReportsFit
  BY DEF Init, ReportsFit, Idle
<1>2. TypeOK /\ IdsAreDrawn /\ (TypeOK /\ IdsAreDrawn)' /\ ReportsFit /\ [Next]_vars
        => ReportsFit'
  BY ReportStep
<1>3. ReportsFit => StatisticsAddUp
  BY DEF ReportsFit, Fits, StatisticsAddUp, Waits
<1> QED
  BY <1>1, <1>2, <1>3, TypeInvariant, PTL DEF Spec

-----------------------------------------------------------------------------
(* The rows, as the abstract life cycle sees them.                         *)
Lifecycle == INSTANCE BookingLifecycle WITH status <- rows

(* What the clients do to the rows, and what is done elsewhere, are steps  *)
(* of the life cycle: an INSERT meets no row, since its id is its own.     *)
THEOREM RequestsImplementLifecycle == Spec => Lifecycle!Spec
<1>1. Init => Lifecycle!Init
  BY DEF Init, Lifecycle!Init, Absent, Lifecycle!Absent
<1>2. TypeOK /\ IdsAreDrawn /\ [Next]_vars => [Lifecycle!Next]_rows
  <2> SUFFICES ASSUME TypeOK, IdsAreDrawn, [Next]_vars
               PROVE  Lifecycle!Next \/ rows' = rows
    OBVIOUS
<2> USE DEF Lifecycle!Absent, Lifecycle!AwaitsConfirmation, Lifecycle!Confirmed,
             Lifecycle!Cancelled, Lifecycle!CancellationPending,
             Absent, AwaitsConfirmation, Confirmed, Cancelled, CancellationPending
  <2>1. ASSUME NEW c \in Clients, Insert(c)
        PROVE  client[c].id \in Bookings /\ Lifecycle!Create(client[c].id)
    BY <2>1, RequestShape DEF Insert, Waits, CreateRequest, IdsAreDrawn, Lifecycle!Create,
                              Lifecycle!Move
  <2>2. ASSUME NEW c \in Clients, Cancel(c)
        PROVE  \/ rows' = rows
               \/ client[c].id \in Bookings /\ Lifecycle!Cancel(client[c].id)
    <3>1. \/ rows' = rows
          \/ /\ CancelAllowed(rows[client[c].id], TRUE)
             /\ rows' = [rows EXCEPT ![client[c].id] = Cancelled]
      BY <2>2, Zenon DEF Cancel
    <3> QED
      BY <2>2, <3>1, RequestShape DEF Cancel, Waits, CancelRequest, CancelAllowed,
                                      Lifecycle!Cancel, Lifecycle!Move
  <2>3. ASSUME NEW b \in Bookings, Elsewhere(b)
        PROVE  \/ Lifecycle!Confirm(b) \/ Lifecycle!Cancel(b)
               \/ Lifecycle!BeginCancellation(b) \/ rows' = rows
    BY <2>3 DEF Elsewhere, ConfirmAllowed, CancelAllowed, StartCancellationAllowed, TypeOK,
                Lifecycle!Confirm, Lifecycle!Cancel, Lifecycle!BeginCancellation,
                Lifecycle!Move
  <2> QED
    BY <2>1, <2>2, <2>3
    DEF Next, BeginCreate, AnswerCreate, BeginCancel, AnswerCancel, BeginLookup, GetByID,
        AnswerLookup, BeginList, CountByFilter, GetByFilter, NextPage, AnswerList,
        BeginStatistics, CountTotal, Breakdown, TopResources, AnswerStatistics, Fail, vars,
        Lifecycle!Next
<1> QED
  BY <1>1, <1>2, TypeInvariant, PTL DEF Spec, Lifecycle!Spec
=============================================================================
