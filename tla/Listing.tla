------------------------------- MODULE Listing -------------------------------
(***************************************************************************)
(* GET /containers and GET /files: List of container_svc.go and            *)
(* file_svc.go and FindByUserID of the two repositories, which are the     *)
(* same code on two tables.  A request counts the user's rows and selects  *)
(* one page of them, in two statements outside a transaction; a client     *)
(* walks through the pages with one request after the other, while other   *)
(* requests of the user insert and delete rows.                            *)
(***************************************************************************)
EXTENDS Integers, FiniteSets, Sequences, SequencesExt

CONSTANTS Rows,           \* rows the user's table may come to have
          MaxTime,        \* values of created_at: 1 .. MaxTime
          DefaultLimit,   \* 20 in the code
          MaxLimit,       \* 100 in the code
          MaxInt,         \* the largest int: 2^63 - 1 in the code
          Limits          \* values of the parameter limit

ASSUME BoundAssumption == /\ {MaxTime, DefaultLimit, MaxLimit, MaxInt} \subseteq Nat \ {0}
                          /\ DefaultLimit <= MaxLimit
                          /\ Limits \subseteq Int

VARIABLES created,        \* created_at of each row that is stored, else Absent
          used,           \* rows that have been inserted so far
          list            \* the client's walk through the pages

vars == <<created, used, list>>

Absent == 0
StoredRows == {r \in Rows : created[r] # Absent}

MinInt == -MaxInt - 1

\* Two's complement: what an int holds of the number n.
Wrap(n) == ((n - MinInt) % (2 * (MaxInt + 1))) + MinInt

\* Fields: the request's page and limit after List has corrected them, the total
\* of its COUNT, the rows of its page; of the walk the first page, all the rows it
\* was given, the rows that have been stored since it began and whether rows were
\* inserted or deleted since, or a page was cut from rows with equal created_at;
\* whether the table changed between the two statements, and since the last one.
List == [pc : {"idle", "select", "answered", "refused", "failed"}, page : 1 .. MaxInt,
         limit : 1 .. MaxLimit, total : Nat, data : Seq(Rows), first : 1 .. MaxInt,
         seen : Seq(Rows), stay : SUBSET Rows, grown : BOOLEAN, shrunk : BOOLEAN,
         tied : BOOLEAN, split : BOOLEAN, moved : BOOLEAN]

TypeOK == /\ created \in [Rows -> 0 .. MaxTime]
          /\ used \subseteq Rows
          /\ list \in List

Init == /\ created = [r \in Rows |-> Absent]
        /\ used = {}
        /\ list = [pc |-> "idle", page |-> 1, limit |-> 1, total |-> 0, data |-> <<>>,
                   first |-> 1, seen |-> <<>>, stay |-> {}, grown |-> FALSE,
                   shrunk |-> FALSE, tied |-> FALSE, split |-> FALSE, moved |-> FALSE]

-----------------------------------------------------------------------------
\* Mutant of Page: a page below 1 is passed on.
AnyPage(page) == page

\* Mutant of Limit: no cap.
UncappedLimit(limit) == IF limit < 1 THEN DefaultLimit ELSE limit

\* The corrections of List.
Page(page) == IF page < 1 THEN 1 ELSE page
Limit(limit) == IF limit < 1 THEN DefaultLimit
                ELSE IF limit > MaxLimit THEN MaxLimit ELSE limit

\* Mutant of Offset: pages are counted from 0.
OffsetFromZero(page, limit) == Wrap(page * limit)

Offset(page, limit) == Wrap((page - 1) * limit)

\* Mutant of Orders: the query has no ORDER BY.
AnyOrders == SetToSeqs(StoredRows)

\* Mutant of Orders: ORDER BY created_at, without DESC.
OldestFirst == {s \in SetToSeqs(StoredRows) :
                  \A i, k \in DOMAIN s : i < k => created[s[i]] <= created[s[k]]}

\* ORDER BY created_at DESC: rows of one created_at come in any order, which may
\* be another in the next query.
Orders == {s \in SetToSeqs(StoredRows) :
             \A i, k \in DOMAIN s : i < k => created[s[i]] >= created[s[k]]}

\* No two rows that were stored at once have the same created_at.
Distinct == \A r, q \in StoredRows : created[r] = created[q] => r = q

\* LIMIT limit OFFSET offset
Slice(s, offset, limit) ==
  SubSeq(s, offset + 1, IF offset + limit < Len(s) THEN offset + limit ELSE Len(s))

\* The first statement, SELECT COUNT(*), of a request with the parameters page and
\* limit, in the walk w.  Atoi gives 0 for what is no number and the nearest int for
\* a number out of range; a statement that fails is answered 500.
Count(page, limit, w) ==
  \/ list' = [w EXCEPT !.pc = "select", !.page = Page(page), !.limit = Limit(limit),
                       !.total = Cardinality(StoredRows), !.split = FALSE, !.moved = FALSE]
  \/ list' = [w EXCEPT !.pc = "failed"]

\* A client asks for some page, from which a walk may go on.
Ask(page, limit) ==
  /\ list.pc # "select"
  /\ Count(page, limit, [list EXCEPT !.first = Page(page), !.seen = <<>>, !.stay = StoredRows,
                                     !.grown = FALSE, !.shrunk = FALSE, !.tied = FALSE,
                                     !.data = <<>>])
  /\ UNCHANGED <<created, used>>

\* The walk goes on until a page is not full.
NextPage ==
  /\ list.pc = "answered"
  /\ Len(list.data) = list.limit
  /\ list.page < MaxInt
  /\ Count(list.page + 1, list.limit, list)
  /\ UNCHANGED <<created, used>>

\* The second statement and the answer.  PostgreSQL refuses a negative OFFSET.
Select ==
  LET offset == Offset(list.page, list.limit) IN
  /\ list.pc = "select"
  /\ \/ /\ offset >= 0
        /\ \E s \in Orders :
             LET data == Slice(s, offset, list.limit) IN
             list' = [list EXCEPT !.pc = "answered", !.data = data, !.seen = @ \o data,
                                  !.tied = @ \/ ~Distinct, !.split = list.moved, !.moved = FALSE]
     \/ offset < 0 /\ list' = [list EXCEPT !.pc = "refused"]
     \/ list' = [list EXCEPT !.pc = "failed"]
  /\ UNCHANGED <<created, used>>

Walking == list.pc \in {"select", "answered"}

\* Another request of the user inserts a row.  created_at was taken before the INSERT,
\* so the row need not be the newest.
Insert(r, time) ==
  /\ r \notin used
  /\ used' = used \cup {r}
  /\ created' = [created EXCEPT ![r] = time]
  /\ IF Walking THEN list' = [list EXCEPT !.grown = TRUE, !.moved = TRUE] ELSE UNCHANGED list

Delete(r) ==
  /\ r \in StoredRows
  /\ created' = [created EXCEPT ![r] = Absent]
  /\ IF Walking
     THEN list' = [list EXCEPT !.shrunk = TRUE, !.moved = TRUE, !.stay = @ \ {r}]
     ELSE UNCHANGED list
  /\ UNCHANGED used

Next == \/ \E page \in MinInt .. MaxInt, limit \in Limits : Ask(page, limit)
        \/ NextPage
        \/ Select
        \/ \E r \in Rows : Delete(r) \/ \E time \in 1 .. MaxTime : Insert(r, time)

Spec == Init /\ [][Next]_vars

-----------------------------------------------------------------------------
Exact == (list.page - 1) * list.limit

\* How many of total rows a page has.
RowsOfPage(offset, limit, total) == IF offset >= total THEN 0
                                    ELSE IF offset + limit > total THEN total - offset
                                    ELSE limit

\* The rows that are newer than r, and those that are not older, r among them: r has a
\* place in the list behind the former and within the latter.
Newer(r) == {q \in StoredRows : created[q] > created[r]}
Ahead(r) == {q \in StoredRows : created[q] >= created[r]}

\* What spec/api.md says of the two lists, for any parameters as long as
\* (page - 1) * limit does not overflow: a page has as many rows as it should, none
\* twice and each in its place, the newest first, and one beyond the last row is empty.
\* This holds of the table the SELECT met, also when rows came or went after the COUNT;
\* total is only right when none did.
PageIsRight ==
  Exact <= MaxInt =>
    /\ list.pc # "refused"
    /\ list.pc = "answered" /\ ~list.moved =>
         /\ list.split \/ list.total = Cardinality(StoredRows)
         /\ Len(list.data) = RowsOfPage(Exact, list.limit, Cardinality(StoredRows))
         /\ IsInjective(list.data)
         /\ \A i \in DOMAIN list.data :
              /\ list.data[i] \in StoredRows
              /\ Cardinality(Newer(list.data[i])) < Exact + i
              /\ Exact + i <= Cardinality(Ahead(list.data[i]))

\* A client that reads page after page from the first to one that is not full has seen
\* every row that was there all the time, although rows were inserted meanwhile; when
\* rows were deleted, or share a created_at, it may miss one.
NothingMissed ==
  /\ list.pc = "answered" /\ Len(list.data) < list.limit
  /\ list.first = 1 /\ Exact <= MaxInt
  /\ ~list.shrunk /\ ~list.tied
  => list.stay \subseteq ToSet(list.seen)

\* Such a client is given no row twice, although rows were deleted meanwhile; when rows
\* were inserted, or share a created_at, it may be.
NothingTwice ==
  ~list.grown /\ ~list.tied /\ Exact <= MaxInt => IsInjective(list.seen)
=============================================================================
