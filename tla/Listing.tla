------------------------------ MODULE Listing -------------------------------
(***************************************************************************)
(* Reading stored submissions while others are being stored and deleted.   *)
(* A submission takes its timestamp when it is built and becomes visible   *)
(* when it is committed, in any order.  One reader does one of four things *)
(* with the routes of submission_management.py:                            *)
(*   "cursor"  walks the pages of list_submissions by next_cursor;         *)
(*   "older"   walks them by passing the oldest instant it has seen back   *)
(*             as received_before;                                         *)
(*   "newer"   polls: walks what there is by cursor, then passes the       *)
(*             newest instant it has seen back as received_after;          *)
(*   "export"  exports, which counts the matches in one statement and      *)
(*             reads them in another.                                      *)
(***************************************************************************)
EXTENDS Export

CONSTANTS Submissions,  \* submission identifiers, compared as numbers
          EndpointOf,   \* the endpoint each submission is addressed to
          FieldsOf,     \* the fields each submission carries
          Filters,      \* what callers ask with: an endpoint and two instants
          None,         \* a filter that was not given
          Limit,        \* the page size
          Maximum,      \* export_max_submissions
          MaxClock,     \* bound: the last instant of a behaviour
          MaxRounds     \* bound: how often a reader polls

ASSUME ListingAssumption ==
         /\ Submissions \subseteq Nat \ {0}
         /\ None \notin Nat
         /\ \A f \in Filters :
              /\ f = [endpoint_id |-> f.endpoint_id, received_after |-> f.received_after,
                      received_before |-> f.received_before]
              /\ {f.received_after, f.received_before} \subseteq Nat \cup {None}
         /\ \A s \in Submissions :
              /\ FieldsOf[s] = [i \in 1..Len(FieldsOf[s]) |-> FieldsOf[s][i]]
              /\ Len(FieldsOf[s]) \in Nat
              /\ \A i, j \in 1..Len(FieldsOf[s]) :
                   FieldsOf[s][i].name = FieldsOf[s][j].name => i = j
         /\ Limit \in Nat \ {0}
         /\ Maximum \in Nat \ {0}
         /\ MaxClock \in Nat
         /\ MaxRounds \in Nat

VARIABLES clock,        \* the instant utcnow() returns
          received_at,  \* the timestamp of each submission that was built
          built,        \* the submissions that have been built
          stored,       \* the submissions that are committed
          gone,         \* the submissions that have been deleted
          asked,        \* the kind of the reader and the filters it began with
          reader        \* where the reader is

vars  == <<clock, received_at, built, stored, gone, asked, reader>>
table == <<received_at, built, stored, gone>>

NoCursor == 0

Kinds == {"cursor", "older", "newer", "export"}

Init ==
  /\ clock = 1
  /\ received_at = [s \in Submissions |-> 0]
  /\ built = {}
  /\ stored = {}
  /\ gone = {}
  /\ asked \in [kind : Kinds, filters : Filters]
  /\ reader = [pc |-> "ask", filters |-> asked.filters, cursor |-> NoCursor, round |-> 0,
               seen |-> <<>>, cuts |-> {}, before |-> {}, late |-> {}, missed |-> {}]

-----------------------------------------------------------------------------
(***************************************************************************)
(* Writers.                                                                *)
(***************************************************************************)
Tick ==
  /\ clock < MaxClock
  /\ clock' = clock + 1
  /\ UNCHANGED <<table, asked, reader>>

build_submission(s) ==
  /\ s \notin built
  /\ built' = built \cup {s}
  /\ received_at' = [received_at EXCEPT ![s] = clock]
  /\ UNCHANGED <<clock, stored, gone, asked, reader>>

\* The WHERE clause of _narrowed: both time bounds are exclusive.
Matches(s, filters) ==
  /\ filters.endpoint_id # None => EndpointOf[s] = filters.endpoint_id
  /\ filters.received_after # None => received_at[s] > filters.received_after
  /\ filters.received_before # None => received_at[s] < filters.received_before

\* The poll has already returned a row of this instant or of a later one.
Overtaken(s) == \E t \in Range(reader.seen) : received_at[t] >= received_at[s]

\* Committed too late for the reader: behind its poll, or after its export was counted.
ComesLate(s) ==
  \/ asked.kind = "newer" /\ Overtaken(s)
  \/ reader.pc = "stream" /\ Matches(s, reader.filters)

CommitSubmission(s) ==
  /\ s \in built \ (stored \cup gone)
  /\ stored' = stored \cup {s}
  /\ reader' = IF ComesLate(s) THEN [reader EXCEPT !.late = @ \cup {s}] ELSE reader
  /\ UNCHANGED <<clock, received_at, built, gone, asked>>

DeleteSubmission(s) ==
  /\ s \in stored
  /\ stored' = stored \ {s}
  /\ gone' = gone \cup {s}
  /\ UNCHANGED <<clock, received_at, built, asked, reader>>

-----------------------------------------------------------------------------
(***************************************************************************)
(* Queries.                                                                *)
(***************************************************************************)
\* InvalidTimeRange.
EmptyRange(filters) ==
  /\ filters.received_after # None
  /\ filters.received_before # None
  /\ filters.received_after >= filters.received_before

\* Mutant: an exclusive bound is made exclusive once more.
TwiceExclusive(filters) ==
  {s \in stored :
     /\ filters.endpoint_id # None => EndpointOf[s] = filters.endpoint_id
     /\ filters.received_after # None => received_at[s] > filters.received_after
     /\ filters.received_before # None => received_at[s] < filters.received_before - 1}

narrowed(filters) == {s \in stored : Matches(s, filters)}

\* ORDER BY received_at DESC, id DESC.
Newer(s, t) ==
  \/ received_at[s] > received_at[t]
  \/ received_at[s] = received_at[t] /\ s > t

\* Mutants: a page that starts with its cursor; rows of one instant taken for one row.
AfterOrAt(s, cursor)  == cursor = NoCursor \/ s = cursor \/ Newer(cursor, s)
StrictlyOlder(s, cursor) == cursor = NoCursor \/ received_at[s] < received_at[cursor]

\* The row-value comparison of _page_after.
page_after(s, cursor) == cursor = NoCursor \/ Newer(cursor, s)

FirstRows(rows, limit) ==
  LET sorted == InOrder(rows, {pair \in rows \X rows : Newer(pair[1], pair[2])})
  IN  SubSeq(sorted, 1, IF Len(sorted) < limit THEN Len(sorted) ELSE limit)

next_cursor(page) == IF Len(page) = Limit THEN page[Limit] ELSE NoCursor

-----------------------------------------------------------------------------
(***************************************************************************)
(* The reader.                                                             *)
(***************************************************************************)
\* A request without a cursor.  The routes check the range before they read anything.
\* A walk has begun with its first request; every round of a poll has a first request.
Ask ==
  /\ reader.pc = "ask"
  /\ reader' =
       IF EmptyRange(reader.filters) THEN [reader EXCEPT !.pc = "refused"]
       ELSE [reader EXCEPT
               !.pc = IF asked.kind = "export" THEN "count" ELSE "page",
               !.before = IF reader.seen = <<>> THEN narrowed(reader.filters) ELSE @]
  /\ UNCHANGED <<clock, table, asked>>

\* A request with a cursor resolves it in a statement before the page's own.
ResolveCursor ==
  /\ reader.pc = "cursor"
  /\ reader' = [reader EXCEPT !.pc = IF reader.cursor \in stored THEN "page" ELSE "invalid"]
  /\ UNCHANGED <<clock, table, asked>>

PageNow == FirstRows({s \in narrowed(reader.filters) : page_after(s, reader.cursor)}, Limit)

\* A page that is not full is the last.
list_submissions ==
  LET page == PageNow
      next == next_cursor(page)
  IN
  /\ reader.pc = "page"
  /\ asked.kind # "older"
  /\ reader' = [reader EXCEPT !.pc = IF next = NoCursor THEN "end" ELSE "cursor",
                              !.cursor = next, !.seen = @ \o page]
  /\ UNCHANGED <<clock, table, asked>>

\* The caller continues below the oldest instant of a full page.
ContinueBelow ==
  LET page == PageNow
      next == next_cursor(page)
  IN
  /\ reader.pc = "page"
  /\ asked.kind = "older"
  /\ reader' = IF next = NoCursor
               THEN [reader EXCEPT !.pc = "end", !.seen = @ \o page]
               ELSE [reader EXCEPT !.pc = "ask", !.seen = @ \o page,
                                   !.filters.received_before = received_at[next],
                                   !.cuts = @ \cup {received_at[next]}]
  /\ UNCHANGED <<clock, table, asked>>

NewestSeen == CHOOSE n \in {received_at[s] : s \in Range(reader.seen)} :
                \A s \in Range(reader.seen) : received_at[s] <= n

\* The caller asks for what came after the newest instant it has seen.
PollAgain ==
  /\ reader.pc = "end"
  /\ asked.kind = "newer"
  /\ reader.seen # <<>>
  /\ reader.round < MaxRounds
  /\ reader' = [reader EXCEPT !.pc = "ask", !.round = @ + 1, !.cursor = NoCursor,
                              !.filters.received_after = NewestSeen]
  /\ UNCHANGED <<clock, table, asked>>

\* Mutant: one more than the maximum is let through.
TooManyByOne(matches) == Cardinality(matches) > Maximum + 1

\* ExportTooLarge: more match than an export may return.
TooMany(matches) == Cardinality(matches) > Maximum

count_submissions ==
  /\ reader.pc = "count"
  /\ reader' = [reader EXCEPT !.pc = IF TooMany(narrowed(reader.filters))
                                     THEN "too_large" ELSE "stream"]
  /\ UNCHANGED <<clock, table, asked>>

stream_submissions ==
  LET matches == narrowed(reader.filters)
      rows    == FirstRows(matches, Maximum)
  IN
  /\ reader.pc = "stream"
  /\ reader' = [reader EXCEPT !.pc = "end", !.seen = rows, !.missed = matches \ Range(rows)]
  /\ UNCHANGED <<clock, table, asked>>

Next ==
  \/ Tick
  \/ \E s \in Submissions : build_submission(s) \/ CommitSubmission(s) \/ DeleteSubmission(s)
  \/ Ask
  \/ ResolveCursor
  \/ list_submissions
  \/ ContinueBelow
  \/ PollAgain
  \/ count_submissions
  \/ stream_submissions

Spec == Init /\ [][Next]_vars

-----------------------------------------------------------------------------
(***************************************************************************)
(* Properties.                                                             *)
(***************************************************************************)

\* Every page continues strictly below the last one: across a whole walk, by cursor or
\* by time, nothing is out of order and nothing is returned twice, whatever is stored or
\* deleted between two pages (_page_after, _narrowed).
WalkOrdered ==
  asked.kind \in {"cursor", "older"} =>
    \A i, j \in DOMAIN reader.seen : i < j => Newer(reader.seen[i], reader.seen[j])

\* A walk by cursor that reaches its end has returned every matching submission that was
\* there when it began and is still there, ties within one instant included.
WalkComplete ==
  asked.kind = "cursor" /\ reader.pc = "end" =>
    reader.before \cap stored \subseteq Range(reader.seen)

\* The walk the guide calls safe, by received_before, loses only rows that share their
\* instant with the last row of a full page (the bounds are exclusive and have no
\* tie-break; docs/guides/submission-management.md).
TimeWalkMissesOnlyTies ==
  asked.kind = "older" /\ reader.pc = "end" =>
    \A s \in reader.before \cap stored :
      s \in Range(reader.seen) \/ received_at[s] \in reader.cuts

\* A poll by received_after loses only submissions that were committed after it had
\* returned a row of the same or of a later instant: timestamps are taken before the
\* commit, and the bound is exclusive (build_submission, _narrowed).
PollMissesOnlyLate ==
  asked.kind = "newer" /\ reader.pc = "end" /\ reader.seen # <<>> =>
    \A s \in narrowed(asked.filters) :
      received_at[s] <= NewestSeen => s \in Range(reader.seen) \cup reader.late

Exported ==
  [i \in DOMAIN reader.seen |->
     [id |-> reader.seen[i], endpoint_id |-> EndpointOf[reader.seen[i]],
      received_at |-> received_at[reader.seen[i]], fields |-> FieldsOf[reader.seen[i]]]]

\* Reading a CSV export back by its headers, as the guide does, gives every field of every
\* submission the values it was stored with, and gives no submission a field it did not
\* carry, whatever order the rows came in, unless two columns have one header: a field
\* named like a metadata column, or one name that is another with its marker
\* (csv_document, _field_names, _row, _safe).
CsvReadsBack ==
  asked.kind = "export" /\ reader.pc = "end" =>
    LET document == csv_document(Exported) IN
    \A line \in DOMAIN Exported :
      LET row == Exported[line] IN
      /\ \A i \in DOMAIN row.fields :
           LET header == safe(row.fields[i].name) IN
           /\ Columns(document, header) # {}
           /\ Alone(document, header) =>
                Cell(document, line, header) = Json(row.fields[i].values)
      /\ \A i \in (DOMAIN document.header) \ (1..3) :
           LET header == document.header[i] IN
           Alone(document, header) /\ header \notin {safe(name) : name \in Range(NamesOf(row))} =>
             Cell(document, line, header) = Empty
      /\ Alone(document, METADATA_COLUMNS[1]) => Cell(document, line, METADATA_COLUMNS[1]) = row.id

\* An export leaves out no more submissions than were committed between its count and its
\* read, whatever was deleted meanwhile, and only ones older than everything in it
\* (export_submissions, stream_submissions).
ExportLosesOnlyToLate ==
  asked.kind = "export" /\ reader.pc = "end" =>
    /\ Cardinality(reader.missed) <= Cardinality(reader.late)
    /\ \A s \in reader.missed : \A t \in Range(reader.seen) : Newer(t, s)

\* config.export_max_submissions: "A filter matching more than this is refused rather
\* than silently truncated, so an export is either complete or an error".
ExportComplete == asked.kind = "export" /\ reader.pc = "end" => reader.missed = {}

=============================================================================
