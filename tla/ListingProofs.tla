--------------------------- MODULE ListingProofs ----------------------------
(***************************************************************************)
(* Proofs about Listing: what the pages of a walk have in common with the  *)
(* table they are read from, however it changes between two of them, and   *)
(* that a CSV export can be read back.                                     *)
(***************************************************************************)
EXTENDS Listing, SubsequencesProofs

\* What a reader asks with, and where it is.
FilterType ==
  [endpoint_id : {f.endpoint_id : f \in Filters},
   received_after : Nat \cup {None}, received_before : Nat \cup {None}]

ReaderType ==
  [pc : {"ask", "page", "cursor", "count", "stream", "end", "refused", "invalid", "too_large"},
   filters : FilterType, cursor : Submissions \cup {NoCursor}, round : Nat,
   seen : Seq(Submissions), cuts : SUBSET Nat, before : SUBSET Submissions,
   late : SUBSET Submissions, missed : SUBSET Submissions]

\* What is stored, was deleted or was returned has been built, so its instant is fixed.
Types ==
  /\ clock \in Nat
  /\ received_at \in [Submissions -> Nat]
  /\ built \in SUBSET Submissions /\ IsFiniteSet(built)
  /\ stored \subseteq built
  /\ gone \subseteq built
  /\ asked \in [kind : Kinds, filters : Filters]
  /\ reader \in ReaderType
  /\ Range(reader.seen) \subseteq built
  /\ reader.cursor # NoCursor => reader.cursor \in built
  /\ reader.before \subseteq stored \cup gone
  /\ reader.pc \in {"count", "stream"} => asked.kind = "export"

\* The last row seen, and a row seen that none is newer than.
Last == reader.seen[Len(reader.seen)]

Newest(i) ==
  /\ i \in DOMAIN reader.seen
  /\ \A j \in DOMAIN reader.seen : received_at[reader.seen[j]] <= received_at[reader.seen[i]]

\* A walk by cursor asks once, keeps its filters and continues at the last row it saw.
CursorIsLast ==
  asked.kind = "cursor" =>
    /\ reader.filters = asked.filters
    /\ reader.pc = "ask" => reader.seen = <<>>
    /\ reader.pc \in {"ask", "page", "cursor"} =>
         reader.cursor = IF reader.seen = <<>> THEN NoCursor ELSE Last

\* What was there when it began and has not been seen comes after its cursor.
CursorRest ==
  asked.kind = "cursor" =>
    /\ \A s \in reader.before : Matches(s, reader.filters)
    /\ reader.pc \in {"page", "cursor"} =>
         \A s \in reader.before \cap stored :
           s \in Range(reader.seen) \/ page_after(s, reader.cursor)

\* A walk by time has no cursor and asks for what is older than the last row it saw.
BoundIsLast ==
  asked.kind = "older" =>
    /\ reader.cursor = NoCursor
    /\ reader.pc # "cursor"
    /\ reader.pc \in {"ask", "page"} /\ reader.seen # <<>> =>
         reader.filters.received_before = received_at[Last]

\* What was there when it began and has not been seen matches, or was cut off by a bound.
OlderRest ==
  asked.kind = "older" /\ reader.pc \in {"ask", "page"} =>
    \A s \in reader.before \cap stored :
      \/ s \in Range(reader.seen)
      \/ received_at[s] \in reader.cuts
      \/ Matches(s, reader.filters)

\* A poll narrows the filters it began with by the newest instant it saw.
PollBound ==
  asked.kind = "newer" =>
    /\ reader.filters.endpoint_id = asked.filters.endpoint_id
    /\ reader.filters.received_before = asked.filters.received_before
    /\ reader.seen # <<>> => \E i \in DOMAIN reader.seen : Newest(i)
    /\ reader.pc = "ask" => reader.cursor = NoCursor
    /\ reader.cursor # NoCursor => reader.cursor \in Range(reader.seen)
    /\ reader.pc \in {"ask", "page"} /\ reader.cursor = NoCursor =>
         IF reader.seen = <<>> THEN reader.filters = asked.filters
         ELSE \E i \in DOMAIN reader.seen :
                Newest(i) /\ reader.filters.received_after = received_at[reader.seen[i]]

\* What it has passed it returned, or it came late, or it is still to come in this round.
PollRest ==
  asked.kind = "newer" /\ reader.pc \in {"ask", "page", "cursor", "end"} =>
    \A s \in narrowed(asked.filters) :
      Overtaken(s) =>
        \/ s \in Range(reader.seen) \cup reader.late
        \/ /\ reader.pc # "end"
           /\ Matches(s, reader.filters)
           /\ page_after(s, reader.cursor)

\* The invariant: walks are in order and complete, and what each relies on for that.
ReadInv ==
  /\ Types
  /\ WalkOrdered
  /\ CursorIsLast
  /\ CursorRest
  /\ WalkComplete
  /\ BoundIsLast
  /\ OlderRest
  /\ TimeWalkMissesOnlyTies
  /\ PollBound
  /\ PollRest

-----------------------------------------------------------------------------
(***************************************************************************)
(* Pages.                                                                  *)
(***************************************************************************)

\* Newer than a newer one is newer.
LEMMA NewerTransitive ==
  ASSUME received_at \in [Submissions -> Nat],
         NEW s \in Submissions, NEW t \in Submissions, NEW u \in Submissions,
         Newer(s, t), Newer(t, u)
  PROVE  Newer(s, u)
  <1>1. /\ s \in Nat /\ t \in Nat /\ u \in Nat
        /\ received_at[s] \in Nat /\ received_at[t] \in Nat /\ received_at[u] \in Nat
    BY ListingAssumption
  <1> QED
    BY <1>1 DEF Newer

\* ORDER BY received_at DESC, id DESC is a total order.
LEMMA NewerOrders ==
  ASSUME received_at \in [Submissions -> Nat], NEW rows \in SUBSET Submissions
  PROVE  Orders(rows, {pair \in rows \X rows : Newer(pair[1], pair[2])})
  <1> DEFINE before == {pair \in rows \X rows : Newer(pair[1], pair[2])}
  <1>1. \A s, t \in rows : <<s, t>> \in before <=> Newer(s, t)
    OBVIOUS
  <1>2. \A s \in rows : s \in Nat /\ received_at[s] \in Nat
    BY ListingAssumption
  <1>3. \A s \in rows : ~Newer(s, s)
    BY <1>2 DEF Newer
  <1>4. \A s, t \in rows : s # t => Newer(s, t) \/ Newer(t, s)
    BY <1>2 DEF Newer
  <1>5. \A s, t, u \in rows : Newer(s, t) /\ Newer(t, u) => Newer(s, u)
    BY NewerTransitive
  <1> HIDE DEF before
  <1>6. Orders(rows, before)
    BY <1>1, <1>3, <1>4, <1>5 DEF Orders
  <1> QED
    BY <1>6 DEF before

\* A page is the newest rows in order: all of them, or as many as the limit allows, and
\* then every other row is older than its last.
LEMMA FirstRowsAreNewest ==
  ASSUME received_at \in [Submissions -> Nat], NEW rows \in SUBSET Submissions,
         IsFiniteSet(rows), NEW limit \in Nat \ {0}
  PROVE  /\ FirstRows(rows, limit) \in Seq(rows)
         /\ \A i, j \in DOMAIN FirstRows(rows, limit) :
              i < j => Newer(FirstRows(rows, limit)[i], FirstRows(rows, limit)[j])
         /\ Len(FirstRows(rows, limit)) # limit =>
              \A s \in rows : s \in Range(FirstRows(rows, limit))
         /\ Len(FirstRows(rows, limit)) = limit =>
              \A s \in rows : \/ s \in Range(FirstRows(rows, limit))
                              \/ Newer(FirstRows(rows, limit)[limit], s)
  <1> DEFINE before == {pair \in rows \X rows : Newer(pair[1], pair[2])}
             sorted == InOrder(rows, before)
             n      == Cardinality(rows)
             m      == IF n < limit THEN n ELSE limit
             page   == FirstRows(rows, limit)
  <1>1. Orders(rows, before)
    BY NewerOrders
  <1>2. /\ n \in Nat
        /\ sorted \in [1..n -> rows]
        /\ \A s \in rows : \E k \in 1..n : sorted[k] = s
        /\ \A j, k \in 1..n : j < k => <<sorted[j], sorted[k]>> \in before
    BY <1>1, InOrderSorts
  <1>3. \A j, k \in 1..n : j < k => Newer(sorted[j], sorted[k])
    BY <1>2
  <1>4. sorted \in Seq(rows) /\ Len(sorted) = n
    <2> HIDE DEF sorted
    <2> QED
      BY <1>2
  <1>5. page = SubSeq(sorted, 1, m)
    BY <1>4 DEF FirstRows
  <1>6. m \in Nat /\ m <= n /\ m <= limit /\ (m = n \/ m = limit)
    BY <1>2
  <1>7. page \in Seq(rows) /\ Len(page) = m /\ \A k \in 1..m : page[k] = sorted[k]
    <2> HIDE DEF sorted, m, page
    <2> QED
      BY <1>4, <1>5, <1>6, <1>2
  <1>8. DOMAIN page = 1..m
    <2> HIDE DEF page, m
    <2> QED
      BY <1>7
  <1> HIDE DEF sorted, m, page, n, before
  <1>9. \A i, j \in DOMAIN page : i < j => Newer(page[i], page[j])
    BY <1>3, <1>6, <1>7, <1>8, <1>2
  <1>10. ASSUME NEW s \in rows, s \notin Range(page)
         PROVE  m = limit /\ Newer(page[limit], s)
    <2>1. PICK k \in 1..n : sorted[k] = s
      BY <1>2
    <2>2. k \notin 1..m
      BY <2>1, <1>7, <1>8, <1>10 DEF Range
    <2>3. m < k /\ m = limit
      BY <2>2, <1>2, <1>6
    <2>4. limit \in 1..n /\ limit \in 1..m /\ limit < k
      BY <2>3, <1>2, <1>6
    <2>5. Newer(sorted[limit], sorted[k])
      BY <2>4, <1>3
    <2> QED
      BY <2>1, <2>3, <2>4, <2>5, <1>7
  <1>11. Len(page) # limit => \A s \in rows : s \in Range(page)
    BY <1>7, <1>10
  <1>12. Len(page) = limit => \A s \in rows : s \in Range(page) \/ Newer(page[limit], s)
    BY <1>10
  <1> QED
    BY <1>7, <1>9, <1>11, <1>12 DEF page

\* What is left of a walk from where its reader is.
Ahead(s) == Matches(s, reader.filters) /\ page_after(s, reader.cursor)

\* The page that comes next is the newest of it, and nothing of it is left after a page
\* that is not full.
LEMMA PageIsNewestAhead ==
  ASSUME Types
  PROVE  /\ PageNow \in Seq(Submissions)
         /\ \A i \in DOMAIN PageNow : PageNow[i] \in stored /\ Ahead(PageNow[i])
         /\ \A i, j \in DOMAIN PageNow : i < j => Newer(PageNow[i], PageNow[j])
         /\ next_cursor(PageNow) = NoCursor =>
              \A s \in stored : Ahead(s) => s \in Range(PageNow)
         /\ next_cursor(PageNow) # NoCursor =>
              /\ PageNow # <<>>
              /\ next_cursor(PageNow) = PageNow[Len(PageNow)]
              /\ next_cursor(PageNow) \in Submissions
              /\ \A s \in stored :
                   Ahead(s) => s \in Range(PageNow) \/ Newer(next_cursor(PageNow), s)
  <1> DEFINE rows == {s \in narrowed(reader.filters) : page_after(s, reader.cursor)}
             page == FirstRows(rows, Limit)
  <1>0. \A s : s \in rows <=> s \in stored /\ Ahead(s)
    BY DEF narrowed, Matches, Ahead
  <1>1. rows \in SUBSET built /\ IsFiniteSet(built) /\ built \in SUBSET Submissions
    BY <1>0 DEF Types
  <1>2. IsFiniteSet(rows) /\ rows \in SUBSET Submissions
    <2> HIDE DEF rows
    <2> QED
      BY <1>1, FS_Subset
  <1>3. received_at \in [Submissions -> Nat] /\ Limit \in Nat \ {0}
    BY ListingAssumption DEF Types
  <1>4. /\ page \in Seq(rows)
        /\ \A i, j \in DOMAIN page : i < j => Newer(page[i], page[j])
        /\ Len(page) # Limit => \A s \in rows : s \in Range(page)
        /\ Len(page) = Limit => \A s \in rows : s \in Range(page) \/ Newer(page[Limit], s)
    <2> HIDE DEF rows
    <2> QED
      BY <1>2, <1>3, FirstRowsAreNewest
  <1>5. PageNow = page
    BY DEF PageNow
  <1> HIDE DEF page, rows
  <1>6. page \in Seq(Submissions) /\ \A i \in DOMAIN page : page[i] \in rows
    BY <1>2, <1>4
  <1>7. Len(page) = Limit => page # <<>> /\ page[Limit] \in Submissions /\ page[Limit] # NoCursor
    BY <1>3, <1>6, ListingAssumption DEF NoCursor
  <1>8. /\ next_cursor(page) = NoCursor <=> Len(page) # Limit
        /\ next_cursor(page) # NoCursor => next_cursor(page) = page[Limit]
    BY <1>7 DEF next_cursor
  <1> QED
    BY <1>0, <1>4, <1>5, <1>6, <1>7, <1>8

\* Appending a page.
LEMMA Appended ==
  ASSUME NEW seen \in Seq(Submissions), NEW page \in Seq(Submissions)
  PROVE  /\ seen \o page \in Seq(Submissions)
         /\ Range(seen \o page) = Range(seen) \cup Range(page)
         /\ page # <<>> => /\ seen \o page # <<>>
                           /\ (seen \o page)[Len(seen \o page)] = page[Len(page)]
         /\ Len(seen \o page) = Len(seen) + Len(page)
         /\ DOMAIN (seen \o page) = 1..(Len(seen) + Len(page))
         /\ \A i \in DOMAIN seen : i \in DOMAIN (seen \o page) /\ (seen \o page)[i] = seen[i]
         /\ \A i \in DOMAIN page :
              /\ i + Len(seen) \in DOMAIN (seen \o page)
              /\ (seen \o page)[i + Len(seen)] = page[i]
         /\ \A i \in DOMAIN (seen \o page) :
              \/ i \in DOMAIN seen
              \/ i - Len(seen) \in DOMAIN page /\ (seen \o page)[i] = page[i - Len(seen)]
  <1> DEFINE all == seen \o page
  <1>1. /\ all \in Seq(Submissions) /\ Len(all) = Len(seen) + Len(page)
        /\ DOMAIN all = 1..(Len(seen) + Len(page))
        /\ DOMAIN seen = 1..Len(seen) /\ DOMAIN page = 1..Len(page)
        /\ Len(seen) \in Nat /\ Len(page) \in Nat
    OBVIOUS
  <1>2. \A i \in DOMAIN seen : i \in DOMAIN all /\ all[i] = seen[i]
    OBVIOUS
  <1>3. \A i \in DOMAIN page : i + Len(seen) \in DOMAIN all /\ all[i + Len(seen)] = page[i]
    OBVIOUS
  <1>4. \A i \in DOMAIN all :
          i \in DOMAIN seen \/ (i - Len(seen) \in DOMAIN page /\ all[i] = page[i - Len(seen)])
    OBVIOUS
  <1> HIDE DEF all
  <1>5. Range(all) = Range(seen) \cup Range(page)
    <2>1. ASSUME NEW x \in Range(all) PROVE x \in Range(seen) \cup Range(page)
      BY <1>2, <1>4 DEF Range
    <2>2. ASSUME NEW x \in Range(seen) PROVE x \in Range(all)
      BY <1>2 DEF Range
    <2>3. ASSUME NEW x \in Range(page) PROVE x \in Range(all)
      BY <1>3 DEF Range
    <2> QED
      BY <2>1, <2>2, <2>3
  <1>6. page # <<>> => all # <<>> /\ all[Len(all)] = page[Len(page)]
    <2>1. page # <<>> => Len(page) > 0
      OBVIOUS
    <2>2. page # <<>> => Len(page) \in DOMAIN page
      BY <1>1, <2>1
    <2>3. Len(page) + Len(seen) = Len(all)
      BY <1>1
    <2> QED
      BY <1>1, <1>3, <2>1, <2>2, <2>3
  <1> QED
    BY <1>1, <1>2, <1>3, <1>4, <1>5, <1>6 DEF all

-----------------------------------------------------------------------------
(***************************************************************************)
(* The writers.  None of them moves an instant that was taken, brings back *)
(* a row that was deleted, or stores a row a poll has passed unnoticed.    *)
(***************************************************************************)

\* A step of that kind keeps everything the reader relies on.
LEMMA WritersKeepReads ==
  ASSUME ReadInv, Types', asked' = asked,
         \A t \in built : received_at'[t] = received_at[t],
         reader' = [reader EXCEPT !.late = reader'.late],
         reader.late \subseteq reader'.late,
         reader.before \cap stored' \subseteq stored,
         stored' \subseteq built,
         asked.kind = "newer" => \A s \in stored' \ stored : Overtaken(s)' => s \in reader'.late
  PROVE  ReadInv'
  <1>1. /\ reader'.pc = reader.pc /\ reader'.filters = reader.filters
        /\ reader'.cursor = reader.cursor /\ reader'.seen = reader.seen
        /\ reader'.cuts = reader.cuts /\ reader'.before = reader.before
    BY DEF ReadInv, Types, ReaderType
  <1>2. /\ Range(reader.seen) \subseteq built /\ reader.before \subseteq built
        /\ \A i \in DOMAIN reader.seen : reader.seen[i] \in built
        /\ reader.seen \in Seq(Submissions)
        /\ reader.cursor # NoCursor => reader.cursor \in built
    BY DEF ReadInv, Types, ReaderType, Range
  <1>3. reader.seen # <<>> => Len(reader.seen) \in DOMAIN reader.seen
    BY <1>2
  <1>4. \A s, t \in built : Newer(s, t)' <=> Newer(s, t)
    BY DEF Newer
  <1>5. \A s \in built : \A f : Matches(s, f)' <=> Matches(s, f)
    BY DEF Matches
  <1>6. \A s \in built : page_after(s, reader.cursor)' <=> page_after(s, reader.cursor)
    BY <1>1, <1>2, <1>4 DEF page_after
  <1>7. \A s \in built : Overtaken(s)' <=> Overtaken(s)
    BY <1>1, <1>2 DEF Overtaken
  <1>8. \A i \in DOMAIN reader.seen : received_at'[reader.seen[i]] = received_at[reader.seen[i]]
    BY <1>2
  <1>9. WalkOrdered'
    BY <1>1, <1>2, <1>4 DEF ReadInv, WalkOrdered
  <1>10. CursorIsLast'
    BY <1>1 DEF ReadInv, CursorIsLast, Last
  <1>11. CursorRest'
    BY <1>1, <1>2, <1>5, <1>6 DEF ReadInv, CursorRest
  <1>12. WalkComplete'
    BY <1>1 DEF ReadInv, WalkComplete
  <1>13. BoundIsLast'
    BY <1>1, <1>3, <1>8 DEF ReadInv, BoundIsLast, Last
  <1>14. OlderRest'
    BY <1>1, <1>2, <1>5 DEF ReadInv, OlderRest
  <1>15. TimeWalkMissesOnlyTies'
    BY <1>1, <1>2 DEF ReadInv, TimeWalkMissesOnlyTies
  <1>16. \A i \in DOMAIN reader.seen : Newest(i)' <=> Newest(i)
    BY <1>1, <1>8 DEF Newest
  <1>17. PollBound'
    BY <1>1, <1>8, <1>16 DEF ReadInv, PollBound
  <1>18. PollRest'
    <2> SUFFICES ASSUME asked.kind = "newer", reader.pc \in {"ask", "page", "cursor", "end"},
                        NEW s \in stored', Matches(s, asked.filters), Overtaken(s)
                 PROVE  \/ s \in Range(reader.seen) \cup reader'.late
                        \/ /\ reader.pc # "end"
                           /\ Matches(s, reader.filters)
                           /\ page_after(s, reader.cursor)
      BY <1>1, <1>5, <1>6, <1>7 DEF PollRest, narrowed, Matches
    <2>1. CASE s \in stored
      <3>1. s \in narrowed(asked.filters)
        BY <2>1 DEF narrowed, Matches
      <3> QED
        BY <3>1 DEF ReadInv, PollRest
    <2>2. CASE s \notin stored
      BY <2>2, <1>7
    <2> QED
      BY <2>1, <2>2
  <1> QED
    BY <1>9, <1>10, <1>11, <1>12, <1>13, <1>14, <1>15, <1>17, <1>18 DEF ReadInv

\* Time passes without touching the table.
LEMMA TickKeeps == ReadInv /\ Tick => ReadInv'
  <1> SUFFICES ASSUME ReadInv, Tick PROVE ReadInv'
    OBVIOUS
  <1>1. Types'
    BY DEF ReadInv, Types, Tick, table
  <1> QED
    BY <1>1, WritersKeepReads DEF ReadInv, Types, ReaderType, Tick, table

\* A submission that is being built takes an instant nobody has read.
LEMMA BuildKeeps ==
  ASSUME ReadInv, NEW s \in Submissions, build_submission(s)
  PROVE  ReadInv'
  <1>1. Types'
    <2>1. IsFiniteSet(built')
      BY FS_AddElement DEF ReadInv, Types, build_submission
    <2>2. received_at' \in [Submissions -> Nat]
      BY DEF ReadInv, Types, build_submission
    <2> QED
      BY <2>1, <2>2 DEF ReadInv, Types, build_submission
  <1>2. \A t \in built : received_at'[t] = received_at[t]
    BY DEF ReadInv, Types, build_submission
  <1>3. reader' = reader /\ asked' = asked /\ stored' = stored /\ stored \subseteq built
    BY DEF ReadInv, Types, build_submission
  <1>4. reader' = [reader EXCEPT !.late = reader'.late]
    BY <1>3 DEF ReadInv, Types, ReaderType
  <1> QED
    BY <1>1, <1>2, <1>3, <1>4, WritersKeepReads

\* A commit behind a poll makes the submission late; no walk had counted on it.
LEMMA CommitKeeps ==
  ASSUME ReadInv, NEW s \in Submissions, CommitSubmission(s)
  PROVE  ReadInv'
  <1>1. /\ reader' = [reader EXCEPT !.late = reader'.late]
        /\ reader'.late = IF ComesLate(s) THEN reader.late \cup {s} ELSE reader.late
    BY DEF ReadInv, Types, ReaderType, CommitSubmission
  <1>2. /\ s \in built /\ s \notin stored \cup gone /\ stored' = stored \cup {s}
        /\ UNCHANGED <<clock, received_at, built, gone, asked>>
    BY DEF CommitSubmission
  <1>3. Types'
    <2>1. reader' \in ReaderType
      <3>1. reader \in ReaderType /\ [reader EXCEPT !.late = reader.late \cup {s}] \in ReaderType
        BY DEF ReadInv, Types, ReaderType
      <3>2. reader' = reader \/ reader' = [reader EXCEPT !.late = reader.late \cup {s}]
        BY DEF CommitSubmission
      <3> QED
        BY <3>1, <3>2
    <2>2. reader'.seen = reader.seen /\ reader'.cursor = reader.cursor
          /\ reader'.before = reader.before /\ reader'.pc = reader.pc
      BY <1>1 DEF ReadInv, Types, ReaderType
    <2> QED
      BY <1>2, <2>1, <2>2 DEF ReadInv, Types
  <1>4. \A t : Overtaken(t)' <=> Overtaken(t)
    BY <1>1, <1>2 DEF ReadInv, Types, ReaderType, Overtaken
  <1>5. reader.before \cap stored' \subseteq stored /\ stored' \subseteq built
    BY <1>2 DEF ReadInv, Types
  <1>6. asked.kind = "newer" /\ Overtaken(s)' => s \in reader'.late
    BY <1>1, <1>4 DEF ComesLate
  <1> QED
    BY <1>1, <1>2, <1>3, <1>5, <1>6, WritersKeepReads

\* A deletion takes from what a walk still owes.
LEMMA DeleteKeeps ==
  ASSUME ReadInv, NEW s \in Submissions, DeleteSubmission(s)
  PROVE  ReadInv'
  <1>1. Types'
    BY DEF ReadInv, Types, DeleteSubmission
  <1>2. reader' = [reader EXCEPT !.late = reader'.late]
    BY DEF ReadInv, Types, ReaderType, DeleteSubmission
  <1> QED
    BY <1>1, <1>2, WritersKeepReads DEF ReadInv, Types, DeleteSubmission

-----------------------------------------------------------------------------
(***************************************************************************)
(* The reader.  The table does not change while one of its statements      *)
(* runs.                                                                   *)
(***************************************************************************)
\* So what a query asks means the same after a statement as before it.
LEMMA SameTable ==
  ASSUME UNCHANGED table
  PROVE  /\ \A s, t : Newer(s, t)' <=> Newer(s, t)
         /\ \A s, f : Matches(s, f)' <=> Matches(s, f)
         /\ \A f : narrowed(f)' = narrowed(f)
         /\ \A s, c : page_after(s, c)' <=> page_after(s, c)
  BY DEF table, Newer, Matches, narrowed, page_after

\* The first request of a walk fixes what it owes; nothing is behind it yet.
LEMMA AskKeeps == ReadInv /\ Ask => ReadInv'
  <1> SUFFICES ASSUME ReadInv, Ask PROVE ReadInv'
    OBVIOUS
  <1> DEFINE there == IF reader.seen = <<>> THEN narrowed(reader.filters) ELSE reader.before
  <1>1. /\ reader.pc = "ask" /\ UNCHANGED <<clock, table, asked>>
        /\ UNCHANGED <<received_at, built, stored, gone>>
    BY DEF Ask, table
  <1>2. /\ reader'.filters = reader.filters /\ reader'.cursor = reader.cursor
        /\ reader'.seen = reader.seen /\ reader'.cuts = reader.cuts /\ reader'.late = reader.late
        /\ \/ reader'.pc = "refused" /\ reader'.before = reader.before
           \/ /\ reader'.pc = IF asked.kind = "export" THEN "count" ELSE "page"
              /\ reader'.before = there
    BY DEF ReadInv, Types, ReaderType, Ask
  <1>3. \A s : s \in narrowed(reader.filters) <=> s \in stored /\ Matches(s, reader.filters)
    BY DEF narrowed, Matches
  <1>4. Types'
    <2>1. there \subseteq stored \cup gone /\ there \subseteq Submissions
      BY <1>3 DEF ReadInv, Types, ReaderType
    <2>2. reader' \in ReaderType
      <3> HIDE DEF there
      <3>1. reader' = [reader EXCEPT !.pc = "refused"]
            \/ reader' = [reader EXCEPT !.pc = IF asked.kind = "export" THEN "count" ELSE "page",
                                        !.before = there]
        BY DEF Ask, there
      <3>2. [reader EXCEPT !.pc = "refused"] \in ReaderType
        BY DEF ReadInv, Types, ReaderType
      <3>3. [reader EXCEPT !.pc = IF asked.kind = "export" THEN "count" ELSE "page",
                           !.before = there] \in ReaderType
        BY <2>1 DEF ReadInv, Types, ReaderType
      <3> QED
        BY <3>1, <3>2, <3>3
    <2> HIDE DEF there
    <2> QED
      BY <1>1, <1>2, <2>1, <2>2 DEF ReadInv, Types
  <1>5. WalkOrdered'
    BY <1>1, <1>2, SameTable DEF ReadInv, WalkOrdered
  <1>6. CursorIsLast'
    BY <1>1, <1>2 DEF ReadInv, CursorIsLast, Last
  <1>7. CursorRest'
    BY <1>1, <1>2, <1>3, SameTable DEF ReadInv, CursorRest, CursorIsLast, page_after
  <1>8. WalkComplete' /\ TimeWalkMissesOnlyTies'
    BY <1>1, <1>2 DEF WalkComplete, TimeWalkMissesOnlyTies
  <1>9. BoundIsLast'
    BY <1>1, <1>2 DEF ReadInv, BoundIsLast, Last
  <1>10. OlderRest'
    BY <1>1, <1>2, <1>3, SameTable DEF ReadInv, OlderRest
  <1>11. PollBound'
    BY <1>1, <1>2 DEF ReadInv, PollBound, Newest
  <1>12. PollRest'
    BY <1>1, <1>2, SameTable DEF ReadInv, PollRest, Overtaken
  <1> QED
    BY <1>4, <1>5, <1>6, <1>7, <1>8, <1>9, <1>10, <1>11, <1>12 DEF ReadInv

\* Resolving a cursor changes nothing but where the reader is.
LEMMA ResolveKeeps == ReadInv /\ ResolveCursor => ReadInv'
  <1> SUFFICES ASSUME ReadInv, ResolveCursor PROVE ReadInv'
    OBVIOUS
  <1>1. /\ reader.pc = "cursor" /\ UNCHANGED <<clock, table, asked>>
        /\ UNCHANGED <<received_at, built, stored, gone>>
    BY DEF ResolveCursor, table
  <1>2. /\ reader'.filters = reader.filters /\ reader'.cursor = reader.cursor
        /\ reader'.seen = reader.seen /\ reader'.cuts = reader.cuts /\ reader'.late = reader.late
        /\ reader'.before = reader.before
        /\ reader'.pc = "invalid" \/ (reader'.pc = "page" /\ reader.cursor \in stored)
    BY DEF ReadInv, Types, ReaderType, ResolveCursor
  <1>3. reader.cursor \in stored => reader.cursor # NoCursor
    BY ListingAssumption DEF ReadInv, Types, NoCursor
  <1>4. Types'
    <2>1. reader' \in ReaderType
      BY DEF ReadInv, Types, ReaderType, ResolveCursor
    <2> QED
      BY <1>1, <1>2, <2>1 DEF ReadInv, Types
  <1>5. WalkOrdered'
    BY <1>1, <1>2, SameTable DEF ReadInv, WalkOrdered
  <1>6. CursorIsLast'
    BY <1>1, <1>2 DEF ReadInv, CursorIsLast, Last
  <1>7. CursorRest'
    BY <1>1, <1>2, SameTable DEF ReadInv, CursorRest
  <1>8. WalkComplete' /\ TimeWalkMissesOnlyTies'
    BY <1>1, <1>2 DEF WalkComplete, TimeWalkMissesOnlyTies
  <1>9. BoundIsLast' /\ OlderRest'
    BY <1>1, <1>2 DEF ReadInv, BoundIsLast, OlderRest
  <1>10. PollBound'
    BY <1>1, <1>2, <1>3 DEF ReadInv, PollBound, Newest
  <1>11. PollRest'
    BY <1>1, <1>2, SameTable DEF ReadInv, PollRest, Overtaken
  <1> QED
    BY <1>4, <1>5, <1>6, <1>7, <1>8, <1>9, <1>10, <1>11 DEF ReadInv

\* A page below everything seen goes on in order.
LEMMA AppendedInOrder ==
  ASSUME NEW seen \in Seq(Submissions), NEW page \in Seq(Submissions),
         received_at \in [Submissions -> Nat],
         \A i, j \in DOMAIN seen : i < j => Newer(seen[i], seen[j]),
         \A i, j \in DOMAIN page : i < j => Newer(page[i], page[j]),
         seen # <<>> => \A j \in DOMAIN page : Newer(seen[Len(seen)], page[j])
  PROVE  \A i, j \in DOMAIN (seen \o page) :
           i < j => Newer((seen \o page)[i], (seen \o page)[j])
  <1> DEFINE all == seen \o page
             n   == Len(seen)
  <1>1. /\ n \in Nat /\ DOMAIN seen = 1..n /\ Len(page) \in Nat /\ DOMAIN page = 1..Len(page)
        /\ DOMAIN all = 1..(n + Len(page))
        /\ \A i \in DOMAIN seen : all[i] = seen[i]
        /\ \A i \in DOMAIN all : i \in DOMAIN seen
                                 \/ (i - n \in DOMAIN page /\ all[i] = page[i - n])
    BY Appended
  <1>2. \A i \in DOMAIN seen, j \in DOMAIN page : Newer(seen[i], page[j])
    <2> SUFFICES ASSUME NEW i \in DOMAIN seen, NEW j \in DOMAIN page
                 PROVE  Newer(seen[i], page[j])
      OBVIOUS
    <2>1. seen # <<>> /\ n \in DOMAIN seen /\ Newer(seen[n], page[j])
      BY <1>1
    <2>2. i = n \/ Newer(seen[i], seen[n])
      <3>1. i = n \/ i < n
        BY <1>1
      <3> QED
        BY <2>1, <3>1
    <2>3. {seen[i], seen[n], page[j]} \subseteq Submissions
      BY <2>1
    <2> QED
      BY <2>1, <2>2, <2>3, NewerTransitive
  <1> HIDE DEF all
  <1>3. ASSUME NEW i \in DOMAIN all, NEW j \in DOMAIN all, i < j
        PROVE  Newer(all[i], all[j])
    <2>1. i \in Int /\ j \in Int
      BY <1>1
    <2>2. CASE j \in DOMAIN seen
      <3>1. i \in DOMAIN seen
        BY <1>1, <1>3, <2>1, <2>2
      <3> QED
        BY <1>1, <1>3, <2>2, <3>1
    <2>3. CASE i \in DOMAIN seen /\ j \notin DOMAIN seen
      BY <1>1, <1>2, <2>3
    <2>4. CASE i \notin DOMAIN seen /\ j \notin DOMAIN seen
      <3>1. i - n < j - n
        BY <1>1, <1>3, <2>1
      <3> QED
        BY <1>1, <2>4, <3>1
    <2> QED
      BY <2>2, <2>3, <2>4
  <1> QED
    BY <1>3 DEF all

\* What a page adds to what was seen: rows ahead of the reader, in order.
LEMMA SeenGrows ==
  ASSUME Types
  PROVE  /\ PageNow \in Seq(Submissions)
         /\ reader.seen \o PageNow \in Seq(Submissions)
         /\ Range(reader.seen \o PageNow) = Range(reader.seen) \cup Range(PageNow)
         /\ Range(PageNow) \subseteq stored
         /\ \A s \in Range(PageNow) : Ahead(s)
         /\ next_cursor(PageNow) = NoCursor => \A s \in stored : Ahead(s) => s \in Range(PageNow)
         /\ next_cursor(PageNow) # NoCursor =>
              /\ reader.seen \o PageNow # <<>>
              /\ (reader.seen \o PageNow)[Len(reader.seen \o PageNow)] = next_cursor(PageNow)
              /\ next_cursor(PageNow) \in Range(PageNow)
              /\ next_cursor(PageNow) \in Submissions
              /\ \A s \in stored :
                   Ahead(s) => s \in Range(PageNow) \/ Newer(next_cursor(PageNow), s)
  <1>1. reader.seen \in Seq(Submissions) /\ PageNow \in Seq(Submissions)
    BY PageIsNewestAhead DEF Types, ReaderType
  <1>2. /\ reader.seen \o PageNow \in Seq(Submissions)
        /\ Range(reader.seen \o PageNow) = Range(reader.seen) \cup Range(PageNow)
        /\ PageNow # <<>> =>
             /\ reader.seen \o PageNow # <<>>
             /\ (reader.seen \o PageNow)[Len(reader.seen \o PageNow)] = PageNow[Len(PageNow)]
    BY <1>1, Appended
  <1>3. PageNow # <<>> => PageNow[Len(PageNow)] \in Range(PageNow)
    BY <1>1 DEF Range
  <1>4. \A s \in Range(PageNow) : s \in stored /\ Ahead(s)
    BY PageIsNewestAhead DEF Range
  <1> QED
    BY <1>1, <1>2, <1>3, <1>4, PageIsNewestAhead

\* The newest of what was seen, after a page.
LEMMA NewestGrows ==
  ASSUME NEW seen \in Seq(Submissions), NEW page \in Seq(Submissions),
         received_at \in [Submissions -> Nat],
         \A i, j \in DOMAIN page : i < j => Newer(page[i], page[j]),
         seen # <<>> => \E i \in DOMAIN seen :
                          \A j \in DOMAIN seen : received_at[seen[j]] <= received_at[seen[i]],
         seen \o page # <<>>
  PROVE  \E i \in DOMAIN (seen \o page) : \A j \in DOMAIN (seen \o page) :
           received_at[(seen \o page)[j]] <= received_at[(seen \o page)[i]]
  <1> DEFINE all == seen \o page
             n   == Len(seen)
             T(i) == received_at[all[i]]
  <1> SUFFICES \E i \in DOMAIN all : \A j \in DOMAIN all : T(j) <= T(i)
    OBVIOUS
  <1>1. /\ n \in Nat /\ DOMAIN seen = 1..n /\ Len(page) \in Nat /\ DOMAIN page = 1..Len(page)
        /\ DOMAIN all = 1..(n + Len(page)) /\ all \in Seq(Submissions)
        /\ \A i \in DOMAIN seen : i \in DOMAIN all /\ all[i] = seen[i]
        /\ \A i \in DOMAIN page : i + n \in DOMAIN all /\ all[i + n] = page[i]
        /\ \A i \in DOMAIN all : i \in DOMAIN seen
                                 \/ (i - n \in DOMAIN page /\ all[i] = page[i - n])
    <2>1. n \in Nat /\ DOMAIN seen = 1..n /\ Len(page) \in Nat /\ DOMAIN page = 1..Len(page)
      OBVIOUS
    <2> QED
      BY <2>1, Appended, Zenon
  <1>2. \A i \in DOMAIN all : T(i) \in Nat
    BY <1>1
  <1>3. page # <<>> => /\ 1 \in DOMAIN page
                       /\ \A j \in DOMAIN page : received_at[page[j]] <= received_at[page[1]]
    <2>1. page # <<>> => 1 \in DOMAIN page
      BY <1>1
    <2>2. ASSUME page # <<>>, NEW j \in DOMAIN page
          PROVE  received_at[page[j]] <= received_at[page[1]]
      <3>1. j = 1 \/ 1 < j
        BY <1>1
      <3>2. received_at[page[j]] \in Nat /\ received_at[page[1]] \in Nat
        BY <2>1, <2>2
      <3> QED
        BY <2>1, <2>2, <3>1, <3>2 DEF Newer
    <2> QED
      BY <2>1, <2>2
  <1>4. page # <<>> => /\ 1 + n \in DOMAIN all
                       /\ \A j \in DOMAIN all : j \notin DOMAIN seen => T(j) <= T(1 + n)
    BY <1>1, <1>3
  <1>5. CASE seen = <<>>
    <2>1. page # <<>> /\ DOMAIN seen = {}
      BY <1>5, <1>1
    <2> QED
      BY <2>1, <1>4
  <1>6. CASE seen # <<>>
    <2>1. PICK i \in DOMAIN seen :
            \A j \in DOMAIN seen : received_at[seen[j]] <= received_at[seen[i]]
      BY <1>6
    <2>2. i \in DOMAIN all /\ \A j \in DOMAIN seen : j \in DOMAIN all /\ T(j) <= T(i)
      BY <1>1, <2>1
    <2> HIDE DEF T, all
    <2>3. CASE page = <<>>
      <3>1. DOMAIN all = DOMAIN seen
        BY <1>1, <2>3
      <3> QED
        BY <2>2, <3>1
    <2>4. CASE page # <<>> /\ T(i) <= T(1 + n)
      <3>1. \A j \in DOMAIN all : T(j) <= T(1 + n)
        BY <1>2, <1>4, <2>2, <2>4
      <3> QED
        BY <1>4, <2>4, <3>1
    <2>5. CASE page # <<>> /\ ~(T(i) <= T(1 + n))
      <3>1. \A j \in DOMAIN all : T(j) <= T(i)
        BY <1>2, <1>4, <2>2, <2>5
      <3> QED
        BY <2>2, <3>1
    <2> QED
      BY <2>3, <2>4, <2>5
  <1> QED
    BY <1>5, <1>6

\* A page by cursor leaves what it did not return after its last row.
LEMMA PageKeeps == ReadInv /\ list_submissions => ReadInv'
  <1> SUFFICES ASSUME ReadInv, list_submissions PROVE ReadInv'
    OBVIOUS
  <1> DEFINE page == PageNow
             next == next_cursor(page)
             seen == reader.seen
             all  == seen \o page
  <1>1. /\ reader.pc = "page" /\ asked.kind # "older" /\ UNCHANGED <<clock, table, asked>>
        /\ UNCHANGED <<received_at, built, stored, gone>>
    BY DEF list_submissions, table
  <1>2. /\ reader'.filters = reader.filters /\ reader'.cursor = next
        /\ reader'.seen = all /\ reader'.cuts = reader.cuts /\ reader'.late = reader.late
        /\ reader'.before = reader.before
        /\ reader'.pc = IF next = NoCursor THEN "end" ELSE "cursor"
    BY DEF ReadInv, Types, ReaderType, list_submissions
  <1>3. /\ page \in Seq(Submissions) /\ seen \in Seq(Submissions) /\ all \in Seq(Submissions)
        /\ Range(all) = Range(seen) \cup Range(page)
        /\ Range(page) \subseteq stored
        /\ \A s \in Range(page) : Ahead(s)
        /\ next = NoCursor => \A s \in stored : Ahead(s) => s \in Range(page)
        /\ next # NoCursor =>
             /\ all # <<>> /\ all[Len(all)] = next /\ next \in Range(page) /\ next \in Submissions
             /\ \A s \in stored : Ahead(s) => s \in Range(page) \/ Newer(next, s)
    BY SeenGrows DEF ReadInv, Types, ReaderType
  <1>4. \A i, j \in DOMAIN page : i < j => Newer(page[i], page[j])
    BY PageIsNewestAhead DEF ReadInv
  <1>5. \A s \in stored : page_after(s, next) <=> (next # NoCursor => Newer(next, s))
    BY DEF page_after
  <1> HIDE DEF page, next, all
  <1>6. Types'
    <2>1. reader' = [reader EXCEPT !.pc = IF next = NoCursor THEN "end" ELSE "cursor",
                                   !.cursor = next, !.seen = all]
      BY DEF list_submissions, page, next, all
    <2>2. reader' \in ReaderType
      BY <1>3, <2>1 DEF ReadInv, Types, ReaderType
    <2>3. Range(all) \subseteq built
      BY <1>3 DEF ReadInv, Types
    <2>4. next # NoCursor => next \in built
      BY <1>3 DEF ReadInv, Types
    <2> QED
      BY <1>1, <1>2, <2>2, <2>3, <2>4 DEF ReadInv, Types
  <1>7. WalkOrdered'
    <2> SUFFICES ASSUME asked.kind = "cursor"
                 PROVE  \A i, j \in DOMAIN all : i < j => Newer(all[i], all[j])
      BY <1>1, <1>2, SameTable DEF WalkOrdered
    <2>1. \A i, j \in DOMAIN seen : i < j => Newer(seen[i], seen[j])
      BY DEF ReadInv, WalkOrdered
    <2>2. seen # <<>> => \A j \in DOMAIN page : Newer(seen[Len(seen)], page[j])
      <3>1. seen # <<>> => reader.cursor = seen[Len(seen)]
        BY <1>1 DEF ReadInv, CursorIsLast, Last
      <3>2. seen # <<>> => seen[Len(seen)] # NoCursor
        BY <1>3, ListingAssumption DEF NoCursor
      <3>3. \A j \in DOMAIN page : page_after(page[j], reader.cursor)
        BY <1>3 DEF Ahead, Range
      <3> QED
        BY <3>1, <3>2, <3>3 DEF page_after
    <2>3. received_at \in [Submissions -> Nat]
      BY DEF ReadInv, Types
    <2> QED
      BY <1>3, <1>4, <2>1, <2>2, <2>3, AppendedInOrder DEF all
  <1>8. CursorIsLast'
    BY <1>1, <1>2, <1>3 DEF ReadInv, CursorIsLast, Last
  <1>9. asked.kind = "cursor" =>
          \A s \in reader.before \cap stored : s \in Range(seen) \/ Ahead(s)
    BY <1>1 DEF ReadInv, CursorRest, Ahead
  <1>10. CursorRest'
    <2>1. asked.kind = "cursor" /\ next # NoCursor =>
            \A s \in reader.before \cap stored : s \in Range(all) \/ page_after(s, next)
      BY <1>3, <1>5, <1>9
    <2> QED
      BY <1>1, <1>2, <2>1, SameTable DEF ReadInv, CursorRest
  <1>11. WalkComplete'
    BY <1>1, <1>2, <1>3, <1>9 DEF WalkComplete
  <1>12. BoundIsLast' /\ OlderRest' /\ TimeWalkMissesOnlyTies'
    BY <1>1 DEF BoundIsLast, OlderRest, TimeWalkMissesOnlyTies
  <1>13. PollBound'
    <2> SUFFICES ASSUME asked.kind = "newer" PROVE PollBound'
      BY <1>1 DEF PollBound
    <2>1. seen # <<>> => \E i \in DOMAIN seen :
                           \A j \in DOMAIN seen : received_at[seen[j]] <= received_at[seen[i]]
      BY DEF ReadInv, PollBound, Newest
    <2>2. received_at \in [Submissions -> Nat]
      BY DEF ReadInv, Types
    <2>3. all # <<>> => \E i \in DOMAIN all :
                          \A j \in DOMAIN all : received_at[all[j]] <= received_at[all[i]]
      BY <1>3, <1>4, <2>1, <2>2, NewestGrows DEF all
    <2>4. all # <<>> => \E i \in DOMAIN all : Newest(i)'
      BY <1>1, <1>2, <2>3 DEF Newest
    <2>5. next # NoCursor => next \in Range(all)
      BY <1>3
    <2> QED
      BY <1>1, <1>2, <2>4, <2>5 DEF ReadInv, PollBound
  <1>14. PollRest'
    <2> SUFFICES ASSUME asked.kind = "newer", NEW s \in stored, Matches(s, asked.filters),
                        \E t \in Range(all) : received_at[t] >= received_at[s]
                 PROVE  \/ s \in Range(all) \cup reader.late
                        \/ next # NoCursor /\ Matches(s, reader.filters) /\ page_after(s, next)
      BY <1>1, <1>2, SameTable DEF PollRest, narrowed, Matches, Overtaken
    <2>1. s \in narrowed(asked.filters)
      BY DEF narrowed, Matches
    <2>2. CASE Ahead(s)
      BY <2>2, <1>3, <1>5 DEF Ahead
    <2>3. CASE Overtaken(s) /\ ~Ahead(s)
      BY <2>1, <2>3, <1>1, <1>3 DEF ReadInv, PollRest, Ahead
    <2>4. CASE ~Overtaken(s)
      <3>1. PICK t \in Range(page) : received_at[t] >= received_at[s]
        BY <2>4, <1>3 DEF Overtaken
      <3>2. /\ received_at[s] \in Nat
            /\ \A u \in Range(seen) \cup Range(page) : received_at[u] \in Nat
        BY <1>3 DEF ReadInv, Types
      <3>3. reader.cursor = NoCursor
        <4> SUFFICES ASSUME reader.cursor # NoCursor PROVE FALSE
          OBVIOUS
        <4>1. reader.cursor \in Range(seen) /\ Newer(reader.cursor, t)
          BY <1>3, <3>1 DEF ReadInv, PollBound, Ahead, page_after
        <4>2. received_at[reader.cursor] >= received_at[s]
          BY <3>1, <3>2, <4>1 DEF Newer
        <4> QED
          BY <2>4, <4>1, <4>2 DEF Overtaken
      <3>4. Matches(s, reader.filters)
        <4>1. CASE seen = <<>>
          BY <4>1, <3>3, <1>1 DEF ReadInv, PollBound
        <4>2. CASE seen # <<>>
          <5>1. PICK i \in DOMAIN seen : reader.filters.received_after = received_at[seen[i]]
            BY <4>2, <3>3, <1>1 DEF ReadInv, PollBound
          <5>2. seen[i] \in Range(seen)
            BY <5>1 DEF Range
          <5>3. ~(received_at[seen[i]] >= received_at[s])
            BY <2>4, <5>2 DEF Overtaken
          <5>4. received_at[s] > reader.filters.received_after
            BY <5>1, <5>2, <5>3, <3>2
          <5> QED
            BY <5>4 DEF ReadInv, PollBound, Matches
        <4> QED
          BY <4>1, <4>2
      <3>5. Ahead(s)
        BY <3>3, <3>4 DEF Ahead, page_after
      <3> QED
        BY <3>5, <2>2
    <2> QED
      BY <2>2, <2>3, <2>4
  <1> QED
    BY <1>6, <1>7, <1>8, <1>10, <1>11, <1>12, <1>13, <1>14 DEF ReadInv

\* A page by time leaves what it did not return below its last instant, or at it.
LEMMA BelowKeeps == ReadInv /\ ContinueBelow => ReadInv'
  <1> SUFFICES ASSUME ReadInv, ContinueBelow PROVE ReadInv'
    OBVIOUS
  <1> DEFINE page == PageNow
             next == next_cursor(page)
             seen == reader.seen
             all  == seen \o page
             full == next # NoCursor
  <1>1. /\ reader.pc = "page" /\ asked.kind = "older" /\ reader.cursor = NoCursor
        /\ UNCHANGED <<clock, table, asked>>
        /\ UNCHANGED <<received_at, built, stored, gone>>
    BY DEF ReadInv, BoundIsLast, ContinueBelow, table
  <1>2. /\ page \in Seq(Submissions) /\ seen \in Seq(Submissions) /\ all \in Seq(Submissions)
        /\ Range(all) = Range(seen) \cup Range(page)
        /\ Range(page) \subseteq stored
        /\ \A s \in Range(page) : Ahead(s)
        /\ next = NoCursor => \A s \in stored : Ahead(s) => s \in Range(page)
        /\ full =>
             /\ all # <<>> /\ all[Len(all)] = next /\ next \in Range(page) /\ next \in Submissions
             /\ \A s \in stored : Ahead(s) => s \in Range(page) \/ Newer(next, s)
    BY SeenGrows DEF ReadInv, Types, ReaderType
  <1>3. \A i, j \in DOMAIN page : i < j => Newer(page[i], page[j])
    BY PageIsNewestAhead DEF ReadInv
  <1>4. IF full
        THEN reader' = [reader EXCEPT !.pc = "ask", !.seen = all,
                                      !.filters.received_before = received_at[next],
                                      !.cuts = @ \cup {received_at[next]}]
        ELSE reader' = [reader EXCEPT !.pc = "end", !.seen = all]
    BY DEF ContinueBelow
  <1>5. full => received_at[next] \in Nat
    BY <1>2 DEF ReadInv, Types
  <1> HIDE DEF page, next, all
  <1>6. /\ reader'.cursor = reader.cursor /\ reader'.seen = all /\ reader'.late = reader.late
        /\ reader'.before = reader.before
        /\ full => /\ reader'.pc = "ask"
                   /\ reader'.cuts = reader.cuts \cup {received_at[next]}
                   /\ reader'.filters =
                        [reader.filters EXCEPT !.received_before = received_at[next]]
        /\ ~full => reader'.pc = "end" /\ reader'.cuts = reader.cuts
                    /\ reader'.filters = reader.filters
    BY <1>4 DEF ReadInv, Types, ReaderType
  <1>7. reader.filters \in FilterType
    BY DEF ReadInv, Types, ReaderType
  <1>8. Types'
    <2>1. full => [reader.filters EXCEPT !.received_before = received_at[next]] \in FilterType
      BY <1>5, <1>7 DEF FilterType
    <2>2. reader' \in ReaderType
      <3>1. CASE full
        <4>1. reader' = [reader EXCEPT !.pc = "ask", !.seen = all,
                           !.filters = [reader.filters EXCEPT !.received_before = received_at[next]],
                           !.cuts = reader.cuts \cup {received_at[next]}]
          BY <1>4, <3>1 DEF ReadInv, Types, ReaderType
        <4> QED
          BY <4>1, <2>1, <3>1, <1>2, <1>5 DEF ReadInv, Types, ReaderType
      <3>2. CASE ~full
        <4>1. reader' = [reader EXCEPT !.pc = "end", !.seen = all]
          BY <1>4, <3>2
        <4>2. all \in Seq(Submissions)
          BY <1>2
        <4> QED
          BY <4>1, <4>2 DEF ReadInv, Types, ReaderType
      <3> QED
        BY <3>1, <3>2
    <2> QED
      BY <1>1, <1>2, <1>6, <2>2 DEF ReadInv, Types
  <1>9. received_at \in [Submissions -> Nat]
    BY DEF ReadInv, Types
  <1>10. WalkOrdered'
    <2>1. \A i, j \in DOMAIN seen : i < j => Newer(seen[i], seen[j])
      BY <1>1 DEF ReadInv, WalkOrdered
    <2>2. seen # <<>> => \A j \in DOMAIN page : Newer(seen[Len(seen)], page[j])
      <3> SUFFICES ASSUME seen # <<>>, NEW j \in DOMAIN page
                   PROVE  received_at[page[j]] < received_at[seen[Len(seen)]]
        BY <1>2, <1>9 DEF Newer
      <3>1. reader.filters.received_before = received_at[seen[Len(seen)]]
        BY <1>1 DEF ReadInv, BoundIsLast, Last
      <3>2. received_at[seen[Len(seen)]] \in Nat
        BY <1>2, <1>9
      <3>3. Matches(page[j], reader.filters)
        BY <1>2 DEF Ahead, Range
      <3> QED
        BY <3>1, <3>2, <3>3, ListingAssumption DEF Matches
    <2>3. \A i, j \in DOMAIN all : i < j => Newer(all[i], all[j])
      BY <1>2, <1>3, <1>9, <2>1, <2>2, AppendedInOrder DEF all
    <2> QED
      BY <1>1, <1>6, <2>3, SameTable DEF WalkOrdered
  <1>11. CursorIsLast' /\ CursorRest' /\ WalkComplete' /\ PollBound' /\ PollRest'
    BY <1>1 DEF CursorIsLast, CursorRest, WalkComplete, PollBound, PollRest
  <1>12. BoundIsLast'
    <2>1. full => reader'.filters.received_before = received_at[all[Len(all)]]
      BY <1>2, <1>6, <1>7 DEF FilterType
    <2> QED
      BY <1>1, <1>6, <2>1 DEF BoundIsLast, Last
  <1>13. \A s \in reader.before \cap stored :
           \/ s \in Range(seen)
           \/ received_at[s] \in reader.cuts
           \/ Ahead(s)
    BY <1>1 DEF ReadInv, OlderRest, Ahead, page_after
  <1>14. OlderRest'
    <2> SUFFICES ASSUME full, NEW s \in reader.before \cap stored
                 PROVE  \/ s \in Range(all)
                        \/ received_at[s] \in reader.cuts \cup {received_at[next]}
                        \/ Matches(s, reader'.filters)
      BY <1>1, <1>6, SameTable DEF OlderRest
    <2>1. CASE s \in Range(seen) \/ received_at[s] \in reader.cuts \/ s \in Range(page)
      BY <2>1, <1>2
    <2>2. CASE Ahead(s) /\ Newer(next, s)
      <3>1. received_at[s] \in Nat /\ received_at[next] \in Nat
        BY <1>5, <1>9 DEF ReadInv, Types
      <3>2. received_at[s] = received_at[next] \/ received_at[s] < received_at[next]
        BY <2>2, <3>1 DEF Newer
      <3>3. /\ reader'.filters.endpoint_id = reader.filters.endpoint_id
            /\ reader'.filters.received_after = reader.filters.received_after
            /\ reader'.filters.received_before = received_at[next]
        BY <1>6, <1>7 DEF FilterType
      <3> QED
        BY <2>2, <3>2, <3>3 DEF Ahead, Matches
    <2> QED
      BY <1>2, <1>13, <2>1, <2>2
  <1>15. TimeWalkMissesOnlyTies'
    <2>1. ~full => \A s \in reader.before \cap stored :
                     s \in Range(all) \/ received_at[s] \in reader.cuts
      BY <1>2, <1>13
    <2> QED
      BY <1>1, <1>6, <2>1 DEF TimeWalkMissesOnlyTies
  <1> QED
    BY <1>8, <1>10, <1>11, <1>12, <1>14, <1>15 DEF ReadInv

\* NewestSeen is the instant of the newest row seen.
LEMMA NewestSeenIs ==
  ASSUME Types, NEW i, Newest(i)
  PROVE  NewestSeen = received_at[reader.seen[i]] /\ NewestSeen \in Nat
  <1> DEFINE instants == {received_at[s] : s \in Range(reader.seen)}
             n == received_at[reader.seen[i]]
  <1>1. \A s \in Range(reader.seen) : received_at[s] \in Nat
    BY DEF Types
  <1>2. reader.seen[i] \in Range(reader.seen)
    BY DEF Newest, Range
  <1>3. n \in instants /\ \A s \in Range(reader.seen) : received_at[s] <= n
    BY <1>2 DEF Newest, Range
  <1>4. \A m \in instants : (\A s \in Range(reader.seen) : received_at[s] <= m) => m = n
    BY <1>1, <1>2, <1>3
  <1>5. NewestSeen = CHOOSE m \in instants : \A s \in Range(reader.seen) : received_at[s] <= m
    BY DEF NewestSeen
  <1>6. NewestSeen = n
    BY <1>3, <1>4, <1>5
  <1> QED
    BY <1>1, <1>2, <1>6

\* Another round of a poll begins where everything passed was returned or late.
LEMMA PollAgainKeeps == ReadInv /\ PollAgain => ReadInv'
  <1> SUFFICES ASSUME ReadInv, PollAgain PROVE ReadInv'
    OBVIOUS
  <1>1. /\ reader.pc = "end" /\ asked.kind = "newer" /\ reader.seen # <<>>
        /\ UNCHANGED <<clock, table, asked>>
        /\ UNCHANGED <<received_at, built, stored, gone>>
    BY DEF PollAgain, table
  <1>2. PICK i \in DOMAIN reader.seen : Newest(i)
    BY <1>1 DEF ReadInv, PollBound
  <1>3. NewestSeen = received_at[reader.seen[i]] /\ NewestSeen \in Nat
    BY <1>2, NewestSeenIs DEF ReadInv
  <1>4. reader.filters \in FilterType
    BY DEF ReadInv, Types, ReaderType
  <1>5. reader' = [reader EXCEPT !.pc = "ask", !.round = @ + 1, !.cursor = NoCursor,
                     !.filters = [reader.filters EXCEPT !.received_after = NewestSeen]]
    BY DEF PollAgain, ReadInv, Types, ReaderType
  <1>6. [reader.filters EXCEPT !.received_after = NewestSeen] \in FilterType
    BY <1>3, <1>4 DEF FilterType
  <1>7. /\ reader'.seen = reader.seen /\ reader'.late = reader.late /\ reader'.pc = "ask"
        /\ reader'.before = reader.before /\ reader'.cursor = NoCursor
        /\ reader'.filters = [reader.filters EXCEPT !.received_after = NewestSeen]
        /\ reader' \in ReaderType
    <2> DEFINE filters == [reader.filters EXCEPT !.received_after = NewestSeen]
    <2>1. filters \in FilterType
      BY <1>6
    <2>2. reader \in ReaderType
      BY DEF ReadInv, Types
    <2> DEFINE round == reader.round + 1
    <2>3. round \in Nat
      BY <2>2 DEF ReaderType
    <2>4. reader' = [reader EXCEPT !.pc = "ask", !.round = round,
                                   !.cursor = NoCursor, !.filters = filters]
      BY <1>5
    <2> HIDE DEF filters, round
    <2>5. /\ reader'.seen = reader.seen /\ reader'.late = reader.late /\ reader'.pc = "ask"
          /\ reader'.before = reader.before /\ reader'.cursor = NoCursor
          /\ reader'.filters = filters
      BY <2>2, <2>4 DEF ReaderType
    <2>6. reader' \in ReaderType
      BY <2>1, <2>2, <2>3, <2>4 DEF ReaderType
    <2> QED
      BY <2>5, <2>6 DEF filters
  <1>8. Types'
    BY <1>1, <1>7 DEF ReadInv, Types
  <1>9. /\ WalkOrdered' /\ CursorIsLast' /\ CursorRest' /\ WalkComplete' /\ BoundIsLast'
        /\ OlderRest' /\ TimeWalkMissesOnlyTies'
    BY <1>1 DEF WalkOrdered, CursorIsLast, CursorRest, WalkComplete, BoundIsLast, OlderRest,
                TimeWalkMissesOnlyTies
  <1>10. PollBound'
    <2>1. /\ reader'.filters.endpoint_id = reader.filters.endpoint_id
          /\ reader'.filters.received_before = reader.filters.received_before
          /\ reader'.filters.received_after = received_at[reader.seen[i]]
      BY <1>3, <1>4, <1>7 DEF FilterType
    <2>2. Newest(i)'
      BY <1>1, <1>2, <1>7 DEF Newest
    <2> QED
      BY <1>1, <1>2, <1>7, <2>1, <2>2 DEF ReadInv, PollBound
  <1>11. PollRest'
    BY <1>1, <1>7, SameTable DEF ReadInv, PollRest, Overtaken
  <1> QED
    BY <1>8, <1>9, <1>10, <1>11 DEF ReadInv

\* An export is not a walk.
LEMMA ExportKeeps == ReadInv /\ (count_submissions \/ stream_submissions) => ReadInv'
  <1> SUFFICES ASSUME ReadInv, count_submissions \/ stream_submissions PROVE ReadInv'
    OBVIOUS
  <1>1. /\ asked.kind = "export" /\ UNCHANGED <<clock, table, asked>>
        /\ UNCHANGED <<received_at, built, stored, gone>>
    BY DEF ReadInv, Types, count_submissions, stream_submissions, table
  <1>2. Types'
    <2>1. CASE count_submissions
      <3>1. reader' = [reader EXCEPT !.pc = IF TooMany(narrowed(reader.filters))
                                            THEN "too_large" ELSE "stream"]
        BY <2>1 DEF count_submissions
      <3>2. /\ reader' \in ReaderType /\ reader'.seen = reader.seen
            /\ reader'.cursor = reader.cursor /\ reader'.before = reader.before
        BY <3>1 DEF ReadInv, Types, ReaderType
      <3> QED
        BY <1>1, <3>2 DEF ReadInv, Types
    <2>2. CASE stream_submissions
      <3> DEFINE matches == narrowed(reader.filters)
                 rows    == FirstRows(matches, Maximum)
      <3>1. matches \in SUBSET built /\ built \in SUBSET Submissions /\ IsFiniteSet(built)
        BY DEF ReadInv, Types, narrowed
      <3>2. matches \in SUBSET Submissions /\ IsFiniteSet(matches)
        BY <3>1, FS_Subset
      <3>3. rows \in Seq(matches)
        BY <3>2, FirstRowsAreNewest, ListingAssumption DEF ReadInv, Types
      <3>4. reader' = [reader EXCEPT !.pc = "end", !.seen = rows,
                                     !.missed = matches \ Range(rows)]
        BY <2>2 DEF stream_submissions
      <3> HIDE DEF rows, matches
      <3>5. rows \in Seq(Submissions) /\ Range(rows) \subseteq matches
        BY <3>2, <3>3 DEF Range
      <3>6. /\ reader' \in ReaderType /\ reader'.seen = rows
            /\ reader'.cursor = reader.cursor /\ reader'.before = reader.before
        BY <3>2, <3>4, <3>5 DEF ReadInv, Types, ReaderType
      <3> QED
        BY <1>1, <3>1, <3>5, <3>6 DEF ReadInv, Types
    <2> QED
      BY <2>1, <2>2
  <1>3. /\ WalkOrdered' /\ CursorIsLast' /\ CursorRest' /\ WalkComplete' /\ BoundIsLast'
        /\ OlderRest' /\ TimeWalkMissesOnlyTies' /\ PollBound' /\ PollRest'
    BY <1>1 DEF WalkOrdered, CursorIsLast, CursorRest, WalkComplete, BoundIsLast, OlderRest,
                TimeWalkMissesOnlyTies, PollBound, PollRest
  <1> QED
    BY <1>2, <1>3 DEF ReadInv

-----------------------------------------------------------------------------
(***************************************************************************)
(* Exports.                                                                *)
(***************************************************************************)

\* An export that was let through leaves out no more than came late, and all of it older
\* than what it returns.
LEMMA LeavesOutNoMore ==
  ASSUME received_at \in [Submissions -> Nat], NEW matches \in SUBSET Submissions,
         IsFiniteSet(matches), NEW late, IsFiniteSet(late),
         Cardinality(matches \ late) <= Maximum
  PROVE  LET rows == FirstRows(matches, Maximum) IN
         /\ Cardinality(matches \ Range(rows)) <= Cardinality(late)
         /\ \A s \in matches \ Range(rows) : \A t \in Range(rows) : Newer(t, s)
  <1> DEFINE rows == FirstRows(matches, Maximum)
             missed == matches \ Range(rows)
  <1>0. Maximum \in Nat \ {0}
    BY ListingAssumption
  <1>1. /\ rows \in Seq(matches)
        /\ \A i, j \in DOMAIN rows : i < j => Newer(rows[i], rows[j])
        /\ Len(rows) # Maximum => \A s \in matches : s \in Range(rows)
        /\ Len(rows) = Maximum =>
             \A s \in matches : s \in Range(rows) \/ Newer(rows[Maximum], s)
    BY <1>0, FirstRowsAreNewest
  <1>2. \A n \in Submissions : n \in Nat /\ received_at[n] \in Nat
    BY ListingAssumption
  <1> HIDE DEF rows
  <1>3. Range(rows) \in SUBSET matches
    BY <1>1 DEF Range
  <1>4. Cardinality(late) \in Nat
    BY FS_CardinalityType
  <1>5. CASE Len(rows) # Maximum
    <2>1. missed = {}
      BY <1>1, <1>5
    <2>2. Cardinality(missed) = 0
      BY <2>1, FS_EmptySet
    <2> QED
      BY <1>4, <2>1, <2>2 DEF rows
  <1>6. CASE Len(rows) = Maximum
    <2>1. DOMAIN rows = 1..Maximum /\ Maximum \in 1..Maximum /\ \A i \in 1..Maximum : rows[i] \in matches
      BY <1>0, <1>1, <1>6
    <2>2. ASSUME NEW s \in missed, NEW t \in Range(rows) PROVE Newer(t, s)
      <3>1. PICK i \in 1..Maximum : rows[i] = t
        BY <2>1 DEF Range
      <3>2. Newer(rows[Maximum], s)
        BY <1>1, <1>6
      <3>3. i = Maximum \/ i < Maximum
        BY <1>0
      <3>4. i < Maximum => Newer(rows[i], rows[Maximum])
        BY <1>1, <2>1
      <3>5. rows[i] \in Submissions /\ rows[Maximum] \in Submissions /\ s \in Submissions
        BY <2>1
      <3> QED
        BY <3>1, <3>2, <3>3, <3>4, <3>5, NewerTransitive
    <2>3. \A i, j \in 1..Maximum : i < j => rows[i] # rows[j]
      <3>1. \A n \in Submissions : ~Newer(n, n)
        BY <1>2 DEF Newer
      <3> QED
        BY <1>1, <2>1, <3>1
    <2>4. \A i, j \in 1..Maximum : rows[i] = rows[j] => i = j
      <3>1. \A i, j \in 1..Maximum : i < j \/ j < i \/ i = j
        BY <1>0
      <3> QED
        BY <2>3, <3>1
    <2>5. rows \in Injection(1..Maximum, Range(rows))
      <3>1. rows \in [1..Maximum -> Range(rows)]
        BY <1>1, <2>1 DEF Range
      <3> QED
        BY <2>4, <3>1 DEF Injection, IsInjective
    <2>6. IsFiniteSet(Range(rows)) /\ Cardinality(Range(rows)) \in Nat
      BY <1>3, FS_Subset, FS_CardinalityType
    <2>7. Maximum <= Cardinality(Range(rows))
      <3>1. Cardinality(1..Maximum) <= Cardinality(Range(rows))
        BY <2>5, <2>6, FS_Injection
      <3>2. Cardinality(1..Maximum) = Maximum
        BY <1>0, FS_Interval
      <3> QED
        BY <3>1, <3>2
    <2>8. /\ Cardinality(missed) = Cardinality(matches) - Cardinality(matches \cap Range(rows))
          /\ Cardinality(matches \ late) = Cardinality(matches) - Cardinality(matches \cap late)
      BY FS_Difference
    <2>9. matches \cap Range(rows) = Range(rows)
      BY <1>3
    <2>10. Cardinality(matches \cap late) <= Cardinality(late)
      BY FS_Intersection
    <2>11. Cardinality(matches) \in Nat /\ Cardinality(matches \cap late) \in Nat
      BY FS_CardinalityType, FS_Intersection
    <2>12. Cardinality(missed) <= Cardinality(late)
      <3> HIDE DEF missed
      <3> QED
        BY <1>0, <1>4, <2>6, <2>7, <2>8, <2>9, <2>10, <2>11
    <2> QED
      BY <2>2, <2>12 DEF rows
  <1> QED
    BY <1>5, <1>6

\* The invariant: as long as an export has not read, what matches and did not come late
\* fits into it.
ExportRest ==
  /\ reader.late \subseteq built /\ reader.missed \subseteq built
  /\ asked.kind = "export" => reader.pc \notin {"page", "cursor"}
  /\ reader.pc = "stream" => Cardinality(narrowed(reader.filters) \ reader.late) <= Maximum
  /\ ExportLosesOnlyToLate

\* A writer does not move what was read, and adds to what matches only what comes late.
LEMMA WritersKeepExports ==
  ASSUME ReadInv, ExportRest, Types', asked' = asked, built \subseteq built',
         \A t \in built : received_at'[t] = received_at[t],
         reader' = [reader EXCEPT !.late = reader'.late],
         reader.late \subseteq reader'.late, reader'.late \subseteq built',
         reader.pc = "stream" => narrowed(reader.filters)' \ reader'.late
                                   \subseteq narrowed(reader.filters) \ reader.late
  PROVE  ExportRest'
  <1>1. /\ reader'.pc = reader.pc /\ reader'.filters = reader.filters
        /\ reader'.seen = reader.seen /\ reader'.missed = reader.missed
    BY DEF ReadInv, Types, ReaderType
  <1>2. IsFiniteSet(reader'.late) /\ IsFiniteSet(narrowed(reader.filters) \ reader.late)
    <2>1. IsFiniteSet(built') /\ IsFiniteSet(built)
      BY DEF ReadInv, Types
    <2>2. narrowed(reader.filters) \ reader.late \subseteq built
      BY DEF ReadInv, Types, narrowed
    <2> QED
      BY <2>1, <2>2, FS_Subset
  <1>3. /\ Cardinality(reader.late) \in Nat /\ Cardinality(reader'.late) \in Nat
        /\ Cardinality(reader.late) <= Cardinality(reader'.late)
    BY <1>2, FS_Subset, FS_CardinalityType
  <1>4. ASSUME reader'.pc = "stream"
        PROVE  Cardinality(narrowed(reader.filters)' \ reader'.late) <= Maximum
    <2> DEFINE new == narrowed(reader.filters)' \ reader'.late
               old == narrowed(reader.filters) \ reader.late
    <2>1. new \in SUBSET old /\ IsFiniteSet(old) /\ Cardinality(old) <= Maximum
      BY <1>1, <1>2, <1>4 DEF ExportRest
    <2> HIDE DEF new, old
    <2>2. Cardinality(new) <= Cardinality(old) /\ Cardinality(old) \in Nat /\ Cardinality(new) \in Nat
      BY <2>1, FS_Subset, FS_CardinalityType
    <2>3. Cardinality(new) <= Maximum
      BY <2>1, <2>2, ListingAssumption
    <2> QED
      BY <2>3 DEF new
  <1>5. ExportLosesOnlyToLate'
    <2> SUFFICES ASSUME asked.kind = "export", reader.pc = "end"
                 PROVE  /\ Cardinality(reader.missed) <= Cardinality(reader'.late)
                        /\ \A s \in reader.missed : \A t \in Range(reader.seen) : Newer(t, s)'
      BY <1>1 DEF ExportLosesOnlyToLate
    <2>1. /\ Cardinality(reader.missed) <= Cardinality(reader.late)
          /\ \A s \in reader.missed : \A t \in Range(reader.seen) : Newer(t, s)
      BY DEF ExportRest, ExportLosesOnlyToLate
    <2>2. reader.missed \subseteq built /\ Range(reader.seen) \subseteq built
      BY DEF ExportRest, ReadInv, Types
    <2>3. IsFiniteSet(reader.missed) /\ Cardinality(reader.missed) \in Nat
      <3>1. IsFiniteSet(built)
        BY DEF ReadInv, Types
      <3> QED
        BY <2>2, <3>1, FS_Subset, FS_CardinalityType
    <2>4. Cardinality(reader.missed) <= Cardinality(reader'.late)
      BY <1>3, <2>1, <2>3
    <2>5. \A s \in reader.missed : \A t \in Range(reader.seen) : Newer(t, s)'
      BY <2>1, <2>2 DEF Newer
    <2> QED
      BY <2>4, <2>5
  <1>6. reader'.missed \subseteq built' /\ (asked'.kind = "export" => reader'.pc \notin {"page", "cursor"})
    BY <1>1 DEF ExportRest
  <1> QED
    BY <1>1, <1>4, <1>5, <1>6 DEF ExportRest

\* Every step of a writer keeps it.
LEMMA WriterStepKeepsExports ==
  ASSUME ReadInv, ExportRest, Types',
         \/ Tick
         \/ \E s \in Submissions : build_submission(s) \/ CommitSubmission(s) \/ DeleteSubmission(s)
         \/ UNCHANGED vars
  PROVE  ExportRest'
  <1>0. /\ reader.late \subseteq built /\ reader \in ReaderType /\ stored \subseteq built
        /\ built \subseteq Submissions /\ received_at \in [Submissions -> Nat]
    BY DEF ExportRest, ReadInv, Types
  <1>1. CASE Tick \/ UNCHANGED vars
    <2>1. UNCHANGED <<received_at, built, stored, gone, asked, reader>>
      BY <1>1 DEF Tick, vars, table
    <2>2. narrowed(reader.filters)' = narrowed(reader.filters)
      BY <2>1 DEF narrowed, Matches
    <2>3. reader' = [reader EXCEPT !.late = reader'.late]
      BY <1>0, <2>1 DEF ReaderType
    <2> QED
      BY <1>0, <2>1, <2>2, <2>3, WritersKeepExports
  <1>2. ASSUME NEW s \in Submissions, build_submission(s) PROVE ExportRest'
    <2>1. /\ s \notin built /\ built' = built \cup {s} /\ UNCHANGED <<stored, asked, reader>>
          /\ received_at' = [received_at EXCEPT ![s] = clock]
      BY <1>2 DEF build_submission
    <2>2. \A t \in built : received_at'[t] = received_at[t]
      BY <1>0, <2>1
    <2>3. narrowed(reader.filters)' = narrowed(reader.filters)
      BY <1>0, <2>1, <2>2 DEF narrowed, Matches
    <2>4. reader' = [reader EXCEPT !.late = reader'.late]
      BY <1>0, <2>1 DEF ReaderType
    <2> QED
      BY <1>0, <2>1, <2>2, <2>3, <2>4, WritersKeepExports
  <1>3. ASSUME NEW s \in Submissions, CommitSubmission(s) PROVE ExportRest'
    <2>1. /\ s \in built /\ stored' = stored \cup {s}
          /\ UNCHANGED <<received_at, built, asked>>
      BY <1>3 DEF CommitSubmission
    <2>2. /\ reader' = [reader EXCEPT !.late = reader'.late]
          /\ reader'.late = IF ComesLate(s) THEN reader.late \cup {s} ELSE reader.late
      BY <1>0, <1>3 DEF ReaderType, CommitSubmission
    <2>3. reader'.filters = reader.filters
      BY <1>0, <2>2 DEF ReaderType
    <2>4. ASSUME reader.pc = "stream", NEW t \in narrowed(reader.filters)', t \notin reader'.late
          PROVE  t \in narrowed(reader.filters) \ reader.late
      <3>1. t \in stored' /\ Matches(t, reader.filters)
        BY <2>1, <2>3, <2>4 DEF narrowed, Matches
      <3>2. t # s
        BY <2>2, <2>4, <3>1 DEF ComesLate
      <3> QED
        BY <2>1, <2>2, <2>4, <3>1, <3>2 DEF narrowed
    <2> QED
      BY <1>0, <2>1, <2>2, <2>4, WritersKeepExports
  <1>4. ASSUME NEW s \in Submissions, DeleteSubmission(s) PROVE ExportRest'
    <2>1. stored' = stored \ {s} /\ UNCHANGED <<received_at, built, asked, reader>>
      BY <1>4 DEF DeleteSubmission
    <2>2. narrowed(reader.filters)' \subseteq narrowed(reader.filters)
      BY <2>1 DEF narrowed, Matches
    <2>3. reader' = [reader EXCEPT !.late = reader'.late]
      BY <1>0, <2>1 DEF ReaderType
    <2> QED
      BY <1>0, <2>1, <2>2, <2>3, WritersKeepExports
  <1> QED
    BY <1>1, <1>2, <1>3, <1>4

\* No walk and no poll is an export.
LEMMA WalksKeepExports ==
  ASSUME ReadInv, ExportRest,
         Ask \/ ResolveCursor \/ list_submissions \/ ContinueBelow \/ PollAgain
  PROVE  ExportRest'
  <1>0. reader \in ReaderType /\ asked.kind \in Kinds
    BY DEF ReadInv, Types
  <1>1. built' = built /\ asked' = asked
    BY DEF Ask, ResolveCursor, list_submissions, ContinueBelow, PollAgain, table
  <1>2. reader'.late = reader.late /\ reader'.missed = reader.missed
    BY <1>0 DEF ReaderType, Ask, ResolveCursor, list_submissions, ContinueBelow, PollAgain
  <1>3. reader'.pc # "stream"
    BY <1>0 DEF ReaderType, Ask, ResolveCursor, list_submissions, ContinueBelow, PollAgain
  <1>4. asked.kind = "export" => reader'.pc \in {"refused", "count"}
    <2> SUFFICES ASSUME asked.kind = "export" PROVE reader'.pc \in {"refused", "count"}
      OBVIOUS
    <2>1. reader.pc \notin {"page", "cursor"}
      BY DEF ExportRest
    <2>2. Ask
      BY <2>1 DEF ResolveCursor, list_submissions, ContinueBelow, PollAgain
    <2> QED
      BY <1>0, <2>2 DEF ReaderType, Ask
  <1> QED
    BY <1>1, <1>2, <1>3, <1>4 DEF ExportRest, ExportLosesOnlyToLate

\* The count lets through what fits; the read leaves out what has come since.
LEMMA ReadsKeepExports ==
  ASSUME ReadInv, ExportRest, count_submissions \/ stream_submissions
  PROVE  ExportRest'
  <1> DEFINE matches == narrowed(reader.filters)
  <1>0. /\ reader \in ReaderType /\ matches \in SUBSET built /\ IsFiniteSet(built)
        /\ built \in SUBSET Submissions /\ received_at \in [Submissions -> Nat]
        /\ reader.late \in SUBSET built
    BY DEF ReadInv, Types, narrowed, ExportRest
  <1>1. /\ UNCHANGED table /\ asked' = asked /\ built' = built
        /\ narrowed(reader.filters)' = narrowed(reader'.filters)
    BY SameTable DEF count_submissions, stream_submissions, table
  <1>2. IsFiniteSet(matches) /\ IsFiniteSet(reader.late) /\ matches \in SUBSET Submissions
    <2> HIDE DEF matches
    <2> QED
      BY <1>0, FS_Subset
  <1>3. CASE count_submissions
    <2>1. /\ reader'.late = reader.late /\ reader'.missed = reader.missed
          /\ reader'.filters = reader.filters
          /\ reader'.pc = IF TooMany(matches) THEN "too_large" ELSE "stream"
      BY <1>0, <1>3 DEF ReaderType, count_submissions
    <2>2. reader'.pc = "stream" => Cardinality(matches \ reader.late) <= Maximum
      <3> SUFFICES ASSUME ~TooMany(matches) PROVE Cardinality(matches \ reader.late) <= Maximum
        BY <2>1
      <3> HIDE DEF matches
      <3>1. Cardinality(matches) \in Nat /\ Cardinality(matches \ reader.late) \in Nat
        BY <1>2, FS_Difference, FS_CardinalityType
      <3>2. Cardinality(matches \ reader.late) <= Cardinality(matches)
        BY <1>2, FS_Subset
      <3>3. Cardinality(matches) <= Maximum
        BY <3>1, ListingAssumption DEF TooMany
      <3> QED
        BY <3>1, <3>2, <3>3, ListingAssumption
    <2>3. narrowed(reader.filters)' = matches
      BY <1>1, <2>1
    <2> QED
      BY <1>1, <2>1, <2>2, <2>3 DEF ExportRest, ExportLosesOnlyToLate
  <1>4. CASE stream_submissions
    <2> DEFINE rows == FirstRows(matches, Maximum)
    <2>1. /\ reader'.late = reader.late /\ reader'.missed = matches \ Range(rows)
          /\ reader'.pc = "end" /\ reader'.seen = rows
      BY <1>0, <1>4 DEF ReaderType, stream_submissions
    <2>2. Cardinality(matches \ reader.late) <= Maximum
      BY <1>4 DEF stream_submissions, ExportRest
    <2>3. /\ Cardinality(matches \ Range(rows)) <= Cardinality(reader.late)
          /\ \A s \in matches \ Range(rows) : \A t \in Range(rows) : Newer(t, s)
      <3> HIDE DEF matches
      <3> QED
        BY <1>0, <1>2, <2>2, LeavesOutNoMore
    <2> HIDE DEF rows, matches
    <2>4. \A s, t : Newer(s, t)' <=> Newer(s, t)
      BY <1>1, SameTable
    <2>5. ExportLosesOnlyToLate'
      BY <2>1, <2>3, <2>4 DEF ExportLosesOnlyToLate
    <2> QED
      BY <1>0, <1>1, <2>1, <2>5 DEF ExportRest
  <1> QED
    BY <1>3, <1>4

-----------------------------------------------------------------------------
(***************************************************************************)
(* The CSV document.                                                       *)
(***************************************************************************)

\* The rows of an export: each carries a dict of fields.
AreRows(rows) ==
  /\ Len(rows) \in Nat /\ DOMAIN rows = 1..Len(rows)
  /\ \A line \in DOMAIN rows :
       /\ Len(rows[line].fields) \in Nat
       /\ DOMAIN rows[line].fields = 1..Len(rows[line].fields)
       /\ \A i, j \in DOMAIN rows[line].fields :
            rows[line].fields[i].name = rows[line].fields[j].name => i = j

\* A loop meets the fields of an export in a total order.
LEMMA MetOrders ==
  ASSUME NEW S \in SUBSET (Nat \X Nat)
  PROVE  Orders(S, {pair \in S \X S : MetBefore(pair[1], pair[2])})
  <1> DEFINE before == {pair \in S \X S : MetBefore(pair[1], pair[2])}
  <1>1. \A p, q \in S : <<p, q>> \in before <=> MetBefore(p, q)
    OBVIOUS
  <1>2. \A p \in S : p = <<p[1], p[2]>> /\ p[1] \in Nat /\ p[2] \in Nat
    OBVIOUS
  <1>3. \A p \in S : ~MetBefore(p, p)
    BY <1>2 DEF MetBefore
  <1>4. \A p, q \in S : p # q => MetBefore(p, q) \/ MetBefore(q, p)
    <2> SUFFICES ASSUME NEW p \in S, NEW q \in S, p # q
                 PROVE  MetBefore(p, q) \/ MetBefore(q, p)
      OBVIOUS
    <2>1. p[1] # q[1] \/ p[2] # q[2]
      BY <1>2
    <2> QED
      BY <1>2, <2>1 DEF MetBefore
  <1>5. \A p, q, r \in S : MetBefore(p, q) /\ MetBefore(q, r) => MetBefore(p, r)
    BY <1>2 DEF MetBefore
  <1> HIDE DEF before
  <1>6. Orders(S, before)
    BY <1>1, <1>3, <1>4, <1>5 DEF Orders
  <1> QED
    BY <1>6 DEF before

\* There are finitely many fields in an export.
LEMMA PlacesFinite ==
  ASSUME NEW rows, AreRows(rows)
  PROVE  /\ IsFiniteSet(Places(rows))
         /\ Places(rows) \in SUBSET (Nat \X Nat)
         /\ \A line \in DOMAIN rows : \A i \in DOMAIN rows[line].fields :
              <<line, i>> \in Places(rows)
         /\ \A p \in Places(rows) : p[1] \in DOMAIN rows /\ p[2] \in DOMAIN rows[p[1]].fields
  <1> DEFINE OfLine(line) == {line} \X DOMAIN rows[line].fields
             lines == {OfLine(line) : line \in DOMAIN rows}
  <1>1. IsFiniteSet(DOMAIN rows)
    BY FS_Interval DEF AreRows
  <1>2. IsFiniteSet(lines)
    <2> DEFINE of == [line \in DOMAIN rows |-> OfLine(line)]
    <2>1. of \in Surjection(DOMAIN rows, lines)
      BY DEF Surjection
    <2> HIDE DEF of, lines
    <2> QED
      BY <1>1, <2>1, FS_Surjection
  <1>3. ASSUME NEW line \in DOMAIN rows PROVE IsFiniteSet(OfLine(line))
    <2> DEFINE w == Len(rows[line].fields)
    <2>1. w \in Nat /\ DOMAIN rows[line].fields = 1..w
      BY DEF AreRows
    <2>2. IsFiniteSet(1..w)
      BY <2>1, FS_Interval
    <2>3. IsFiniteSet({line})
      BY FS_Singleton
    <2> QED
      BY <2>1, <2>2, <2>3, FS_Product
  <1>4. \A T \in lines : IsFiniteSet(T)
    BY <1>3
  <1>5. IsFiniteSet(UNION lines)
    BY <1>2, <1>4, FS_UNION
  <1>6. Places(rows) = UNION lines
    BY DEF Places
  <1>7. \A p \in Places(rows) :
          /\ p = <<p[1], p[2]>>
          /\ p[1] \in DOMAIN rows /\ p[2] \in DOMAIN rows[p[1]].fields
    BY DEF Places
  <1>8. \A p \in Places(rows) : p \in Nat \X Nat
    <2> SUFFICES ASSUME NEW p \in Places(rows) PROVE p[1] \in Nat /\ p[2] \in Nat
      BY <1>7
    <2> QED
      BY <1>7 DEF AreRows
  <1>9. \A line \in DOMAIN rows : \A i \in DOMAIN rows[line].fields : <<line, i>> \in Places(rows)
    BY DEF Places
  <1> QED
    BY <1>5, <1>6, <1>7, <1>8, <1>9

\* Every field of every row has a column.
LEMMA EveryFieldHasAColumn ==
  ASSUME NEW rows, AreRows(rows)
  PROVE  /\ \E n \in Nat : DOMAIN field_names(rows) = 1..n /\ Len(field_names(rows)) = n
         /\ field_names(rows) \in Seq(Range(field_names(rows)))
         /\ \A line \in DOMAIN rows : \A i \in DOMAIN rows[line].fields :
              \E k \in DOMAIN field_names(rows) : field_names(rows)[k] = rows[line].fields[i].name
  <1> DEFINE P == Places(rows)
             N(p) == NameAt(rows, p)
             firsts == {q \in P : \A p \in P : MetBefore(p, q) => N(p) # N(q)}
             before == {pair \in firsts \X firsts : MetBefore(pair[1], pair[2])}
             met == InOrder(firsts, before)
             n == Cardinality(firsts)
             names == field_names(rows)
  <1>1. IsFiniteSet(P) /\ P \in SUBSET (Nat \X Nat)
    BY PlacesFinite
  <1>2. firsts \in SUBSET P
    OBVIOUS
  <1>3. IsFiniteSet(firsts) /\ firsts \in SUBSET (Nat \X Nat)
    <2> HIDE DEF firsts
    <2> QED
      BY <1>1, <1>2, FS_Subset
  <1>4. Orders(firsts, before)
    <2> HIDE DEF firsts
    <2> QED
      BY <1>3, MetOrders
  <1>5. /\ n \in Nat /\ met \in [1..n -> firsts]
        /\ \A q \in firsts : \E k \in 1..n : met[k] = q
    <2> HIDE DEF firsts, before
    <2> QED
      BY <1>3, <1>4, InOrderSorts
  <1>6. names = [k \in DOMAIN met |-> N(met[k])]
    BY DEF field_names
  <1>7. DOMAIN names = 1..n /\ \A k \in 1..n : names[k] = N(met[k])
    <2> HIDE DEF met, N
    <2> QED
      BY <1>5, <1>6
  <1>8. names \in Seq(Range(names)) /\ Len(names) = n
    <2>1. names = [k \in 1..n |-> names[k]]
      <3> HIDE DEF met, N
      <3> QED
        BY <1>6, <1>7
    <2> HIDE DEF names, n
    <2>2. \A k \in 1..n : names[k] \in Range(names)
      BY <1>7 DEF Range
    <2>3. names \in [1..n -> Range(names)]
      BY <2>1, <2>2
    <2> QED
      BY <1>5, <2>3
  <1>9. ASSUME NEW line \in DOMAIN rows, NEW i \in DOMAIN rows[line].fields
        PROVE  \E k \in DOMAIN names : names[k] = rows[line].fields[i].name
    <2> DEFINE name == rows[line].fields[i].name
               S == {p \in P : N(p) = name}
               order == {pair \in S \X S : MetBefore(pair[1], pair[2])}
    <2>1. <<line, i>> \in S
      BY PlacesFinite DEF NameAt
    <2>2. S \in SUBSET P
      OBVIOUS
    <2>3. IsFiniteSet(S) /\ S \in SUBSET (Nat \X Nat) /\ S # {}
      <3> HIDE DEF S
      <3> QED
        BY <1>1, <2>1, <2>2, FS_Subset
    <2>4. Orders(S, order)
      <3> HIDE DEF S
      <3> QED
        BY <2>3, MetOrders
    <2>5. PICK m \in S : \A s \in S : s = m \/ <<m, s>> \in order
      <3> HIDE DEF S, order
      <3> QED
        BY <2>3, <2>4, FirstExists
    <2>6. m \in firsts
      <3> SUFFICES ASSUME NEW p \in P, MetBefore(p, m), N(p) = N(m) PROVE FALSE
        BY <2>2
      <3>1. p \in S /\ m \in S
        OBVIOUS
      <3>2. p = m \/ MetBefore(m, p)
        BY <2>5, <3>1
      <3>3. p[1] \in Nat /\ p[2] \in Nat /\ m[1] \in Nat /\ m[2] \in Nat
        BY <1>1
      <3> QED
        BY <3>2, <3>3 DEF MetBefore
    <2>7. PICK k \in 1..n : met[k] = m
      BY <1>5, <2>6
    <2>8. names[k] = name
      <3>1. N(m) = name
        OBVIOUS
      <3> HIDE DEF N, met, names
      <3> QED
        BY <1>7, <2>7, <3>1
    <2> QED
      BY <1>7, <2>8
  <1> HIDE DEF names
  <1> QED
    BY <1>5, <1>7, <1>8, <1>9 DEF names

\* What two sequences hold together.
LEMMA Joined ==
  ASSUME NEW S, NEW front \in Seq(S), NEW rest \in Seq(S)
  PROVE  /\ DOMAIN (front \o rest) = 1..(Len(front) + Len(rest))
         /\ \A i \in DOMAIN front : (front \o rest)[i] = front[i]
         /\ \A k \in DOMAIN rest : (front \o rest)[k + Len(front)] = rest[k]
  <1>1. DOMAIN (front \o rest) = 1..(Len(front) + Len(rest))
    OBVIOUS
  <1>2. \A i \in DOMAIN front : (front \o rest)[i] = front[i]
    OBVIOUS
  <1>3. \A k \in DOMAIN rest : (front \o rest)[k + Len(front)] = rest[k]
    OBVIOUS
  <1> QED
    BY <1>1, <1>2, <1>3

\* What comes after three columns.
LEMMA AfterThree ==
  ASSUME NEW S, NEW front \in Seq(S), Len(front) = 3, NEW rest \in Seq(S)
  PROVE  /\ DOMAIN (front \o rest) = 1..(3 + Len(rest))
         /\ (front \o rest)[1] = front[1]
         /\ \A k \in 1..Len(rest) : (front \o rest)[k + 3] = rest[k]
  <1>1. 1 \in DOMAIN front /\ DOMAIN rest = 1..Len(rest)
    OBVIOUS
  <1>2. /\ DOMAIN (front \o rest) = 1..(Len(front) + Len(rest))
        /\ \A i \in DOMAIN front : (front \o rest)[i] = front[i]
        /\ \A k \in DOMAIN rest : (front \o rest)[k + Len(front)] = rest[k]
    BY Joined
  <1> DEFINE all == front \o rest
  <1> HIDE DEF all
  <1>3. all[1] = front[1] /\ DOMAIN all = 1..(3 + Len(rest))
        /\ \A k \in 1..Len(rest) : all[k + 3] = rest[k]
    BY <1>1, <1>2 DEF all
  <1> QED
    BY <1>3 DEF all

\* Where the columns and the cells of a document are.
LEMMA DocumentLayout ==
  ASSUME NEW rows, AreRows(rows)
  PROVE  /\ DOMAIN csv_document(rows).header = 1..(3 + Len(field_names(rows)))
         /\ Len(field_names(rows)) \in Nat
         /\ DOMAIN field_names(rows) = 1..Len(field_names(rows))
         /\ csv_document(rows).header[1] = METADATA_COLUMNS[1]
         /\ \A k \in DOMAIN field_names(rows) :
              csv_document(rows).header[k + 3] = safe(field_names(rows)[k])
         /\ \A line \in DOMAIN rows :
              /\ csv_document(rows).lines[line][1] = rows[line].id
              /\ \A k \in DOMAIN field_names(rows) :
                   csv_document(rows).lines[line][k + 3] = cell_of(rows[line], field_names(rows)[k])
  <1> DEFINE names == field_names(rows)
             n == Len(names)
             columns == METADATA_COLUMNS \o names
             document == csv_document(rows)
  <1>1. n \in Nat /\ DOMAIN names = 1..n /\ names \in Seq(Range(names))
    BY EveryFieldHasAColumn
  <1> HIDE DEF names
  <1>2. /\ Len(METADATA_COLUMNS) = 3
        /\ METADATA_COLUMNS \in Seq({METADATA_COLUMNS[1], METADATA_COLUMNS[2], METADATA_COLUMNS[3]})
    BY DEF METADATA_COLUMNS
  <1>3. /\ DOMAIN columns = 1..(3 + n) /\ columns[1] = METADATA_COLUMNS[1]
        /\ \A k \in 1..n : columns[k + 3] = names[k]
    <2> DEFINE U == {METADATA_COLUMNS[1], METADATA_COLUMNS[2], METADATA_COLUMNS[3]}
                      \cup Range(names)
    <2>1. METADATA_COLUMNS \in Seq(U) /\ names \in Seq(U)
      BY <1>1, <1>2
    <2> HIDE DEF U
    <2> QED
      BY <1>1, <1>2, <2>1, AfterThree
  <1>4. document = [header |-> [i \in DOMAIN columns |-> safe(columns[i])],
                    lines  |-> [i \in DOMAIN rows |-> row_cells(rows[i], names)]]
    BY DEF csv_document, names
  <1> HIDE DEF columns, document, n
  <1>5. /\ document.header = [i \in DOMAIN columns |-> safe(columns[i])]
        /\ document.lines = [i \in DOMAIN rows |-> row_cells(rows[i], names)]
    BY <1>4
  <1>6. \A k \in 1..n : k + 3 \in 1..(3 + n)
    BY <1>1
  <1>7. 1 \in 1..(3 + n)
    BY <1>1
  <1>8. safe(METADATA_COLUMNS[1]) = METADATA_COLUMNS[1]
    BY ExportAssumption, <1>2 DEF safe, IsFormula
  <1>9. /\ DOMAIN document.header = 1..(3 + n)
        /\ document.header[1] = METADATA_COLUMNS[1]
        /\ \A k \in 1..n : document.header[k + 3] = safe(names[k])
    BY <1>3, <1>5, <1>6, <1>7, <1>8
  <1>10. ASSUME NEW line \in DOMAIN rows
         PROVE  /\ document.lines[line][1] = rows[line].id
                /\ \A k \in 1..n : document.lines[line][k + 3] = cell_of(rows[line], names[k])
    <2> DEFINE row   == rows[line]
               front == <<row.id, row.endpoint_id, row.received_at>>
               cells == [i \in DOMAIN names |-> cell_of(row, names[i])]
               V     == {row.id, row.endpoint_id, row.received_at} \cup Range(cells)
    <2>1. document.lines[line] = front \o cells
      BY <1>5 DEF row_cells
    <2>2. front \in Seq(V) /\ Len(front) = 3
      OBVIOUS
    <2>3. DOMAIN cells = 1..n /\ \A k \in 1..n : cells[k] = cell_of(row, names[k])
      BY <1>1
    <2>4. cells \in Seq(V) /\ Len(cells) = n
      <3>1. cells = [k \in 1..n |-> cells[k]] /\ \A k \in 1..n : cells[k] \in V
        BY <1>1 DEF Range
      <3> HIDE DEF cells, V
      <3> QED
        BY <1>1, <3>1
    <2>5. front[1] = row.id
      OBVIOUS
    <2> HIDE DEF front, cells, V
    <2>6. (front \o cells)[1] = front[1] /\ \A k \in 1..n : (front \o cells)[k + 3] = cells[k]
      BY <2>2, <2>4, AfterThree
    <2> QED
      BY <2>1, <2>3, <2>5, <2>6
  <1> QED
    BY <1>1, <1>9, <1>10 DEF document, names, n

\* A column alone under its header is the one its header finds.
LEMMA AloneIsFound ==
  ASSUME NEW document, NEW line, NEW header, Alone(document, header),
         NEW i \in Columns(document, header), i \in Nat
  PROVE  Cell(document, line, header) = document.lines[line][i]
  <1>1. Columns(document, header) = {i}
    BY DEF Alone
  <1> QED
    BY <1>1 DEF Cell

\* The document of any rows can be read back by its headers.
LEMMA DocumentReadsBack ==
  ASSUME NEW rows, AreRows(rows), NEW line \in DOMAIN rows
  PROVE  /\ \A i \in DOMAIN rows[line].fields :
              LET header == safe(rows[line].fields[i].name) IN
              /\ Columns(csv_document(rows), header) # {}
              /\ Alone(csv_document(rows), header) =>
                   Cell(csv_document(rows), line, header) = Json(rows[line].fields[i].values)
         /\ \A i \in (DOMAIN csv_document(rows).header) \ (1..3) :
              LET header == csv_document(rows).header[i] IN
              /\ Alone(csv_document(rows), header)
              /\ header \notin {safe(name) : name \in Range(NamesOf(rows[line]))}
              => Cell(csv_document(rows), line, header) = Empty
         /\ Alone(csv_document(rows), METADATA_COLUMNS[1]) =>
              Cell(csv_document(rows), line, METADATA_COLUMNS[1]) = rows[line].id
  <1> DEFINE document == csv_document(rows)
             names == field_names(rows)
             n == Len(names)
             row == rows[line]
  <1>1. /\ DOMAIN document.header = 1..(3 + n)
        /\ n \in Nat
        /\ DOMAIN names = 1..n
        /\ document.header[1] = METADATA_COLUMNS[1]
        /\ \A k \in DOMAIN names : document.header[k + 3] = safe(names[k])
        /\ document.lines[line][1] = row.id
        /\ \A k \in DOMAIN names : document.lines[line][k + 3] = cell_of(row, names[k])
    BY DocumentLayout
  <1>2. \A i \in DOMAIN row.fields : \E k \in DOMAIN names : names[k] = row.fields[i].name
    BY EveryFieldHasAColumn
  <1> HIDE DEF document, names, n
  <1>3. ASSUME NEW i \in DOMAIN row.fields
        PROVE  /\ Columns(document, safe(row.fields[i].name)) # {}
               /\ Alone(document, safe(row.fields[i].name)) =>
                    Cell(document, line, safe(row.fields[i].name)) = Json(row.fields[i].values)
    <2> DEFINE name == row.fields[i].name
    <2>1. PICK k \in DOMAIN names : names[k] = name
      BY <1>2
    <2>2. k + 3 \in DOMAIN document.header /\ document.header[k + 3] = safe(name) /\ k + 3 \in Nat
      BY <1>1, <2>1
    <2>3. k + 3 \in Columns(document, safe(name))
      BY <2>2 DEF Columns
    <2>4. cell_of(row, name) = Json(row.fields[i].values)
      <3>1. name \in Range(NamesOf(row))
        BY DEF Range, NamesOf
      <3>2. \A j \in DOMAIN row.fields : row.fields[j].name = name => j = i
        BY DEF AreRows
      <3>3. (CHOOSE j \in DOMAIN row.fields : row.fields[j].name = name) = i
        BY <3>2
      <3> QED
        BY <3>1, <3>3 DEF cell_of
    <2>5. Alone(document, safe(name)) =>
            Cell(document, line, safe(name)) = document.lines[line][k + 3]
      BY <2>2, <2>3, AloneIsFound
    <2> QED
      BY <1>1, <2>1, <2>3, <2>4, <2>5
  <1>4. ASSUME NEW i \in (DOMAIN document.header) \ (1..3), Alone(document, document.header[i]),
               document.header[i] \notin {safe(name) : name \in Range(NamesOf(row))}
        PROVE  Cell(document, line, document.header[i]) = Empty
    <2> DEFINE k == i - 3
    <2>1. k \in DOMAIN names /\ i = k + 3 /\ i \in Nat
      BY <1>1
    <2>2. document.header[i] = safe(names[k]) /\ document.lines[line][i] = cell_of(row, names[k])
      BY <1>1, <2>1
    <2>3. i \in Columns(document, document.header[i])
      BY DEF Columns
    <2>4. Cell(document, line, document.header[i]) = document.lines[line][i]
      BY <1>4, <2>1, <2>3, AloneIsFound
    <2>5. names[k] \notin Range(NamesOf(row))
      BY <1>4, <2>2
    <2> QED
      BY <2>2, <2>4, <2>5 DEF cell_of
  <1>5. Alone(document, METADATA_COLUMNS[1]) =>
          Cell(document, line, METADATA_COLUMNS[1]) = row.id
    <2>1. 1 \in Columns(document, METADATA_COLUMNS[1])
      BY <1>1 DEF Columns
    <2> QED
      BY <1>1, <2>1, AloneIsFound
  <1> QED
    BY <1>3, <1>4, <1>5 DEF document

-----------------------------------------------------------------------------
(***************************************************************************)
(* The theorems.                                                           *)
(***************************************************************************)
\* The reader begins with nothing.
LEMMA ReadInvInit == Init => ReadInv
  <1> SUFFICES ASSUME Init PROVE ReadInv
    OBVIOUS
  <1>1. asked \in [kind : Kinds, filters : Filters]
    BY DEF Init
  <1>2. asked.filters \in FilterType
    <2>1. asked.filters \in Filters
      BY <1>1
    <2> QED
      BY <2>1, ListingAssumption DEF FilterType
  <1>3. /\ reader.pc = "ask" /\ reader.filters = asked.filters /\ reader.cursor = NoCursor
        /\ reader.seen = <<>> /\ reader.before = {} /\ reader \in ReaderType
    BY <1>2 DEF Init, ReaderType
  <1>4. Range(reader.seen) = {}
    BY <1>3 DEF Range
  <1>5. Types
    BY <1>1, <1>3, <1>4, FS_EmptySet DEF Init, Types
  <1> QED
    BY <1>3, <1>4, <1>5
       DEF ReadInv, WalkOrdered, CursorIsLast, CursorRest, WalkComplete, BoundIsLast, OlderRest,
           TimeWalkMissesOnlyTies, PollBound, PollRest, Overtaken

\* Every step of a writer and of the reader keeps the invariant.
LEMMA ReadInvStep == ReadInv /\ [Next]_vars => ReadInv'
  <1> SUFFICES ASSUME ReadInv, [Next]_vars PROVE ReadInv'
    OBVIOUS
  <1>1. CASE UNCHANGED vars
    <2>1. Types'
      BY <1>1 DEF ReadInv, Types, vars
    <2> QED
      BY <1>1, <2>1, WritersKeepReads DEF ReadInv, Types, ReaderType, vars
  <1>2. CASE Tick
    BY <1>2, TickKeeps
  <1>3. CASE \E s \in Submissions :
               build_submission(s) \/ CommitSubmission(s) \/ DeleteSubmission(s)
    BY <1>3, BuildKeeps, CommitKeeps, DeleteKeeps
  <1>4. CASE Ask \/ ResolveCursor \/ list_submissions \/ ContinueBelow \/ PollAgain
    BY <1>4, AskKeeps, ResolveKeeps, PageKeeps, BelowKeeps, PollAgainKeeps
  <1>5. CASE count_submissions \/ stream_submissions
    BY <1>5, ExportKeeps
  <1> QED
    BY <1>1, <1>2, <1>3, <1>4, <1>5 DEF Next

\* The invariant holds in every reachable state.
THEOREM ReadInvariant == Spec => []ReadInv
  BY ReadInvInit, ReadInvStep, PTL DEF Spec

\* A walk by cursor or by time returns nothing out of order and nothing twice, for any
\* number of submissions, any page size and whatever happens between two pages.
THEOREM WalksInOrder == Spec => []WalkOrdered
  <1>1. ReadInv => WalkOrdered
    BY DEF ReadInv
  <1> QED
    BY <1>1, ReadInvariant, PTL

\* A walk by cursor that ends has returned everything that was there when it began and
\* still is.
THEOREM WalksEndComplete == Spec => []WalkComplete
  <1>1. ReadInv => WalkComplete
    BY DEF ReadInv
  <1> QED
    BY <1>1, ReadInvariant, PTL

\* A walk by received_before loses only what shares its instant with the last row of a
\* full page.
THEOREM TimeWalksLoseOnlyTies == Spec => []TimeWalkMissesOnlyTies
  <1>1. ReadInv => TimeWalkMissesOnlyTies
    BY DEF ReadInv
  <1> QED
    BY <1>1, ReadInvariant, PTL

\* A poll by received_after loses only what was committed after it had passed its instant.
THEOREM PollsLoseOnlyLate == Spec => []PollMissesOnlyLate
  <1>1. ReadInv => PollMissesOnlyLate
    <2> SUFFICES ASSUME ReadInv, asked.kind = "newer", reader.pc = "end", reader.seen # <<>>,
                        NEW s \in narrowed(asked.filters), received_at[s] <= NewestSeen
                 PROVE  s \in Range(reader.seen) \cup reader.late
      BY DEF PollMissesOnlyLate
    <2>1. PICK i \in DOMAIN reader.seen : Newest(i)
      BY DEF ReadInv, PollBound
    <2>2. NewestSeen = received_at[reader.seen[i]] /\ NewestSeen \in Nat
      BY <2>1, NewestSeenIs DEF ReadInv
    <2>3. received_at[s] \in Nat
      BY DEF ReadInv, Types, narrowed
    <2>4. reader.seen[i] \in Range(reader.seen) /\ received_at[reader.seen[i]] >= received_at[s]
      BY <2>1, <2>2, <2>3 DEF Range
    <2>5. Overtaken(s)
      BY <2>4 DEF Overtaken
    <2> QED
      BY <2>5 DEF ReadInv, PollRest
  <1> QED
    BY <1>1, ReadInvariant, PTL

\* An export leaves out no more than what was committed between its count and its read,
\* and only what is older than all it returns, for any maximum and any number of rows.
THEOREM ExportsLoseOnlyToLate == Spec => []ExportLosesOnlyToLate
  <1>1. Init => ReadInv /\ ExportRest
    <2>1. ASSUME Init PROVE ExportRest
      BY <2>1 DEF Init, ExportRest, ExportLosesOnlyToLate
    <2> QED
      BY <2>1, ReadInvInit
  <1>2. (ReadInv /\ ExportRest) /\ [Next]_vars => (ReadInv /\ ExportRest)'
    <2> SUFFICES ASSUME ReadInv, ExportRest, [Next]_vars PROVE ReadInv' /\ ExportRest'
      OBVIOUS
    <2>1. ReadInv' /\ Types'
      BY ReadInvStep DEF ReadInv
    <2> QED
      BY <2>1, WriterStepKeepsExports, WalksKeepExports, ReadsKeepExports DEF Next
  <1>3. ExportRest => ExportLosesOnlyToLate
    BY DEF ExportRest
  <1> QED
    BY <1>1, <1>2, <1>3, PTL DEF Spec

\* A CSV export can be read back by its headers, whatever fields its submissions carry and
\* in whatever order they come.
THEOREM ExportsReadBack == Spec => []CsvReadsBack
  <1>1. Types => CsvReadsBack
    <2> SUFFICES ASSUME Types PROVE CsvReadsBack
      OBVIOUS
    <2>1. reader.seen \in Seq(Submissions)
      BY DEF Types, ReaderType
    <2>2. /\ DOMAIN Exported = 1..Len(reader.seen)
          /\ Exported = [i \in 1..Len(reader.seen) |-> Exported[i]]
      BY <2>1 DEF Exported
    <2>3. Len(Exported) = Len(reader.seen) /\ Len(reader.seen) \in Nat
      BY <2>1, <2>2
    <2>4. \A line \in DOMAIN Exported :
            reader.seen[line] \in Submissions /\ Exported[line].fields = FieldsOf[reader.seen[line]]
      BY <2>1, <2>2 DEF Exported
    <2>5. \A s \in Submissions :
            /\ Len(FieldsOf[s]) \in Nat
            /\ DOMAIN FieldsOf[s] = 1..Len(FieldsOf[s])
            /\ \A i, j \in DOMAIN FieldsOf[s] : FieldsOf[s][i].name = FieldsOf[s][j].name => i = j
      BY ListingAssumption
    <2>6. ASSUME NEW line \in DOMAIN Exported
          PROVE  /\ Len(Exported[line].fields) \in Nat
                 /\ DOMAIN Exported[line].fields = 1..Len(Exported[line].fields)
                 /\ \A i, j \in DOMAIN Exported[line].fields :
                      Exported[line].fields[i].name = Exported[line].fields[j].name => i = j
      <3>1. PICK s \in Submissions : Exported[line].fields = FieldsOf[s]
        BY <2>4
      <3> QED
        BY <3>1, <2>5
    <2>7. AreRows(Exported)
      BY <2>2, <2>3, <2>6 DEF AreRows
    <2> QED
      BY <2>7, DocumentReadsBack DEF CsvReadsBack
  <1>2. ReadInv => Types
    BY DEF ReadInv
  <1> QED
    BY <1>1, <1>2, ReadInvariant, PTL

=============================================================================
