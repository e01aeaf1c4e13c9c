---------------------------- MODULE EventListing ----------------------------
(***************************************************************************)
(* GET /events?account=... of the Event Gateway: pages of one account's    *)
(* events in the order of their stored timestamps, read by a client that   *)
(* walks through the pages while events arrive.  A request runs two        *)
(* SELECTs, the page's and the count's, and is not one transaction.        *)
(*                                                                         *)
(* to_utc_iso turns a timestamp into UTC and then into a string: isoformat *)
(* leaves the fraction out when it is zero, so the second is followed by   *)
(* "Z", or by "." and six digits.  SQLite compares these strings, and      *)
(* where two are equal keeps the order in which the rows were inserted.    *)
(***************************************************************************)
EXTENDS Integers, Sequences, FiniteSetsExt

CONSTANTS
  Stamps,    \* timestamps clients send: seconds, microseconds and UTC offset
  PageSize,  \* limit of the client's requests
  MaxEvents  \* bound of the model: events stored

Micros == {m \in Nat : m < 1000 * 1000}

ASSUME ListingAssumption ==
  /\ \A t \in Stamps : t.sec \in Int /\ t.micro \in Micros /\ t.offset \in Int
  /\ PageSize \in 1..500 /\ MaxEvents \in Nat

VARIABLES
  rows,    \* the account's events in insertion order: their timestamps
  known,   \* how many there were when the client asked for its first page
  pages,   \* the rows the client was shown so far, as positions in rows
  ended,   \* a page came back short: the client stops
  counting, \* a request has its page and not yet its count
  total    \* the count in the last answer

client == <<known, pages, ended, counting, total>>
vars == <<rows, client>>

TypeOK ==
  /\ rows \in Seq(Stamps) /\ Len(rows) <= MaxEvents
  /\ known \in 0..MaxEvents
  /\ pages \in Seq(1..MaxEvents) /\ Len(pages) <= MaxEvents
  /\ ended \in BOOLEAN /\ counting \in BOOLEAN
  /\ total \in 0..MaxEvents

Init ==
  /\ rows = <<>> /\ known = 0
  /\ pages = <<>> /\ ended = FALSE /\ counting = FALSE /\ total = 0

\* astimezone(timezone.utc): the instant.
Instant(t) == <<t.sec - t.offset, t.micro>>

\* Lexicographic order of sequences of numbers.
Less(a, b) == \E i \in 1..Len(b) :
  /\ \A j \in 1..(i - 1) : j <= Len(a) /\ a[j] = b[j]
  /\ i > Len(a) \/ a[i] < b[i]

\* Mutant: the offset is cut off, not applied.
LocalIso(t) == IF t.micro = 0 THEN <<t.sec, 90>> ELSE <<t.sec, 46, t.micro, 90>>

\* The string, up to what its comparison sees: the second, then the code of "Z",
\* or the code of "." and the fraction.
UtcIso(t) == IF t.micro = 0 THEN <<t.sec - t.offset, 90>>
             ELSE <<t.sec - t.offset, 46, t.micro, 90>>

\* ORDER BY event_timestamp, as positions in rows.
Before(i, j) == \/ Less(UtcIso(rows[i]), UtcIso(rows[j]))
                \/ UtcIso(rows[i]) = UtcIso(rows[j]) /\ i < j

\* A row stands behind as many rows as come before it.
Rank(i) == Cardinality({j \in DOMAIN rows : Before(j, i)})
Listing == [k \in DOMAIN rows |-> CHOOSE i \in DOMAIN rows : Rank(i) = k - 1]

\* OFFSET skip LIMIT PageSize.
Page(skip) == SubSeq(Listing, skip + 1, Min({skip + PageSize, Len(rows)}))

Insert(t) ==
  /\ Len(rows) < MaxEvents
  /\ rows' = Append(rows, t)
  /\ UNCHANGED client

ReadAt(skip) ==
  LET page == Page(skip)
  IN /\ ~ended /\ ~counting
     /\ pages' = pages \o page
     /\ known' = IF pages = <<>> THEN Len(rows) ELSE known
     /\ ended' = (Len(page) < PageSize)
     /\ counting' = TRUE
     /\ UNCHANGED <<rows, total>>

\* Mutants: a page begins with the last row of the one before; rows are counted
\* from 1.
PageOverlaps == ReadAt(Max({Len(pages) - 1, 0}))

PageFromOne == ReadAt(Len(pages) + 1)

\* The client asks for what follows the rows it has.
ReadPage == ReadAt(Len(pages))

\* Mutant: the number of items of the page.
CountItems ==
  /\ counting /\ counting' = FALSE
  /\ total' = Min({PageSize, Len(pages)})
  /\ UNCHANGED <<rows, known, pages, ended>>

Count ==
  /\ counting /\ counting' = FALSE
  /\ total' = Len(rows)
  /\ UNCHANGED <<rows, known, pages, ended>>

Next == ReadPage \/ Count \/ \E t \in Stamps : Insert(t)

Spec == Init /\ [][Next]_vars

-----------------------------------------------------------------------------

Earlier(s, t) == Less(Instant(s), Instant(t))

\* README.md:25, "listings sort by real UTC chronology, even when upstream submits
\* the same instant with different timezone offsets".
Chronological == LET list == Listing IN
  \A i, j \in DOMAIN list : i < j => ~Earlier(rows[list[j]], rows[list[i]])

\* Walking through the pages, a client is shown every event that was stored when
\* it began, however many arrive meanwhile and wherever they sort: an arrival can
\* only repeat an event, never hide one.
NoEventSkipped == ended => \A i \in 1..known : \E k \in DOMAIN pages : pages[k] = i

\* An answer's total covers the rows shown up to it, although other events arrive
\* between its two SELECTs: a client that compares the two never finds more rows
\* than there are.
TotalCoversPages == ~counting => Len(pages) <= total
=============================================================================
