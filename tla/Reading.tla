------------------------------- MODULE Reading -------------------------------
(***************************************************************************)
(* Reading the lists page by page while others write: the GET endpoints of *)
(* routers/ca_areas.py, routers/ca_activities.py and routers/str_areas.py  *)
(* with offset and limit, on the serial specification Sdep.                *)
(*                                                                         *)
(* A page is one SELECT ... ORDER BY created_at DESC OFFSET .. LIMIT ..;   *)
(* nothing is kept between two pages.  Rows with the same created_at may   *)
(* come in any order, and in another one in the next page.                 *)
(***************************************************************************)
EXTENDS Sdep

CONSTANT Limits  \* the page sizes of readers (1 to 1000 in the routers)

ASSUME ReadingConstantsAssumption == Limits \subseteq Nat \ {0}

VARIABLE
  reader  \* what a client that reads a whole list has done

readingVars == <<vars, reader>>

(***************************************************************************)
(* list, of: the endpoint and the authority of the token; limit, offset:   *)
(* of the next page; since: the time of the latest transaction when it     *)
(* began; shown, twice: rows it has got, once or more; done: the latest    *)
(* page was not full.                                                      *)
(***************************************************************************)
Lists == {"own areas", "all areas", "activities"}

NotReading ==
  [list |-> "none", of |-> NoId, limit |-> 0, offset |-> 0, since |-> 0,
   shown |-> {}, twice |-> {}, done |-> FALSE]

-----------------------------------------------------------------------------
(***************************************************************************)
(* The lists                                                               *)
(***************************************************************************)

\* Every version that a list may ever show, ended or not.
Rows(list, ca) ==
  CASE list = "own areas"  -> {i \in DOMAIN area : OwnerOf(i) = ca}
    [] list = "all areas"  -> DOMAIN area
    [] list = "activities" -> {i \in DOMAIN activity : OwnerOf(activity[i].area) = ca}
    [] list = "none"       -> {}

Row(list, i) == IF list = "activities" THEN activity[i] ELSE area[i]

\* What the SELECT of an endpoint finds, before OFFSET and LIMIT.
Listed(list, ca) ==
  CASE list = "own areas"  -> OwnAreas(ca)
    [] list = "all areas"  -> AllAreas
    [] list = "activities" -> ActivitiesOf(ca)
    [] list = "none"       -> {}

\* The answers of GET .../count.
CountOf(list, ca) == Cardinality(Listed(list, ca))

\* ORDER BY created_at DESC; wrong: the oldest first.
Bug_OldestFirst(list, i, j) == Row(list, i).createdAt <= Row(list, j).createdAt
MayPrecede(list, i, j) == Row(list, i).createdAt >= Row(list, j).createdAt

\* S comes before the rest of the rows.
Leads(list, S, rows) == \A i \in S, j \in rows \ S : MayPrecede(list, i, j)

Lesser(m, n) == IF m <= n THEN m ELSE n

\* The pages that the database may return.  Wrong: one row too many.
Bug_OneTooMany(list, rows, offset, limit) ==
  {p[2] \ p[1] : p \in
     {p \in (SUBSET rows) \X (SUBSET rows) :
        /\ p[1] \subseteq p[2]
        /\ Cardinality(p[1]) = Lesser(offset, Cardinality(rows))
        /\ Cardinality(p[2]) = Lesser(offset + limit + 1, Cardinality(rows))
        /\ Leads(list, p[1], rows) /\ Leads(list, p[2], rows)}}
Pages(list, rows, offset, limit) ==
  {p[2] \ p[1] : p \in
     {p \in (SUBSET rows) \X (SUBSET rows) :
        /\ p[1] \subseteq p[2]
        /\ Cardinality(p[1]) = Lesser(offset, Cardinality(rows))
        /\ Cardinality(p[2]) = Lesser(offset + limit, Cardinality(rows))
        /\ Leads(list, p[1], rows) /\ Leads(list, p[2], rows)}}

-----------------------------------------------------------------------------
(***************************************************************************)
(* Reading                                                                 *)
(***************************************************************************)

\* A client begins to read a list from its first row on.
BeginReading(list, ca, limit) ==
  /\ reader.list = "none"
  /\ reader' = [NotReading EXCEPT !.list = list, !.of = ca, !.limit = limit, !.since = now]
  /\ UNCHANGED vars

\* GET with offset and limit.  The client asks for the next page until one is
\* not full.
ReadPage ==
  /\ reader.list # "none" /\ ~reader.done
  /\ \E page \in Pages(reader.list, Listed(reader.list, reader.of), reader.offset, reader.limit) :
        reader' = [reader EXCEPT !.offset = @ + reader.limit,
                                 !.shown = @ \cup page,
                                 !.twice = @ \cup (page \cap reader.shown),
                                 !.done = Cardinality(page) < reader.limit]
  /\ UNCHANGED vars

\* A request that writes comes in between, or after the reader is done.
Write == Next /\ reader' = IF reader.done THEN NotReading ELSE reader

ReadingInit == Init /\ reader = NotReading

ReadingNext ==
  \/ Write
  \/ \E list \in Lists, ca \in CompetentAuthorities, limit \in Limits :
        BeginReading(list, ca, limit)
  \/ ReadPage

ReadingSpec == ReadingInit /\ [][ReadingNext]_readingVars

-----------------------------------------------------------------------------
(***************************************************************************)
(* Properties                                                              *)
(***************************************************************************)

RowsRead == Rows(reader.list, reader.of)
RowRead(i) == Row(reader.list, i)

\* Another row with the same time, whose order the statement leaves open.
Tied(i) == \E j \in RowsRead \ {i} : RowRead(j).createdAt = RowRead(i).createdAt

\* A row that has left the list since the reader began, and has not been
\* replaced by a version that is in the list.
Gone(j) ==
  /\ ~IsCurrent(RowRead(j)) /\ RowRead(j).endedAt > reader.since
  /\ \A k \in RowsRead : /\ RowRead(k).fid = RowRead(j).fid
                         => RowRead(k).createdAt # RowRead(j).endedAt

\* Rows that were current from when the reader began until now.
CurrentThroughout ==
  {i \in Listed(reader.list, reader.of) : RowRead(i).createdAt <= reader.since}

\* A reader that is done has seen every row that was current throughout, and
\* none twice, although rows came and went between its pages: a row is missed
\* only if a newer one left the list for good, and is seen twice only if a
\* newer one came; resubmissions make no reader miss a row that is not
\* resubmitted itself.  Rows of one batch tie, and with them all bets are off.
PagesMeet ==
  reader.done =>
    /\ \A i \in CurrentThroughout \ reader.shown :
          Tied(i) \/ \E j \in RowsRead : MayPrecede(reader.list, j, i) /\ Gone(j)
    /\ \A i \in reader.twice :
          Tied(i) \/ \E j \in RowsRead : RowRead(j).createdAt > reader.since

\* Pages of a list that nobody writes to meanwhile repeat no row and miss none
\* (what docs/INTEGRATION_TESTS.md calls pagination consistency), ties or not.
UnchangedListReadOnce ==
  (reader.done /\ \A i \in RowsRead : /\ RowRead(i).createdAt <= reader.since
                                      /\ RowRead(i).endedAt <= reader.since)
    => reader.twice = {} /\ reader.shown = Listed(reader.list, reader.of)
=============================================================================
