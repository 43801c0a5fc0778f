---------------------------- MODULE ReadingProofs ----------------------------
(***************************************************************************)
(* What a client gets that reads a list page by page while others write,   *)
(* for lists of any length, pages of any size and any requests in between. *)
(***************************************************************************)
EXTENDS Reading, SdepProofs

\* What readers do never shows in the tables.
LEMMA ReadingImplementsSdep == ReadingSpec => Spec
<1>1. ReadingInit => Init
  BY DEF ReadingInit
<1>2. [ReadingNext]_readingVars => [Next]_vars
  BY DEF ReadingNext, Write, BeginReading, ReadPage, readingVars
<1> QED
  BY <1>1, <1>2, PTL DEF ReadingSpec, Spec

-----------------------------------------------------------------------------
(***************************************************************************)
(* One page.  The rows ahead of row i are those that every SELECT with     *)
(* ORDER BY created_at DESC returns before it.                             *)
(***************************************************************************)
RowsAhead(list, rows, i) ==
  {j \in rows : Row(list, j).createdAt > Row(list, i).createdAt}

\* Where a row without ties stands is all that decides on which page it is,
\* and a page that stops short of it is full.
LEMMA PageOfRow ==
  ASSUME NEW list, NEW rows, IsFiniteSet(rows), NEW offset \in Nat, NEW limit \in Nat,
         \A j \in rows : Row(list, j).createdAt \in Nat,
         NEW page \in Pages(list, rows, offset, limit), NEW i \in rows,
         \A j \in rows : j # i => Row(list, j).createdAt # Row(list, i).createdAt
  PROVE  LET ahead == Cardinality(RowsAhead(list, rows, i))
         IN  /\ ahead \in Nat
             /\ (offset <= ahead /\ i \notin page)
                  => offset + limit <= ahead /\ Cardinality(page) = limit
             /\ i \in page => offset <= ahead /\ ahead < offset + limit
<1> DEFINE A == RowsAhead(list, rows, i)
<1>1. PICK from, to : /\ from \subseteq to /\ to \subseteq rows /\ page = to \ from
                      /\ Cardinality(from) = Lesser(offset, Cardinality(rows))
                      /\ Cardinality(to) = Lesser(offset + limit, Cardinality(rows))
                      /\ Leads(list, from, rows) /\ Leads(list, to, rows)
  <2>1. PICK p \in {p \in (SUBSET rows) \X (SUBSET rows) :
                      /\ p[1] \subseteq p[2]
                      /\ Cardinality(p[1]) = Lesser(offset, Cardinality(rows))
                      /\ Cardinality(p[2]) = Lesser(offset + limit, Cardinality(rows))
                      /\ Leads(list, p[1], rows) /\ Leads(list, p[2], rows)} :
                 page = p[2] \ p[1]
    BY DEF Pages
  <2> QED
    BY <2>1
<1>2. /\ A \subseteq rows /\ i \notin A
      /\ \A j \in rows : j \in A <=> Row(list, j).createdAt > Row(list, i).createdAt
  BY DEF RowsAhead
<1>3. \A S \in SUBSET rows :
        Leads(list, S, rows) => /\ i \in S => A \cup {i} \subseteq S
                                /\ i \notin S => S \subseteq A
  <2> SUFFICES ASSUME NEW S \in SUBSET rows, Leads(list, S, rows)
               PROVE  /\ i \in S => A \cup {i} \subseteq S
                      /\ i \notin S => S \subseteq A
    OBVIOUS
  <2>1. ASSUME i \in S, NEW j \in A, j \notin S PROVE FALSE
    <3>1. Row(list, i).createdAt >= Row(list, j).createdAt
      BY <1>2, <2>1 DEF Leads, MayPrecede
    <3> QED
      BY <1>2, <2>1, <3>1
  <2>2. ASSUME i \notin S, NEW j \in S PROVE j \in A
    <3>1. Row(list, j).createdAt >= Row(list, i).createdAt
      BY <2>2 DEF Leads, MayPrecede
    <3>2. Row(list, j).createdAt # Row(list, i).createdAt
      BY <2>2
    <3> QED
      BY <1>2, <2>2, <3>1, <3>2
  <2> QED
    BY <2>1, <2>2
<1> HIDE DEF A
<1>4. /\ IsFiniteSet(A) /\ IsFiniteSet(from) /\ IsFiniteSet(to)
      /\ Cardinality(A) \in Nat /\ Cardinality(rows) \in Nat
      /\ Cardinality(from) \in Nat /\ Cardinality(to) \in Nat
  <2>1. IsFiniteSet(A) /\ IsFiniteSet(from) /\ IsFiniteSet(to)
    BY <1>1, <1>2, FS_Subset
  <2> QED
    BY <2>1, FS_CardinalityType
<1>5. IsFiniteSet(A \cup {i}) /\ Cardinality(A \cup {i}) = Cardinality(A) + 1
  BY <1>2, <1>4, FS_AddElement
<1>6. ASSUME NEW S \in SUBSET rows, IsFiniteSet(S), Leads(list, S, rows), NEW n \in Nat,
             Cardinality(S) = Lesser(n, Cardinality(rows))
      PROVE  /\ i \in S => Cardinality(A) < n
             /\ i \notin S => n <= Cardinality(A) /\ Cardinality(S) = n
  <2>0. Cardinality(S) \in Nat
    BY <1>6, FS_CardinalityType
  <2>1. ASSUME i \in S PROVE Cardinality(A) < n
    <3>1. Cardinality(A \cup {i}) <= Cardinality(S)
      BY <1>3, <1>6, <2>1, FS_Subset
    <3> QED
      BY <1>4, <1>5, <1>6, <2>0, <3>1 DEF Lesser
  <2>2. ASSUME i \notin S PROVE n <= Cardinality(A) /\ Cardinality(S) = n
    <3>1. Cardinality(S) <= Cardinality(A)
      BY <1>3, <1>4, <1>6, <2>2, FS_Subset
    <3>2. S # rows
      BY <2>2
    <3>3. Cardinality(S) # Cardinality(rows)
      BY <3>2, FS_Subset
    <3> QED
      BY <1>4, <1>6, <2>0, <3>1, <3>3 DEF Lesser
  <2> QED
    BY <2>1, <2>2
<1>7. /\ i \in from => Cardinality(A) < offset
      /\ i \notin from => offset <= Cardinality(A) /\ Cardinality(from) = offset
  BY <1>1, <1>4, <1>6
<1>8. /\ i \in to => Cardinality(A) < offset + limit
      /\ i \notin to => offset + limit <= Cardinality(A) /\ Cardinality(to) = offset + limit
  <2>1. offset + limit \in Nat
    OBVIOUS
  <2> QED
    BY <1>1, <1>4, <1>6, <2>1
<1>9. ASSUME i \notin to PROVE Cardinality(page) = limit
  <2>1. Cardinality(to \ from) = Cardinality(to) - Cardinality(to \cap from)
    BY <1>4, FS_Difference
  <2>2. to \cap from = from /\ page = to \ from /\ i \notin from
    BY <1>1, <1>9
  <2>3. Cardinality(to) = offset + limit /\ Cardinality(from) = offset
    BY <1>7, <1>8, <1>9, <2>2
  <2>4. Cardinality(page) = (offset + limit) - offset
    BY <2>1, <2>2, <2>3
  <2> QED
    BY <2>4
<1>10. /\ (offset <= Cardinality(A) /\ i \notin page)
            => offset + limit <= Cardinality(A) /\ Cardinality(page) = limit
       /\ i \in page => offset <= Cardinality(A) /\ Cardinality(A) < offset + limit
  BY <1>1, <1>4, <1>7, <1>8, <1>9
<1> QED
  BY <1>4, <1>10 DEF A

-----------------------------------------------------------------------------
(***************************************************************************)
(* A list and the requests that change it.                                 *)
(***************************************************************************)

\* The rows of a list have a time, and the list shows the current ones.
LEMMA ListRows ==
  ASSUME SdepInv, NEW list \in Lists, NEW ca
  PROVE  /\ IsFiniteSet(Rows(list, ca))
         /\ Rows(list, ca) \subseteq Nat
         /\ \A i \in Rows(list, ca) : /\ Row(list, i).createdAt \in Nat
                                      /\ Row(list, i).createdAt <= now
         /\ Listed(list, ca) = {i \in Rows(list, ca) : IsCurrent(Row(list, i))}
<1> DEFINE table == IF list = "activities" THEN activity ELSE area
<1>1. Rows(list, ca) \subseteq DOMAIN table
  BY DEF Rows, Lists
<1>2. /\ DOMAIN table = 1..Len(table) /\ Len(table) \in Nat
      /\ \A i \in DOMAIN table : table[i].createdAt \in Nat /\ table[i].createdAt <= now
  <2>1. /\ area \in Seq(AreaRow) /\ activity \in Seq(ActivityRow)
        /\ ProperIntervals(area, now) /\ ProperIntervals(activity, now)
    BY SdepTypes DEF SdepInv, AreaInv
  <2>2. /\ DOMAIN area = 1..Len(area) /\ Len(area) \in Nat
        /\ \A i \in DOMAIN area : area[i].createdAt \in Nat /\ area[i].createdAt <= now
    <3>1. \A i \in DOMAIN area : area[i] \in AreaRow
      BY <2>1
    <3>2. \A i \in DOMAIN area : area[i].createdAt \in Nat
      BY <3>1 DEF AreaRow
    <3>3. DOMAIN area = 1..Len(area) /\ Len(area) \in Nat
      BY <2>1
    <3> QED
      BY <2>1, <3>2, <3>3 DEF ProperIntervals
  <2>3. /\ DOMAIN activity = 1..Len(activity) /\ Len(activity) \in Nat
        /\ \A i \in DOMAIN activity : activity[i].createdAt \in Nat /\ activity[i].createdAt <= now
    <3>1. \A i \in DOMAIN activity : activity[i] \in ActivityRow
      BY <2>1
    <3>2. \A i \in DOMAIN activity : activity[i].createdAt \in Nat
      BY <3>1 DEF ActivityRow
    <3>3. DOMAIN activity = 1..Len(activity) /\ Len(activity) \in Nat
      BY <2>1
    <3> QED
      BY <2>1, <3>2, <3>3 DEF ProperIntervals
  <2>4. CASE list = "activities"
    BY <2>3, <2>4
  <2>5. CASE list # "activities"
    BY <2>2, <2>5
  <2> QED
    BY <2>4, <2>5
<1>3. \A i : Row(list, i) = table[i]
  BY DEF Row
<1>4. Listed(list, ca) = {i \in Rows(list, ca) : IsCurrent(Row(list, i))}
  <2>1. CASE list = "own areas"
    BY <2>1 DEF Listed, Rows, Row, OwnAreas
  <2>2. CASE list = "all areas"
    BY <2>2 DEF Listed, Rows, Row, AllAreas
  <2>3. CASE list = "activities"
    BY <2>3 DEF Listed, Rows, Row, ActivitiesOf
  <2> QED
    BY <2>1, <2>2, <2>3 DEF Lists
<1> HIDE DEF table
<1>5. IsFiniteSet(DOMAIN table)
  BY <1>2, FS_Interval
<1> QED
  BY <1>1, <1>2, <1>3, <1>4, <1>5, FS_Subset

\* The authority an area belongs to never changes.
LEMMA OwnerKept ==
  ASSUME SdepInv, Next, NEW a \in DOMAIN area
  PROVE  a \in DOMAIN area' /\ OwnerOf(a)' = OwnerOf(a)
<1>1. CASE ActivityRequest
  BY <1>1, ActivityRequestIsOther DEF OtherTransaction, OwnerOf
<1>2. CASE AreaRequest
  <2>1. PICK caIds, areaIds : AreaWrites(caIds, areaIds)
    BY <1>2, AreaStepWrites DEF SdepInv, AreaNext
  <2>2. /\ area[a] \in AreaRow
        /\ area[a].competentAuthority \in DOMAIN competentAuthority
    BY SdepTypes DEF SdepInv, AreaInv, AreaTypeOK
  <2>3. /\ a \in DOMAIN area'
        /\ area'[a] = area[a] \/ area'[a] = [area[a] EXCEPT !.endedAt = now']
    BY <2>1, SdepTypes DEF AreaWrites, Writes
  <2>4. area'[a].competentAuthority = area[a].competentAuthority
    BY <2>2, <2>3 DEF AreaRow
  <2>5. \A o \in DOMAIN competentAuthority : competentAuthority'[o].fid = competentAuthority[o].fid
    BY <2>1 DEF AreaWrites, Writes
  <2> QED
    BY <2>2, <2>3, <2>4, <2>5 DEF OwnerOf
<1> QED
  BY <1>1, <1>2 DEF Next

\* A request adds rows to a list at the time of its transaction, and ends rows
\* of it at that time; the other rows stay as they are.
LEMMA ListWritten ==
  ASSUME SdepInv, Next, NEW list \in Lists, NEW ca
  PROVE  /\ now' = now + 1
         /\ \A i \in Rows(list, ca) :
               /\ i \in Rows(list, ca)'
               /\ Row(list, i)'.fid = Row(list, i).fid
               /\ Row(list, i)'.createdAt = Row(list, i).createdAt
               /\ \/ Row(list, i)' = Row(list, i)
                  \/ IsCurrent(Row(list, i)) /\ Row(list, i)'.endedAt = now'
         /\ \A k \in Rows(list, ca)' :
               k \notin Rows(list, ca) => /\ Row(list, k)'.createdAt = now'
                                          /\ IsCurrent(Row(list, k)')
<1>1. PICK areaIds, pIds, aIds : SdepWrites(areaIds, pIds, aIds)
  BY SdepStepWrites
<1>2. CASE list \in {"own areas", "all areas"}
  <2>1. \A i \in DOMAIN area :
          /\ i \in DOMAIN area' /\ OwnerOf(i)' = OwnerOf(i)
          /\ area'[i].fid = area[i].fid
          /\ area'[i].createdAt = area[i].createdAt
          /\ area'[i] = area[i] \/ (IsCurrent(area[i]) /\ area'[i].endedAt = now')
    BY <1>1, OwnerKept DEF SdepWrites, Writes
  <2>2. \A k \in DOMAIN area' :
          k \notin DOMAIN area => area'[k].createdAt = now' /\ IsCurrent(area'[k])
    BY <1>1 DEF SdepWrites, Writes, IsCurrent
  <2> QED
    BY <1>1, <1>2, <2>1, <2>2 DEF Rows, Row, SdepWrites, IsCurrent
<1>3. CASE list = "activities"
  <2>1. \A i \in DOMAIN activity :
          /\ i \in DOMAIN activity'
          /\ activity'[i].fid = activity[i].fid
          /\ activity'[i].createdAt = activity[i].createdAt
          /\ activity'[i].area = activity[i].area
          /\ activity'[i] = activity[i] \/ (IsCurrent(activity[i]) /\ activity'[i].endedAt = now')
    BY <1>1, ActivityKept DEF SdepWrites, Writes
  <2>2. \A i \in DOMAIN activity : OwnerOf(activity[i].area)' = OwnerOf(activity[i].area)
    <3> SUFFICES ASSUME NEW i \in DOMAIN activity
                 PROVE  OwnerOf(activity[i].area)' = OwnerOf(activity[i].area)
      OBVIOUS
    <3>1. PICK a \in DOMAIN area : a = activity[i].area
      BY DEF SdepInv, TypeOK
    <3>2. OwnerOf(a)' = OwnerOf(a)
      BY OwnerKept
    <3> QED
      BY <2>1, <3>1, <3>2 DEF OwnerOf
  <2>3. \A k \in DOMAIN activity' :
          k \notin DOMAIN activity => activity'[k].createdAt = now' /\ IsCurrent(activity'[k])
    BY <1>1 DEF SdepWrites, Writes, IsCurrent
  <2> DEFINE R == {i \in DOMAIN activity : OwnerOf(activity[i].area) = ca}
  <2>4. /\ Rows(list, ca) = R /\ Rows(list, ca)' = R'
        /\ \A i : Row(list, i) = activity[i] /\ Row(list, i)' = activity'[i]
    BY <1>3 DEF Rows, Row
  <2>5. \A i \in R : i \in DOMAIN activity /\ i \in R'
    BY <2>1, <2>2
  <2>6. \A k \in R' : k \notin R => k \in DOMAIN activity' /\ k \notin DOMAIN activity
    BY <2>1, <2>2
  <2> HIDE DEF R
  <2> QED
    BY <1>1, <2>1, <2>3, <2>4, <2>5, <2>6 DEF SdepWrites
<1> QED
  BY <1>2, <1>3 DEF Lists

-----------------------------------------------------------------------------
(***************************************************************************)
(* The invariant of a reader.  A row that it has not got yet and that was  *)
(* current throughout has at least as many rows ahead of it as the reader  *)
(* has skipped; a row that it has got has fewer, unless rows came.         *)
(***************************************************************************)
Ahead(i) == RowsAhead(reader.list, Listed(reader.list, reader.of), i)

RowCameSince == \E j \in RowsRead : RowRead(j).createdAt > reader.since

NewerGone(i) == \E j \in RowsRead : MayPrecede(reader.list, j, i) /\ Gone(j)

ReaderTypeOK ==
  /\ reader \in [list: Lists \cup {"none"}, of: CompetentAuthorities \cup {NoId},
                 limit: Nat, offset: Nat, since: Nat, shown: SUBSET Nat,
                 twice: SUBSET Nat, done: BOOLEAN]
  /\ reader.list = "none" => reader = NotReading
  /\ reader.since <= now
  /\ reader.twice \subseteq reader.shown
  /\ reader.shown \subseteq RowsRead

\* Versions of the rows of the list follow each other: of activities, only
\* while platforms use the single endpoint.
ListIsStacked == reader.list = "activities" => MaxBatch = 0

MissedOnlyIfGone ==
  ListIsStacked =>
    \A i \in CurrentThroughout \ reader.shown :
       \/ Tied(i) \/ NewerGone(i)
       \/ ~reader.done /\ reader.offset <= Cardinality(Ahead(i))

ShownIsBehind ==
  \A i \in reader.shown :
     Tied(i) \/ RowCameSince \/ Cardinality(Ahead(i)) < reader.offset

TwiceOnlyIfCame == \A i \in reader.twice : Tied(i) \/ RowCameSince

ReadingInv ==
  /\ ReaderTypeOK
  /\ MissedOnlyIfGone
  /\ ShownIsBehind
  /\ TwiceOnlyIfCame

\* A client that begins has skipped nothing and has nothing.
LEMMA BeginningInv ==
  ASSUME SdepInv, ReadingInv,
         NEW list \in Lists, NEW ca \in CompetentAuthorities, NEW limit \in Limits,
         BeginReading(list, ca, limit)
  PROVE  ReadingInv'
<1>1. /\ reader' = [list |-> list, of |-> ca, limit |-> limit, offset |-> 0,
                    since |-> now, shown |-> {}, twice |-> {}, done |-> FALSE]
      /\ UNCHANGED vars
  BY DEF BeginReading, NotReading
<1>2. now \in Nat /\ limit \in Nat /\ list # "none" /\ now' = now
  BY <1>1, SdepTypes, ReadingConstantsAssumption DEF Lists, vars, areaVars
<1>3. ReaderTypeOK'
  BY <1>1, <1>2 DEF ReaderTypeOK
<1>4. \A i : ~reader'.done /\ reader'.offset <= Cardinality(Ahead(i)')
  <2> SUFFICES ASSUME NEW i PROVE 0 <= Cardinality(Ahead(i)')
    BY <1>1
  <2>1. IsFiniteSet(Rows(list, ca)) /\ Listed(list, ca) \subseteq Rows(list, ca)
    BY ListRows
  <2>2. Listed(list, ca)' = Listed(list, ca)
    BY <1>1 DEF vars, areaVars, activityVars, Listed, OwnAreas, AllAreas, ActivitiesOf,
                OwnerOf, IsCurrent
  <2>3. Ahead(i)' \subseteq Listed(list, ca)'
    BY <1>1 DEF Ahead, RowsAhead, Listed, OwnAreas, AllAreas, ActivitiesOf, OwnerOf, IsCurrent
  <2>4. IsFiniteSet(Ahead(i)')
    BY <2>1, <2>2, <2>3, FS_Subset
  <2> QED
    BY <2>4, FS_CardinalityType
<1>5. MissedOnlyIfGone'
  BY <1>4 DEF MissedOnlyIfGone
<1>6. ShownIsBehind' /\ TwiceOnlyIfCame'
  BY <1>1 DEF ShownIsBehind, TwiceOnlyIfCame
<1> QED
  BY <1>3, <1>5, <1>6 DEF ReadingInv

\* While nobody writes, what a reader sees of its list stays the same.
LEMMA ListUnchanged ==
  ASSUME UNCHANGED vars, reader'.list = reader.list, reader'.of = reader.of,
         reader'.since = reader.since
  PROVE  /\ RowsRead' = RowsRead
         /\ CurrentThroughout' = CurrentThroughout
         /\ RowCameSince' = RowCameSince
         /\ ListIsStacked' = ListIsStacked
         /\ \A i : /\ Ahead(i)' = Ahead(i)
                   /\ Tied(i)' = Tied(i)
                   /\ NewerGone(i)' = NewerGone(i)
<1>1. /\ area' = area /\ activity' = activity /\ competentAuthority' = competentAuthority
  BY DEF vars, areaVars, activityVars
<1>2. \A i : RowRead(i)' = RowRead(i) /\ Row(reader.list, i)' = Row(reader.list, i)
  BY <1>1 DEF RowRead, Row
<1>3. RowsRead' = RowsRead
  BY <1>1 DEF RowsRead, Rows, OwnerOf
<1>4. Listed(reader.list, reader.of)' = Listed(reader.list, reader.of)
  BY <1>1 DEF Listed, OwnAreas, AllAreas, ActivitiesOf, OwnerOf, IsCurrent
<1>5. CurrentThroughout' = CurrentThroughout
  BY <1>2, <1>4 DEF CurrentThroughout
<1>6. RowCameSince' = RowCameSince
  BY <1>2, <1>3 DEF RowCameSince
<1>7. \A i : Ahead(i)' = Ahead(i)
  BY <1>2, <1>4 DEF Ahead, RowsAhead
<1>8. \A i : Tied(i)' = Tied(i)
  BY <1>2, <1>3 DEF Tied
<1>9. \A i : Gone(i)' = Gone(i)
  BY <1>2, <1>3 DEF Gone, IsCurrent
<1>10. \A i, j : MayPrecede(reader.list, j, i)' = MayPrecede(reader.list, j, i)
  BY <1>2 DEF MayPrecede
<1>11. \A i : NewerGone(i)' = NewerGone(i)
  BY <1>3, <1>9, <1>10 DEF NewerGone
<1> QED
  BY <1>3, <1>5, <1>6, <1>7, <1>8, <1>11 DEF ListIsStacked

\* The next page: what it shows was not shown before unless rows came, and a
\* row that it does not reach has all of the page ahead of it.
LEMMA NextPageInv ==
  ASSUME SdepInv, ReadingInv, ReadPage
  PROVE  ReadingInv'
<1> DEFINE rows == Listed(reader.list, reader.of)
<1>1. /\ reader.list \in Lists /\ ~reader.done /\ UNCHANGED vars
      /\ reader.offset \in Nat /\ reader.limit \in Nat
  BY DEF ReadPage, ReadingInv, ReaderTypeOK
<1>2. PICK page \in Pages(reader.list, rows, reader.offset, reader.limit) :
        reader' = [reader EXCEPT !.offset = @ + reader.limit,
                                 !.shown = @ \cup page,
                                 !.twice = @ \cup (page \cap reader.shown),
                                 !.done = Cardinality(page) < reader.limit]
  BY DEF ReadPage
<1>3. /\ reader'.list = reader.list /\ reader'.of = reader.of
      /\ reader'.limit = reader.limit /\ reader'.since = reader.since
      /\ reader'.offset = reader.offset + reader.limit
      /\ reader'.shown = reader.shown \cup page
      /\ reader'.twice = reader.twice \cup (page \cap reader.shown)
      /\ reader'.done = (Cardinality(page) < reader.limit)
  BY <1>2 DEF ReadingInv, ReaderTypeOK
<1>4. /\ rows \subseteq RowsRead /\ RowsRead \subseteq Nat /\ IsFiniteSet(rows)
      /\ \A i \in RowsRead : RowRead(i).createdAt \in Nat
      /\ \A i : RowRead(i) = Row(reader.list, i)
  <2>1. /\ IsFiniteSet(Rows(reader.list, reader.of))
        /\ Rows(reader.list, reader.of) \subseteq Nat
        /\ \A i \in Rows(reader.list, reader.of) : Row(reader.list, i).createdAt \in Nat
        /\ rows \subseteq Rows(reader.list, reader.of)
    BY <1>1, ListRows
  <2>2. IsFiniteSet(rows)
    BY <2>1, FS_Subset
  <2> QED
    BY <2>1, <2>2 DEF RowsRead, RowRead
<1>5. page \subseteq rows
  BY <1>2 DEF Pages
<1>6. ReaderTypeOK'
  <2>1. RowsRead' = RowsRead /\ now' = now
    BY <1>1, <1>3, ListUnchanged DEF vars, areaVars
  <2>2. (Cardinality(page) < reader.limit) \in BOOLEAN
    OBVIOUS
  <2>3. reader.offset + reader.limit \in Nat
    BY <1>1
  <2>4. reader'.shown \subseteq RowsRead /\ page \subseteq Nat
    BY <1>3, <1>4, <1>5 DEF ReadingInv, ReaderTypeOK
  <2>5. reader' \in [list: Lists \cup {"none"}, of: CompetentAuthorities \cup {NoId},
                     limit: Nat, offset: Nat, since: Nat, shown: SUBSET Nat,
                     twice: SUBSET Nat, done: BOOLEAN]
    BY <1>2, <2>2, <2>3, <2>4 DEF ReadingInv, ReaderTypeOK
  <2>6. reader'.list # "none"
    BY <1>1, <1>3 DEF Lists
  <2> QED
    BY <1>3, <2>1, <2>4, <2>5, <2>6 DEF ReadingInv, ReaderTypeOK
<1>7. ASSUME NEW i \in rows, ~Tied(i)
      PROVE  /\ Cardinality(Ahead(i)) \in Nat
             /\ (reader.offset <= Cardinality(Ahead(i)) /\ i \notin page)
                  => /\ reader.offset + reader.limit <= Cardinality(Ahead(i))
                     /\ Cardinality(page) = reader.limit
             /\ i \in page => /\ reader.offset <= Cardinality(Ahead(i))
                              /\ Cardinality(Ahead(i)) < reader.offset + reader.limit
  <2>1. /\ \A j \in rows : Row(reader.list, j).createdAt \in Nat
        /\ \A j \in rows : j # i => Row(reader.list, j).createdAt # Row(reader.list, i).createdAt
    BY <1>4, <1>7 DEF Tied
  <2>2. Ahead(i) = RowsAhead(reader.list, rows, i)
    BY DEF Ahead
  <2>3. page \in Pages(reader.list, rows, reader.offset, reader.limit)
    BY <1>2
  <2> DEFINE list == reader.list
             offset == reader.offset
             limit == reader.limit
             ahead == RowsAhead(list, rows, i)
  <2>4. /\ IsFiniteSet(rows) /\ offset \in Nat /\ limit \in Nat /\ i \in rows
        /\ \A j \in rows : Row(list, j).createdAt \in Nat
        /\ \A j \in rows : j # i => Row(list, j).createdAt # Row(list, i).createdAt
        /\ page \in Pages(list, rows, offset, limit)
    BY <1>1, <1>4, <1>7, <2>1, <2>3
  <2> HIDE DEF rows, list, offset, limit
  <2>5. /\ Cardinality(ahead) \in Nat
        /\ (offset <= Cardinality(ahead) /\ i \notin page)
             => offset + limit <= Cardinality(ahead) /\ Cardinality(page) = limit
        /\ i \in page => offset <= Cardinality(ahead) /\ Cardinality(ahead) < offset + limit
    BY <2>4, PageOfRow
  <2> QED
    BY <2>2, <2>5 DEF list, offset, limit
<1>8. MissedOnlyIfGone'
  <2> SUFFICES ASSUME ListIsStacked', NEW i \in CurrentThroughout', i \notin reader'.shown,
                      ~Tied(i)', ~NewerGone(i)'
               PROVE  ~reader'.done /\ reader'.offset <= Cardinality(Ahead(i)')
    BY DEF MissedOnlyIfGone
  <2>1. /\ ListIsStacked /\ i \in CurrentThroughout /\ ~Tied(i) /\ ~NewerGone(i)
        /\ Ahead(i)' = Ahead(i)
    BY <1>1, <1>3, ListUnchanged
  <2>2. i \notin reader.shown /\ i \notin page /\ i \in rows
    BY <1>3, <2>1 DEF CurrentThroughout
  <2>3. reader.offset <= Cardinality(Ahead(i))
    BY <2>1, <2>2 DEF ReadingInv, MissedOnlyIfGone
  <2> HIDE DEF rows
  <2>4. /\ reader.offset + reader.limit <= Cardinality(Ahead(i))
        /\ Cardinality(page) = reader.limit
    BY <1>7, <2>1, <2>2, <2>3
  <2>5. ~(Cardinality(page) < reader.limit)
    BY <1>1, <2>4
  <2> QED
    BY <1>3, <2>1, <2>4, <2>5
<1>9. ShownIsBehind'
  <2> SUFFICES ASSUME NEW i \in reader'.shown, ~Tied(i)', ~RowCameSince'
               PROVE  Cardinality(Ahead(i)') < reader'.offset
    BY DEF ShownIsBehind
  <2>1. ~Tied(i) /\ ~RowCameSince /\ Ahead(i)' = Ahead(i)
    BY <1>1, <1>3, ListUnchanged
  <2>2. CASE i \in page
    <3> HIDE DEF rows
    <3> QED
      BY <1>3, <1>5, <1>7, <2>1, <2>2
  <2>3. CASE i \in reader.shown
    <3>1. Cardinality(Ahead(i)) < reader.offset
      BY <2>1, <2>3 DEF ReadingInv, ShownIsBehind
    <3>2. Cardinality(Ahead(i)) \in Nat
      <4>1. Ahead(i) \subseteq rows
        BY DEF Ahead, RowsAhead
      <4> QED
        BY <1>4, <4>1, FS_Subset, FS_CardinalityType
    <3>3. Cardinality(Ahead(i)) < reader.offset + reader.limit
      BY <1>1, <3>1, <3>2
    <3> QED
      BY <1>3, <2>1, <3>3
  <2> QED
    BY <1>3, <2>2, <2>3
<1>10. TwiceOnlyIfCame'
  <2> SUFFICES ASSUME NEW i \in reader'.twice, ~Tied(i)', ~RowCameSince'
               PROVE  FALSE
    BY DEF TwiceOnlyIfCame
  <2>1. ~Tied(i) /\ ~RowCameSince
    BY <1>1, <1>3, ListUnchanged
  <2>2. i \in page /\ i \in reader.shown
    BY <1>3, <2>1 DEF ReadingInv, TwiceOnlyIfCame
  <2>3. Cardinality(Ahead(i)) < reader.offset
    BY <2>1, <2>2 DEF ReadingInv, ShownIsBehind
  <2> HIDE DEF rows
  <2>4. Cardinality(Ahead(i)) \in Nat /\ reader.offset <= Cardinality(Ahead(i))
    BY <1>5, <1>7, <2>1, <2>2
  <2> QED
    BY <1>1, <2>3, <2>4
<1> QED
  BY <1>6, <1>8, <1>9, <1>10 DEF ReadingInv

\* After a request the list is finite and shows the rows that are current then.
LEMMA ListAfterwards ==
  ASSUME SdepInv, Next, NEW list \in Lists, NEW ca
  PROVE  /\ IsFiniteSet(Rows(list, ca)')
         /\ Listed(list, ca)' = {i \in Rows(list, ca)' : IsCurrent(Row(list, i)')}
<1>1. PICK areaIds, pIds, aIds : SdepWrites(areaIds, pIds, aIds)
  BY SdepStepWrites
<1>2. IsFiniteSet(DOMAIN area') /\ IsFiniteSet(DOMAIN activity')
  <2>1. /\ DOMAIN area' = 1..Len(area') /\ Len(area') \in Nat
        /\ DOMAIN activity' = 1..Len(activity') /\ Len(activity') \in Nat
    BY <1>1 DEF SdepWrites
  <2> QED
    BY <2>1, FS_Interval
<1>3. Rows(list, ca)' \subseteq DOMAIN area' \/ Rows(list, ca)' \subseteq DOMAIN activity'
  BY DEF Rows, Lists
<1>4. Listed(list, ca)' = {i \in Rows(list, ca)' : IsCurrent(Row(list, i)')}
  <2>1. CASE list = "own areas"
    BY <2>1 DEF Listed, Rows, Row, OwnAreas, IsCurrent
  <2>2. CASE list = "all areas"
    BY <2>2 DEF Listed, Rows, Row, AllAreas, IsCurrent
  <2>3. CASE list = "activities"
    BY <2>3 DEF Listed, Rows, Row, ActivitiesOf, IsCurrent
  <2> QED
    BY <2>1, <2>2, <2>3 DEF Lists
<1> QED
  BY <1>2, <1>3, <1>4, FS_Subset

\* A list shows one version of a functional id at most.
LEMMA ListStacked ==
  ASSUME SdepInv, NEW list \in Lists, NEW ca,
         list = "activities" => ActivityVersionsStacked,
         NEW i \in Listed(list, ca), NEW j \in Listed(list, ca),
         Row(list, i).fid = Row(list, j).fid
  PROVE  i = j
<1>1. /\ i \in Rows(list, ca) /\ j \in Rows(list, ca) /\ i \in Nat /\ j \in Nat
      /\ IsCurrent(Row(list, i)) /\ IsCurrent(Row(list, j))
  BY ListRows
<1>2. SUFFICES ASSUME NEW m \in Rows(list, ca), NEW n \in Rows(list, ca), m < n,
                      Row(list, m).fid = Row(list, n).fid
               PROVE  ~IsCurrent(Row(list, m))
  BY <1>1
<1>3. CASE list = "activities"
  BY <1>2, <1>3 DEF Rows, Row, ActivityVersionsStacked, Stacked
<1>4. CASE list # "activities"
  <2>1. Stacked(area) /\ Rows(list, ca) \subseteq DOMAIN area /\ \A r : Row(list, r) = area[r]
    BY <1>4 DEF Rows, Row, Lists, SdepInv, AreaInv, AreaVersionsStacked
  <2> QED
    BY <1>2, <2>1 DEF Stacked
<1> QED
  BY <1>3, <1>4

\* An ended row of a list ended in the past.
LEMMA ListEnds ==
  ASSUME SdepInv, NEW list \in Lists, NEW ca, NEW i \in Rows(list, ca),
         ~IsCurrent(Row(list, i))
  PROVE  Row(list, i).endedAt <= now
<1>1. CASE list = "activities"
  BY <1>1, SdepTypes DEF Rows, Row, ProperIntervals
<1>2. CASE list # "activities"
  BY <1>2 DEF Rows, Row, Lists, SdepInv, AreaInv, ProperIntervals
<1> QED
  BY <1>1, <1>2

\* The rows ahead of a row can be counted, before and after a request.
LEMMA AheadFinite ==
  ASSUME SdepInv, Next, NEW list \in Lists, NEW ca, NEW i
  PROVE  LET A == RowsAhead(list, Listed(list, ca), i)
         IN  /\ IsFiniteSet(A) /\ Cardinality(A) \in Nat
             /\ Cardinality(A') \in Nat
<1> DEFINE A == RowsAhead(list, Listed(list, ca), i)
<1>1. A \subseteq Rows(list, ca) /\ IsFiniteSet(Rows(list, ca))
  BY ListRows DEF RowsAhead
<1>2. A' \subseteq Rows(list, ca)' /\ IsFiniteSet(Rows(list, ca)')
  BY ListAfterwards DEF RowsAhead
<1> HIDE DEF A
<1>3. IsFiniteSet(A) /\ IsFiniteSet(A')
  BY <1>1, <1>2, FS_Subset
<1>4. Cardinality(A) \in Nat /\ Cardinality(A') \in Nat
  BY <1>3, FS_CardinalityType
<1> QED
  BY <1>3, <1>4 DEF A

\* No request moves an old row of a list forward unless a row ahead of it
\* leaves for good: a row that is replaced makes way for its successor, which
\* is ahead as well, and no two rows have one successor.
LEMMA AheadKept ==
  ASSUME SdepInv, Next, NEW list \in Lists, NEW ca,
         list = "activities" => ActivityVersionsStacked,
         NEW since \in Nat, since <= now,
         NEW i \in Rows(list, ca), Row(list, i).createdAt <= since,
         \A j \in Rows(list, ca)' :
            (/\ Row(list, j)'.createdAt >= Row(list, i)'.createdAt
             /\ ~IsCurrent(Row(list, j)')
             /\ Row(list, j)'.endedAt > since)
              => \E k \in Rows(list, ca)' : /\ Row(list, k)'.fid = Row(list, j)'.fid
                                            /\ Row(list, k)'.createdAt = Row(list, j)'.endedAt
  PROVE  Cardinality(RowsAhead(list, Listed(list, ca), i))
           <= Cardinality(RowsAhead(list, Listed(list, ca), i)')
<1> DEFINE R == Rows(list, ca)
           A == RowsAhead(list, Listed(list, ca), i)
           B == RowsAhead(list, Listed(list, ca), i)'
           Successor(j, k) == \/ k = j
                              \/ k \notin R /\ Row(list, k)'.fid = Row(list, j).fid
<1>1. /\ now' = now + 1 /\ now \in Nat
      /\ \A j \in R : /\ j \in R'
                      /\ Row(list, j)'.fid = Row(list, j).fid
                      /\ Row(list, j)'.createdAt = Row(list, j).createdAt
                      /\ \/ Row(list, j)' = Row(list, j)
                         \/ IsCurrent(Row(list, j)) /\ Row(list, j)'.endedAt = now'
      /\ \A k \in R' : k \notin R => Row(list, k)'.createdAt = now' /\ IsCurrent(Row(list, k)')
      /\ \A j \in R : Row(list, j).createdAt \in Nat /\ Row(list, j).createdAt <= now
  BY ListWritten, ListRows, SdepTypes
<1>2. \A j : j \in A <=> /\ j \in R /\ IsCurrent(Row(list, j))
                         /\ Row(list, j).createdAt > Row(list, i).createdAt
  BY ListRows DEF RowsAhead
<1>3. \A j : j \in B <=> /\ j \in R' /\ IsCurrent(Row(list, j)')
                         /\ Row(list, j)'.createdAt > Row(list, i)'.createdAt
  BY ListAfterwards DEF RowsAhead
<1>4. IsFiniteSet(B)
  <2>1. B \subseteq R'
    BY <1>3
  <2> QED
    BY <2>1, ListAfterwards, FS_Subset
<1>5. ASSUME NEW j \in A
      PROVE  \E k \in B : Successor(j, k)
  <2>1. /\ j \in R /\ j \in R' /\ IsCurrent(Row(list, j))
        /\ Row(list, j)'.createdAt > Row(list, i)'.createdAt
        /\ Row(list, j)'.createdAt \in Nat /\ Row(list, i)'.createdAt \in Nat
        /\ Row(list, j)'.fid = Row(list, j).fid
    BY <1>1, <1>2
  <2>2. CASE IsCurrent(Row(list, j)')
    BY <1>3, <2>1, <2>2
  <2>3. CASE ~IsCurrent(Row(list, j)')
    <3>1. Row(list, j)'.endedAt = now' /\ now' > since
      BY <1>1, <2>1, <2>3
    <3>2. Row(list, j)'.createdAt >= Row(list, i)'.createdAt
      BY <2>1
    <3>3. PICK k \in R' : /\ Row(list, k)'.fid = Row(list, j)'.fid
                          /\ Row(list, k)'.createdAt = Row(list, j)'.endedAt
      BY <2>1, <2>3, <3>1, <3>2
    <3>4. k \notin R
      BY <1>1, <3>1, <3>3
    <3>5. IsCurrent(Row(list, k)') /\ Row(list, k)'.createdAt = now'
      BY <1>1, <3>4
    <3>6. now' > Row(list, i)'.createdAt
      BY <1>1, <3>1
    <3>7. k \in B
      BY <1>3, <3>5, <3>6
    <3> QED
      BY <2>1, <3>3, <3>4, <3>7
  <2> QED
    BY <2>2, <2>3
<1>6. ASSUME NEW j \in A, NEW m \in A, NEW k, Successor(j, k), Successor(m, k)
      PROVE  j = m
  <2>1. j \in R /\ m \in R /\ j \in Listed(list, ca) /\ m \in Listed(list, ca)
    BY <1>2, <1>6, ListRows
  <2>2. CASE k \in R
    BY <1>6, <2>2
  <2>3. CASE k \notin R
    <3>1. Row(list, j).fid = Row(list, m).fid
      BY <1>6, <2>1, <2>3
    <3> QED
      BY <2>1, <3>1, ListStacked
  <2> QED
    BY <2>2, <2>3
<1> HIDE DEF A, B, Successor
<1> DEFINE f == [j \in A |-> CHOOSE k \in B : Successor(j, k)]
<1>7. \A j \in A : \E k \in B : f[j] = k /\ Successor(j, k)
  BY <1>5
<1>8. f \in [A -> B]
  BY <1>7
<1> HIDE DEF f
<1>9. \A j, m \in A : f[j] = f[m] => j = m
  BY <1>6, <1>7
<1>10. f \in Injection(A, B)
  BY <1>8, <1>9 DEF Injection, IsInjective
<1>11. Cardinality(A) <= Cardinality(B)
  BY <1>4, <1>10, FS_Injection
<1> QED
  BY <1>11 DEF A, B

\* Nobody reading, nothing to keep.
LEMMA NobodyReads ==
  ASSUME SdepInv, now' \in Nat, reader' = NotReading
  PROVE  ReadingInv'
<1>1. /\ reader'.list = "none" /\ reader'.shown = {} /\ reader'.twice = {} /\ reader'.since = 0
      /\ reader' \in [list: Lists \cup {"none"}, of: CompetentAuthorities \cup {NoId},
                      limit: Nat, offset: Nat, since: Nat, shown: SUBSET Nat,
                      twice: SUBSET Nat, done: BOOLEAN]
  BY DEF NotReading
<1>2. ReaderTypeOK'
  BY <1>1 DEF ReaderTypeOK
<1>3. CurrentThroughout' = {}
  BY <1>1 DEF CurrentThroughout, Listed
<1> QED
  BY <1>1, <1>2, <1>3 DEF ReadingInv, MissedOnlyIfGone, ShownIsBehind, TwiceOnlyIfCame

\* A request between two pages.
LEMMA WriteInv ==
  ASSUME SdepInv, ReadingInv, Write, MaxBatch = 0 => ActivityVersionsStacked
  PROVE  ReadingInv'
<1>1. Next /\ now' = now + 1 /\ now \in Nat /\ now' \in Nat
  <2>1. Next
    BY DEF Write
  <2> QED
    BY <2>1, SdepStepWrites, SdepTypes DEF SdepWrites
<1>2. CASE reader' = NotReading
  BY <1>1, <1>2, NobodyReads
<1>3. CASE reader' = reader /\ reader.list \in Lists
  <2>1. PICK list, ca, since, offset :
          list = reader.list /\ ca = reader.of /\ since = reader.since /\ offset = reader.offset
    OBVIOUS
  <2>2. /\ list \in Lists /\ since \in Nat /\ since <= now /\ offset \in Nat
        /\ reader'.since = since /\ reader'.offset = offset
    BY <1>3, <2>1 DEF ReadingInv, ReaderTypeOK
  <2> DEFINE R == Rows(list, ca)
             A(i) == RowsAhead(list, Listed(list, ca), i)
  <2>3. /\ RowsRead = R /\ RowsRead' = R'
        /\ \A i : RowRead(i) = Row(list, i) /\ RowRead(i)' = Row(list, i)'
    BY <1>3, <2>1 DEF RowsRead, RowRead, Rows, Row, OwnerOf
  <2>4. \A i : Ahead(i) = A(i) /\ Ahead(i)' = A(i)'
    BY <1>3, <2>1 DEF Ahead, RowsAhead, Row, Listed, OwnAreas, AllAreas, ActivitiesOf,
                      OwnerOf, IsCurrent
  <2>5. /\ CurrentThroughout
             = {i \in R : IsCurrent(Row(list, i)) /\ Row(list, i).createdAt <= since}
        /\ CurrentThroughout'
             = {i \in R' : IsCurrent(Row(list, i)') /\ Row(list, i)'.createdAt <= since}
    <3>1. Listed(list, ca) = {i \in R : IsCurrent(Row(list, i))}
      BY <2>2, ListRows
    <3>2. Listed(list, ca)' = {i \in R' : IsCurrent(Row(list, i)')}
      BY <1>1, <2>2, ListAfterwards
    <3>3. CurrentThroughout = {i \in Listed(list, ca) : Row(list, i).createdAt <= since}
      BY <2>1, <2>3 DEF CurrentThroughout
    <3>4. CurrentThroughout' = {i \in Listed(list, ca)' : Row(list, i)'.createdAt <= since}
      BY <1>3, <2>1, <2>3 DEF CurrentThroughout, Listed, OwnAreas, AllAreas, ActivitiesOf,
                              OwnerOf, IsCurrent
    <3> QED
      BY <3>1, <3>2, <3>3, <3>4
  <2>6. /\ \A i \in R : /\ i \in R'
                        /\ Row(list, i)'.fid = Row(list, i).fid
                        /\ Row(list, i)'.createdAt = Row(list, i).createdAt
                        /\ \/ Row(list, i)' = Row(list, i)
                           \/ IsCurrent(Row(list, i)) /\ Row(list, i)'.endedAt = now'
        /\ \A k \in R' : k \notin R => Row(list, k)'.createdAt = now' /\ IsCurrent(Row(list, k)')
        /\ \A i \in R : Row(list, i).createdAt \in Nat /\ Row(list, i).createdAt <= now
    BY <1>1, <2>2, ListWritten, ListRows
  <2>7. \A i : Tied(i) <=> \E j \in R \ {i} : Row(list, j).createdAt = Row(list, i).createdAt
    BY <2>3 DEF Tied
  <2>8. \A i : Tied(i)' <=> \E j \in R' \ {i} : Row(list, j)'.createdAt = Row(list, i)'.createdAt
    BY <2>3 DEF Tied
  <2>9. \A i \in R : Tied(i) => Tied(i)'
    BY <2>6, <2>7, <2>8
  <2>10. RowCameSince <=> \E j \in R : Row(list, j).createdAt > since
    BY <2>1, <2>3 DEF RowCameSince
  <2>11. RowCameSince' <=> \E j \in R' : Row(list, j)'.createdAt > since
    BY <2>2, <2>3 DEF RowCameSince
  <2>12. RowCameSince => RowCameSince'
    BY <2>6, <2>10, <2>11
  <2>13. ReaderTypeOK'
    <3>1. now <= now'
      BY <1>1
    <3>2. reader.since <= now'
      BY <1>1, <2>1, <2>2, <3>1
    <3>3. reader.shown \subseteq RowsRead'
      BY <2>3, <2>6 DEF ReadingInv, ReaderTypeOK
    <3> QED
      BY <1>3, <3>2, <3>3 DEF ReadingInv, ReaderTypeOK
  <2> HIDE DEF R, A
  <2>14. MissedOnlyIfGone'
    <3> SUFFICES ASSUME ListIsStacked', NEW i \in CurrentThroughout', i \notin reader'.shown,
                        ~Tied(i)', ~NewerGone(i)'
                 PROVE  ~reader'.done /\ reader'.offset <= Cardinality(Ahead(i)')
      BY DEF MissedOnlyIfGone
    <3>1. ListIsStacked /\ (list = "activities" => ActivityVersionsStacked)
      BY <1>3, <2>1 DEF ListIsStacked
    <3>2. /\ i \in R' /\ IsCurrent(Row(list, i)') /\ Row(list, i)'.createdAt <= since
      BY <2>5
    <3>3. i \in R
      BY <1>1, <2>2, <2>6, <3>2
    <3>4. i \in CurrentThroughout /\ i \notin reader.shown
      <4>1. IsCurrent(Row(list, i))
        BY <2>6, <3>2, <3>3
      <4> QED
        BY <1>3, <2>5, <2>6, <3>2, <3>3, <4>1
    <3>5. \A j \in R' : MayPrecede(reader.list, j, i)' => ~Gone(j)'
      BY <2>3 DEF NewerGone
    <3>6. \A j \in R' :
            (/\ Row(list, j)'.createdAt >= Row(list, i)'.createdAt
             /\ ~IsCurrent(Row(list, j)')
             /\ Row(list, j)'.endedAt > since)
              => \E k \in R' : /\ Row(list, k)'.fid = Row(list, j)'.fid
                               /\ Row(list, k)'.createdAt = Row(list, j)'.endedAt
      <4> SUFFICES ASSUME NEW j \in R', Row(list, j)'.createdAt >= Row(list, i)'.createdAt,
                          ~IsCurrent(Row(list, j)'), Row(list, j)'.endedAt > since
                   PROVE  \E k \in R' : /\ Row(list, k)'.fid = Row(list, j)'.fid
                                        /\ Row(list, k)'.createdAt = Row(list, j)'.endedAt
        OBVIOUS
      <4>1. MayPrecede(reader.list, j, i)'
        BY <1>3, <2>1 DEF MayPrecede, Row
      <4>2. ~Gone(j)'
        BY <3>5, <4>1
      <4> QED
        BY <2>2, <2>3, <4>2 DEF Gone, IsCurrent
    <3>7. ~NewerGone(i)
      <4> SUFFICES ASSUME NEW j \in R, MayPrecede(reader.list, j, i), Gone(j)
                   PROVE  FALSE
        BY <2>3 DEF NewerGone
      <4>1. /\ ~IsCurrent(Row(list, j)) /\ Row(list, j).endedAt > since
            /\ \A k \in R : Row(list, k).fid = Row(list, j).fid
                              => Row(list, k).createdAt # Row(list, j).endedAt
        BY <2>1, <2>3 DEF Gone
      <4>2. Row(list, j)' = Row(list, j) /\ j \in R'
        BY <2>6, <4>1
      <4>3. Row(list, j)'.createdAt >= Row(list, i)'.createdAt
        <5>1. Row(list, j).createdAt >= Row(list, i).createdAt
          BY <2>1 DEF MayPrecede
        <5> QED
          BY <2>6, <3>3, <5>1
      <4>4. ~IsCurrent(Row(list, j)')
        BY <4>1, <4>2 DEF IsCurrent
      <4>5. PICK k \in R' : /\ Row(list, k)'.fid = Row(list, j)'.fid
                            /\ Row(list, k)'.createdAt = Row(list, j)'.endedAt
        BY <3>6, <4>1, <4>2, <4>3, <4>4
      <4>6. k \notin R
        BY <2>6, <4>1, <4>2, <4>5
      <4>7. Row(list, j).endedAt = now'
        BY <2>6, <4>2, <4>5, <4>6
      <4>8. Row(list, j).endedAt <= now
        <5>1. SdepInv /\ j \in Rows(list, ca)
          BY DEF R
        <5> QED
          BY <2>2, <4>1, <5>1, ListEnds
      <4> QED
        BY <1>1, <4>7, <4>8
    <3>8. Tied(i) \/ NewerGone(i) \/ (~reader.done /\ reader.offset <= Cardinality(Ahead(i)))
      BY <3>1, <3>4 DEF ReadingInv, MissedOnlyIfGone
    <3>9. ~reader.done /\ offset <= Cardinality(A(i))
      BY <2>1, <2>4, <2>9, <3>3, <3>7, <3>8
    <3>10. Row(list, i).createdAt <= since
      BY <2>6, <3>2, <3>3
    <3>11. Cardinality(A(i)) <= Cardinality(A(i)')
      BY <1>1, <2>2, <3>1, <3>3, <3>6, <3>10, AheadKept DEF R, A
    <3>12. Cardinality(A(i)) \in Nat /\ Cardinality(A(i)') \in Nat
      BY <1>1, <2>2, AheadFinite DEF A
    <3>13. offset <= Cardinality(A(i)')
      BY <2>2, <3>9, <3>11, <3>12
    <3> QED
      BY <1>3, <2>2, <2>4, <3>9, <3>13
  <2>15. ShownIsBehind'
    <3> SUFFICES ASSUME NEW i \in reader'.shown, ~Tied(i)', ~RowCameSince'
                 PROVE  Cardinality(Ahead(i)') < reader'.offset
      BY DEF ShownIsBehind
    <3>1. i \in reader.shown /\ i \in R
      BY <1>3, <2>3 DEF ReadingInv, ReaderTypeOK
    <3>2. ~Tied(i) /\ ~RowCameSince
      BY <2>9, <2>12, <3>1
    <3>3. Cardinality(A(i)) < offset
      BY <2>1, <2>4, <3>1, <3>2 DEF ReadingInv, ShownIsBehind
    <3>4. A(i)' \subseteq A(i)
      <4>1. \A k \in R' : k \in R
        BY <1>1, <2>2, <2>6, <2>11
      <4>2. /\ Listed(list, ca) = {j \in R : IsCurrent(Row(list, j))}
            /\ Listed(list, ca)' = {j \in R' : IsCurrent(Row(list, j)')}
        BY <1>1, <2>2, ListRows, ListAfterwards DEF R
      <4>3. \A j \in R : IsCurrent(Row(list, j)') => IsCurrent(Row(list, j))
        BY <2>6 DEF IsCurrent
      <4> QED
        BY <2>6, <3>1, <4>1, <4>2, <4>3 DEF A, RowsAhead
    <3>5. Cardinality(A(i)) \in Nat /\ Cardinality(A(i)') \in Nat /\ IsFiniteSet(A(i))
      BY <1>1, <2>2, AheadFinite DEF A
    <3>6. Cardinality(A(i)') <= Cardinality(A(i))
      BY <3>4, <3>5, FS_Subset
    <3>7. Cardinality(A(i)') < offset
      BY <2>2, <3>3, <3>5, <3>6
    <3> QED
      BY <2>2, <2>4, <3>7
  <2>16. TwiceOnlyIfCame'
    <3> SUFFICES ASSUME NEW i \in reader'.twice
                 PROVE  Tied(i)' \/ RowCameSince'
      BY DEF TwiceOnlyIfCame
    <3>1. i \in reader.twice /\ (Tied(i) \/ RowCameSince)
      BY <1>3 DEF ReadingInv, TwiceOnlyIfCame
    <3>2. i \in R
      BY <1>3, <2>3, <3>1 DEF ReadingInv, ReaderTypeOK
    <3> QED
      BY <2>9, <2>12, <3>1, <3>2
  <2> QED
    BY <2>13, <2>14, <2>15, <2>16 DEF ReadingInv
<1> QED
  BY <1>2, <1>3 DEF Write, ReadingInv, ReaderTypeOK

LEMMA ReadingStepInv ==
  ASSUME SdepInv, ReadingInv, MaxBatch = 0 => ActivityVersionsStacked,
         [ReadingNext]_readingVars
  PROVE  ReadingInv'
<1>1. CASE UNCHANGED readingVars
  <2>1. UNCHANGED vars /\ reader' = reader
    BY <1>1 DEF readingVars
  <2>2. /\ RowsRead' = RowsRead
        /\ CurrentThroughout' = CurrentThroughout
        /\ RowCameSince' = RowCameSince
        /\ ListIsStacked' = ListIsStacked
        /\ \A i : /\ Ahead(i)' = Ahead(i)
                  /\ Tied(i)' = Tied(i)
                  /\ NewerGone(i)' = NewerGone(i)
    BY <2>1, ListUnchanged
  <2>3. now' = now
    BY <2>1 DEF vars, areaVars
  <2>4. ReaderTypeOK'
    BY <2>1, <2>2, <2>3 DEF ReadingInv, ReaderTypeOK
  <2>5. MissedOnlyIfGone'
    BY <2>1, <2>2 DEF ReadingInv, MissedOnlyIfGone
  <2>6. ShownIsBehind' /\ TwiceOnlyIfCame'
    BY <2>1, <2>2 DEF ReadingInv, ShownIsBehind, TwiceOnlyIfCame
  <2> QED
    BY <2>4, <2>5, <2>6 DEF ReadingInv
<1>2. CASE Write
  BY <1>2, WriteInv
<1>3. CASE \E list \in Lists, ca \in CompetentAuthorities, limit \in Limits :
             BeginReading(list, ca, limit)
  BY <1>3, BeginningInv
<1>4. CASE ReadPage
  BY <1>4, NextPageInv
<1> QED
  BY <1>1, <1>2, <1>3, <1>4 DEF ReadingNext

LEMMA ReadingInitInv == ReadingInit => ReadingInv
<1> SUFFICES ASSUME ReadingInit PROVE ReadingInv
  OBVIOUS
<1>1. /\ reader.list = "none" /\ reader.shown = {} /\ reader.twice = {} /\ reader.since = 0
      /\ reader \in [list: Lists \cup {"none"}, of: CompetentAuthorities \cup {NoId},
                     limit: Nat, offset: Nat, since: Nat, shown: SUBSET Nat,
                     twice: SUBSET Nat, done: BOOLEAN]
      /\ reader = NotReading /\ now = 0
  BY DEF ReadingInit, NotReading, Init, AreaInit
<1>2. ReaderTypeOK
  BY <1>1 DEF ReaderTypeOK
<1>3. CurrentThroughout = {}
  BY <1>1 DEF CurrentThroughout, Listed
<1> QED
  BY <1>1, <1>2, <1>3 DEF ReadingInv, MissedOnlyIfGone, ShownIsBehind, TwiceOnlyIfCame

\* The invariant of a reader holds whatever lists it reads and whatever
\* requests come in between its pages.
THEOREM ReadingInvariant == ReadingSpec => []ReadingInv
<1>1. MaxBatch = 0 => (Spec => []ActivityVersionsStacked)
  BY SingleEndpointStacks
<1>2. CASE MaxBatch = 0
  <2>1. ReadingInv /\ SdepInv /\ ActivityVersionsStacked /\ [ReadingNext]_readingVars
          => ReadingInv'
    BY ReadingStepInv
  <2> QED
    BY <1>1, <1>2, <2>1, ReadingInitInv, ReadingImplementsSdep, SdepInvariant, PTL DEF ReadingSpec
<1>3. CASE MaxBatch # 0
  <2>1. ReadingInv /\ SdepInv /\ [ReadingNext]_readingVars => ReadingInv'
    BY <1>3, ReadingStepInv
  <2> QED
    BY <2>1, ReadingInitInv, ReadingImplementsSdep, SdepInvariant, PTL DEF ReadingSpec
<1> QED
  BY <1>2, <1>3

\* What the invariant says of a reader that is done.
LEMMA DoneReading ==
  ASSUME ReadingInv, ListIsStacked
  PROVE  PagesMeet
<1> SUFFICES ASSUME reader.done
             PROVE  /\ \A i \in CurrentThroughout \ reader.shown :
                         Tied(i) \/ \E j \in RowsRead : MayPrecede(reader.list, j, i) /\ Gone(j)
                    /\ \A i \in reader.twice :
                         Tied(i) \/ \E j \in RowsRead : RowRead(j).createdAt > reader.since
  BY DEF PagesMeet
<1>1. \A i \in CurrentThroughout \ reader.shown : Tied(i) \/ NewerGone(i)
  BY DEF ReadingInv, MissedOnlyIfGone
<1>2. \A i \in reader.twice : Tied(i) \/ RowCameSince
  BY DEF ReadingInv, TwiceOnlyIfCame
<1> QED
  BY <1>1, <1>2 DEF NewerGone, RowCameSince

\* A client that has read a list of areas to its end has missed no area that
\* was current throughout, unless a newer one was deleted, and has got none
\* twice, unless one was announced: for any page size and any requests.
THEOREM AreaPagesMeet == ReadingSpec => [](reader.list # "activities" => PagesMeet)
<1>1. ReadingInv => (reader.list # "activities" => PagesMeet)
  BY DoneReading DEF ListIsStacked
<1> QED
  BY <1>1, ReadingInvariant, PTL

\* The same for all lists while platforms use the single endpoint.  With bulk
\* requests several versions of an activity may be current, and one row may
\* then replace two.
THEOREM AllPagesMeet ==
  ASSUME MaxBatch = 0
  PROVE  ReadingSpec => []PagesMeet
<1>1. ReadingInv => PagesMeet
  BY DoneReading DEF ListIsStacked
<1> QED
  BY <1>1, ReadingInvariant, PTL
=============================================================================
