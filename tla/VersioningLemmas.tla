-------------------------- MODULE VersioningLemmas --------------------------
(***************************************************************************)
(* What the statements of Versioning and ReadCommitted do to a table, for  *)
(* every table, row, worker and timestamp.  Cited by the proofs about the  *)
(* services and about their transactions.                                  *)
(***************************************************************************)
EXTENDS ReadCommitted, FiniteSetTheorems, TLAPS

\* Rows whose end can be stamped: the fields the statements touch.
Stampable(Row) ==
  \A r \in Row : /\ r.createdAt \in Nat \ {0}
                 /\ r.endedAt \in Nat
                 /\ \A t \in Nat : /\ [r EXCEPT !.endedAt = t] \in Row
                                   /\ [r EXCEPT !.endedAt = t].endedAt = t
                                   /\ [r EXCEPT !.endedAt = t].fid = r.fid
                                   /\ [r EXCEPT !.endedAt = t].createdAt = r.createdAt

\* The UPDATE keeps the table a table of the same length, stamps the chosen
\* rows and leaves the others alone (crud mark_as_ended, bulk_mark_as_ended).
LEMMA EndVersionsEffect ==
  ASSUME NEW Row, Stampable(Row), NEW table \in Seq(Row), NEW ids, NEW t \in Nat
  PROVE  /\ EndVersions(table, ids, t) \in Seq(Row)
         /\ Len(EndVersions(table, ids, t)) = Len(table)
         /\ DOMAIN EndVersions(table, ids, t) = DOMAIN table
         /\ \A i \in DOMAIN table :
              /\ EndVersions(table, ids, t)[i].fid = table[i].fid
              /\ EndVersions(table, ids, t)[i].createdAt = table[i].createdAt
              /\ i \in ids => /\ EndVersions(table, ids, t)[i].endedAt = t
                              /\ EndVersions(table, ids, t)[i]
                                   = [table[i] EXCEPT !.endedAt = t]
              /\ i \notin ids => EndVersions(table, ids, t)[i] = table[i]
<1> DEFINE new == EndVersions(table, ids, t)
<1>1. DOMAIN table = 1..Len(table) /\ Len(table) \in Nat
  OBVIOUS
<1>2. \A i \in DOMAIN table : table[i] \in Row
  OBVIOUS
<1>3. \A i \in DOMAIN table : new[i] \in Row
  BY <1>2 DEF EndVersions, Stampable
<1>4. new \in Seq(Row) /\ Len(new) = Len(table) /\ DOMAIN new = DOMAIN table
  BY <1>1, <1>3 DEF EndVersions
<1>5. \A i \in DOMAIN table :
        /\ i \in ids => new[i] = [table[i] EXCEPT !.endedAt = t]
        /\ i \notin ids => new[i] = table[i]
  BY DEF EndVersions
<1>6. \A i \in DOMAIN table : new[i].fid = table[i].fid
                              /\ new[i].createdAt = table[i].createdAt
                              /\ (i \in ids => new[i].endedAt = t)
  <2> SUFFICES ASSUME NEW i \in DOMAIN table
               PROVE  /\ new[i].fid = table[i].fid
                      /\ new[i].createdAt = table[i].createdAt
                      /\ i \in ids => new[i].endedAt = t
    OBVIOUS
  <2> DEFINE stamped == [table[i] EXCEPT !.endedAt = t]
  <2>1. /\ stamped.endedAt = t
        /\ stamped.fid = table[i].fid
        /\ stamped.createdAt = table[i].createdAt
    BY <1>2 DEF Stampable
  <2>2. new[i] = stamped \/ (i \notin ids /\ new[i] = table[i])
    BY <1>5
  <2>3. i \in ids => new[i] = stamped
    BY <1>5
  <2> HIDE DEF new, stamped
  <2> QED
    BY <2>1, <2>2, <2>3
<1> QED
  BY <1>4, <1>5, <1>6

-----------------------------------------------------------------------------
(***************************************************************************)
(* Every write of the services has the same shape: at time t some current  *)
(* versions end and some rows, current and created at t, are appended.     *)
(***************************************************************************)
Writes(old, new, ids, t) ==
  /\ Len(old) <= Len(new)
  /\ \A i \in DOMAIN old :
        /\ i \in ids => IsCurrent(old[i])
        /\ new[i].fid = old[i].fid
        /\ new[i].createdAt = old[i].createdAt
        /\ i \in ids => new[i].endedAt = t /\ new[i] = [old[i] EXCEPT !.endedAt = t]
        /\ i \notin ids => new[i] = old[i]
  /\ \A k \in (DOMAIN new) \ DOMAIN old :
        new[k].createdAt = t /\ new[k].endedAt = NotEnded

\* Ending current versions is a write without new rows.
LEMMA EndVersionsWrites ==
  ASSUME NEW Row, Stampable(Row), NEW table \in Seq(Row), NEW t \in Nat,
         NEW ids, \A i \in ids : i \in DOMAIN table /\ IsCurrent(table[i])
  PROVE  /\ EndVersions(table, ids, t) \in Seq(Row)
         /\ Len(EndVersions(table, ids, t)) = Len(table)
         /\ Writes(table, EndVersions(table, ids, t), ids, t)
<1> DEFINE new == EndVersions(table, ids, t)
<1>1. /\ new \in Seq(Row)
      /\ Len(new) = Len(table)
      /\ DOMAIN new = DOMAIN table
      /\ \A i \in DOMAIN table :
           /\ new[i].fid = table[i].fid
           /\ new[i].createdAt = table[i].createdAt
           /\ i \in ids => new[i].endedAt = t /\ new[i] = [table[i] EXCEPT !.endedAt = t]
           /\ i \notin ids => new[i] = table[i]
  BY EndVersionsEffect
<1> HIDE DEF new
<1>2. Writes(table, new, ids, t)
  BY <1>1 DEF Writes
<1> QED
  BY <1>1, <1>2 DEF new

\* Replacing the current version of a functional id is a write with one row.
LEMMA NewVersionWrites ==
  ASSUME NEW Row, Stampable(Row), NEW table \in Seq(Row), NEW row \in Row,
         row.endedAt = NotEnded
  PROVE  /\ NewVersion(table, row) \in Seq(Row)
         /\ Len(NewVersion(table, row)) = Len(table) + 1
         /\ NewVersion(table, row)[Len(table) + 1] = row
         /\ Writes(table, NewVersion(table, row),
                   CurrentVersions(table, row.fid), row.createdAt)
<1> DEFINE ids == CurrentVersions(table, row.fid)
           t == row.createdAt
           old == EndVersions(table, ids, t)
           new == NewVersion(table, row)
<1>1. t \in Nat
  BY DEF Stampable
<1>2. \A i \in ids : i \in DOMAIN table /\ IsCurrent(table[i])
  BY DEF CurrentVersions, Versions
<1>3. /\ old \in Seq(Row)
      /\ Len(old) = Len(table)
      /\ Writes(table, old, ids, t)
  BY <1>1, <1>2, EndVersionsWrites
<1>4. new = Append(old, row)
  BY DEF NewVersion
<1> HIDE DEF old, new, ids
<1>5. /\ new \in Seq(Row)
      /\ Len(new) = Len(table) + 1
      /\ new[Len(table) + 1] = row
      /\ \A i \in DOMAIN table : new[i] = old[i]
      /\ DOMAIN table = 1..Len(table)
      /\ DOMAIN new = 1..(Len(table) + 1)
      /\ Len(table) \in Nat
  BY <1>3, <1>4
<1>6. Writes(table, new, ids, t)
  <2>1. \A k \in (DOMAIN new) \ DOMAIN table : k = Len(table) + 1
    BY <1>5
  <2> QED
    BY <1>3, <1>5, <2>1 DEF Writes
<1> QED
  BY <1>5, <1>6 DEF new, ids

\* What is left of an old row after a write.
LEMMA WritesKeep ==
  ASSUME NEW Row, NEW old \in Seq(Row), NEW new \in Seq(Row), NEW ids, NEW t,
         Writes(old, new, ids, t), NEW i \in DOMAIN old
  PROVE  /\ i \in DOMAIN new
         /\ new[i].fid = old[i].fid
         /\ new[i].createdAt = old[i].createdAt
         /\ \/ new[i] = old[i]
            \/ IsCurrent(old[i]) /\ new[i].endedAt = t
<1>1. i \in DOMAIN new
  BY DEF Writes
<1>2. CASE i \in ids
  BY <1>1, <1>2 DEF Writes
<1>3. CASE i \notin ids
  BY <1>1, <1>3 DEF Writes
<1> QED
  BY <1>2, <1>3

\* A write of one row: the versions below it are old rows of its own id.
LEMMA OneRowAppended ==
  ASSUME NEW Row, NEW old \in Seq(Row), NEW new \in Seq(Row), NEW ids, NEW t,
         Writes(old, new, ids, t), Len(new) = Len(old) + 1,
         NEW i \in DOMAIN new, NEW k \in DOMAIN new,
         i < k, k \notin DOMAIN old, new[i].fid = new[k].fid
  PROVE  i \in DOMAIN old /\ old[i].fid = new[Len(old) + 1].fid
<1>1. DOMAIN old = 1..Len(old) /\ DOMAIN new = 1..(Len(old) + 1) /\ Len(old) \in Nat
  OBVIOUS
<1>2. k = Len(old) + 1 /\ i \in DOMAIN old
  BY <1>1
<1>3. new[i].fid = old[i].fid
  BY <1>2 DEF Writes
<1> QED
  BY <1>2, <1>3

\* A write never rewrites history.
LEMMA WritesContinue ==
  ASSUME NEW old, NEW new, NEW ids, NEW t, Writes(old, new, ids, t)
  PROVE  Continues(old, new)
<1>1. ASSUME NEW i \in DOMAIN old
      PROVE  \/ new[i] = old[i]
             \/ IsCurrent(old[i]) /\ new[i] = [old[i] EXCEPT !.endedAt = new[i].endedAt]
  <2>1. CASE i \in ids
    <3>1. new[i].endedAt = t /\ new[i] = [old[i] EXCEPT !.endedAt = t] /\ IsCurrent(old[i])
      BY <2>1 DEF Writes
    <3> QED
      BY <3>1
  <2>2. CASE i \notin ids
    BY <2>2 DEF Writes
  <2> QED
    BY <2>1, <2>2
<1> QED
  BY <1>1 DEF Continues, Writes

\* Timestamps of a table whose clock moves on to t stay in order.
LEMMA WritesProperIntervals ==
  ASSUME NEW Row, Stampable(Row), NEW old \in Seq(Row), NEW new \in Seq(Row),
         NEW ids, NEW now \in Nat, NEW t \in Nat, now < t,
         ProperIntervals(old, now), Writes(old, new, ids, t)
  PROVE  ProperIntervals(new, t)
<1> SUFFICES ASSUME NEW i \in DOMAIN new
             PROVE  /\ new[i].createdAt <= t
                    /\ ~IsCurrent(new[i]) => /\ new[i].createdAt < new[i].endedAt
                                              /\ new[i].endedAt <= t
  BY DEF ProperIntervals
<1>1. CASE i \notin DOMAIN old
  BY <1>1 DEF Writes, IsCurrent
<1>2. CASE i \in DOMAIN old
  <2>1. /\ old[i].createdAt \in Nat
        /\ old[i].endedAt \in Nat
        /\ old[i].createdAt <= now
        /\ ~IsCurrent(old[i]) => old[i].createdAt < old[i].endedAt /\ old[i].endedAt <= now
    BY <1>2 DEF Stampable, ProperIntervals
  <2>2. /\ new[i].createdAt = old[i].createdAt
        /\ i \in ids => new[i].endedAt = t
        /\ i \notin ids => new[i] = old[i]
    BY <1>2 DEF Writes
  <2> QED
    BY <2>1, <2>2 DEF IsCurrent
<1> QED
  BY <1>1, <1>2

\* Versions that follow each other still do after a write that leaves no
\* earlier version of an appended row current.
LEMMA WritesStacked ==
  ASSUME NEW Row, Stampable(Row), NEW old \in Seq(Row), NEW new \in Seq(Row),
         NEW ids, NEW now \in Nat, NEW t \in Nat, now < t,
         ProperIntervals(old, now), Writes(old, new, ids, t), Stacked(old),
         \A i, k \in DOMAIN new :
            (i < k /\ k \notin DOMAIN old /\ new[i].fid = new[k].fid)
              => i \in DOMAIN old /\ (i \in ids \/ ~IsCurrent(old[i]))
  PROVE  Stacked(new)
<1> SUFFICES ASSUME NEW i \in DOMAIN new, NEW j \in DOMAIN new,
                    i < j, new[i].fid = new[j].fid
             PROVE  ~IsCurrent(new[i]) /\ new[i].endedAt <= new[j].createdAt
  BY DEF Stacked
<1>0. DOMAIN old = 1..Len(old) /\ DOMAIN new = 1..Len(new) /\ Len(old) \in Nat
  OBVIOUS
<1>1. CASE j \in DOMAIN old
  <2>1. i \in DOMAIN old
    BY <1>0, <1>1
  <2>2. /\ new[i].fid = old[i].fid /\ new[j].fid = old[j].fid
        /\ new[j].createdAt = old[j].createdAt
        /\ i \in ids => IsCurrent(old[i])
        /\ i \notin ids => new[i] = old[i]
    BY <1>1, <2>1 DEF Writes
  <2>3. ~IsCurrent(old[i]) /\ old[i].endedAt <= old[j].createdAt
    BY <1>1, <2>1, <2>2 DEF Stacked
  <2> QED
    BY <2>2, <2>3
<1>2. CASE j \notin DOMAIN old
  <2>1. i \in DOMAIN old /\ (i \in ids \/ ~IsCurrent(old[i]))
    BY <1>2
  <2>2. new[j].createdAt = t
    BY <1>2 DEF Writes
  <2>3. /\ i \in ids => new[i].endedAt = t
        /\ i \notin ids => new[i] = old[i]
    BY <2>1 DEF Writes
  <2>4. ~IsCurrent(old[i]) => old[i].endedAt \in Nat /\ old[i].endedAt <= now
    BY <2>1 DEF Stampable, ProperIntervals
  <2> QED
    BY <2>1, <2>2, <2>3, <2>4 DEF IsCurrent, NotEnded
<1> QED
  BY <1>1, <1>2

\* No version is absent between two others after a write that replaces, for
\* each appended row, a version that was current.
LEMMA WritesGapless ==
  ASSUME NEW Row, Stampable(Row), NEW old \in Seq(Row), NEW new \in Seq(Row),
         NEW ids, NEW t \in Nat,
         Writes(old, new, ids, t), Stacked(old), Gapless(old),
         \A i, k \in DOMAIN new :
            (i < k /\ k \notin DOMAIN old /\ new[i].fid = new[k].fid)
              => i \in DOMAIN old /\ \E c \in DOMAIN old :
                                       /\ c \in ids
                                       /\ IsCurrent(old[c])
                                       /\ old[c].fid = old[i].fid
  PROVE  Gapless(new)
<1> SUFFICES ASSUME NEW i \in DOMAIN new, NEW j \in DOMAIN new,
                    i < j, new[i].fid = new[j].fid
             PROVE  \E k \in DOMAIN new : /\ i < k
                                          /\ new[k].fid = new[i].fid
                                          /\ new[k].createdAt = new[i].endedAt
  BY DEF Gapless
<1>0. /\ DOMAIN old = 1..Len(old) /\ DOMAIN new = 1..Len(new) /\ Len(old) \in Nat
      /\ Len(old) <= Len(new) /\ Len(new) \in Nat
  BY DEF Writes
<1>1. ASSUME NEW m \in DOMAIN old, i \in DOMAIN old, i < m, old[i].fid = old[m].fid
      PROVE  \E k \in DOMAIN new : /\ i < k
                                   /\ new[k].fid = new[i].fid
                                   /\ new[k].createdAt = new[i].endedAt
  <2>1. PICK k \in DOMAIN old : i < k /\ old[k].fid = old[i].fid
                                /\ old[k].createdAt = old[i].endedAt
    BY <1>1 DEF Gapless
  <2>2. ~IsCurrent(old[i])
    BY <1>1 DEF Stacked
  <2>3. new[i] = old[i] /\ new[k].fid = old[k].fid /\ new[k].createdAt = old[k].createdAt
    BY <1>1, <2>1, <2>2 DEF Writes
  <2>4. k \in DOMAIN new
    BY <1>0, <2>1
  <2> QED
    BY <2>1, <2>3, <2>4
<1>2. CASE j \in DOMAIN old
  <2>1. i \in DOMAIN old
    BY <1>0, <1>2
  <2>2. old[i].fid = old[j].fid
    BY <1>2, <2>1 DEF Writes
  <2> QED
    BY <1>1, <1>2, <2>1, <2>2
<1>3. CASE j \notin DOMAIN old
  <2>1. i \in DOMAIN old
    BY <1>3
  <2>2. PICK c \in DOMAIN old : c \in ids /\ IsCurrent(old[c]) /\ old[c].fid = old[i].fid
    BY <1>3
  <2>3. CASE i < c
    BY <1>1, <2>1, <2>2, <2>3
  <2>4. CASE i = c
    <3>1. new[i].endedAt = t
      BY <2>1, <2>2, <2>4 DEF Writes
    <3>2. new[j].createdAt = t
      BY <1>3 DEF Writes
    <3> QED
      BY <3>1, <3>2
  <2>5. CASE c < i
    BY <2>1, <2>2, <2>5 DEF Stacked
  <2> QED
    BY <1>0, <2>1, <2>2, <2>3, <2>4, <2>5
<1> QED
  BY <1>2, <1>3

\* A deactivated functional id stays so under a write that appends no row of it.
LEMMA WritesNeverResurrect ==
  ASSUME NEW Row, NEW old \in Seq(Row), NEW new \in Seq(Row),
         NEW ids, NEW t, Writes(old, new, ids, t), NEW fid,
         Deactivated(old, fid),
         \A k \in (DOMAIN new) \ DOMAIN old : new[k].fid # fid
  PROVE  Deactivated(new, fid)
<1>0. DOMAIN old \subseteq DOMAIN new
  BY DEF Writes
<1>1. PICK i \in DOMAIN old : old[i].fid = fid
  BY DEF Deactivated, ExistsAny, Versions
<1>2. new[i].fid = fid
  BY <1>1 DEF Writes
<1>3. ExistsAny(new, fid)
  BY <1>0, <1>1, <1>2 DEF ExistsAny, Versions
<1>4. ASSUME NEW k \in CurrentVersions(new, fid)
      PROVE  FALSE
  <2>1. k \in DOMAIN new /\ new[k].fid = fid /\ IsCurrent(new[k])
    BY <1>4 DEF CurrentVersions, Versions
  <2>2. k \in DOMAIN old /\ old[k].fid = fid
    BY <2>1 DEF Writes
  <2>3. ~IsCurrent(old[k])
    BY <2>2 DEF Deactivated, CurrentVersions, Versions
  <2>4. new[k] = old[k]
    BY <2>2, <2>3 DEF Writes
  <2> QED
    BY <2>1, <2>3, <2>4
<1> QED
  BY <1>3, <1>4 DEF Deactivated

\* Ending current versions and inserting several rows with one statement is a
\* write of these rows (the multi-row INSERT of crud/activity.bulk_create).
LEMMA AppendedRowsWrite ==
  ASSUME NEW Row, Stampable(Row), NEW table \in Seq(Row), NEW t \in Nat,
         NEW ids, \A i \in ids : i \in DOMAIN table /\ IsCurrent(table[i]),
         NEW rows \in Seq(Row),
         \A n \in DOMAIN rows : rows[n].createdAt = t /\ rows[n].endedAt = NotEnded
  PROVE  LET new == EndVersions(table, ids, t) \o rows
         IN  /\ new \in Seq(Row)
             /\ Len(new) = Len(table) + Len(rows)
             /\ Writes(table, new, ids, t)
             /\ \A n \in DOMAIN rows :
                   /\ Len(table) + n \in (DOMAIN new) \ DOMAIN table
                   /\ new[Len(table) + n] = rows[n]
             /\ \A k \in (DOMAIN new) \ DOMAIN table :
                   \E n \in DOMAIN rows : k = Len(table) + n /\ new[k] = rows[n]
<1> DEFINE old == EndVersions(table, ids, t)
           new == old \o rows
<1>1. /\ old \in Seq(Row)
      /\ Len(old) = Len(table)
      /\ Writes(table, old, ids, t)
  BY EndVersionsWrites
<1> HIDE DEF old
<1>2. /\ new \in Seq(Row)
      /\ Len(new) = Len(table) + Len(rows)
      /\ Len(table) \in Nat /\ Len(rows) \in Nat
      /\ DOMAIN table = 1..Len(table) /\ DOMAIN rows = 1..Len(rows)
      /\ DOMAIN new = 1..(Len(table) + Len(rows))
      /\ \A i \in DOMAIN table : new[i] = old[i]
      /\ \A n \in DOMAIN rows : new[Len(table) + n] = rows[n]
  <2>1. new \in Seq(Row) /\ Len(new) = Len(old) + Len(rows)
    BY <1>1
  <2>2. \A i \in 1..Len(old) : new[i] = old[i]
    BY <1>1
  <2>3. \A n \in 1..Len(rows) : new[Len(old) + n] = rows[n]
    BY <1>1
  <2>4. /\ Len(table) \in Nat /\ Len(rows) \in Nat
        /\ DOMAIN table = 1..Len(table) /\ DOMAIN rows = 1..Len(rows)
    OBVIOUS
  <2> HIDE DEF new
  <2>5. DOMAIN new = 1..Len(new)
    BY <2>1
  <2>6. /\ Len(new) = Len(table) + Len(rows)
        /\ \A i \in DOMAIN table : new[i] = old[i]
        /\ \A n \in DOMAIN rows : new[Len(table) + n] = rows[n]
    BY <1>1, <2>1, <2>2, <2>3, <2>4
  <2> QED
    BY <2>1, <2>4, <2>5, <2>6
<1> HIDE DEF new
<1>3. \A k \in (DOMAIN new) \ DOMAIN table :
         \E n \in DOMAIN rows : k = Len(table) + n /\ new[k] = rows[n]
  <2> SUFFICES ASSUME NEW k \in (DOMAIN new) \ DOMAIN table
               PROVE  \E n \in DOMAIN rows : k = Len(table) + n /\ new[k] = rows[n]
    OBVIOUS
  <2>1. k - Len(table) \in DOMAIN rows /\ k = Len(table) + (k - Len(table))
    BY <1>2
  <2> QED
    BY <1>2, <2>1
<1>4. \A n \in DOMAIN rows : /\ Len(table) + n \in (DOMAIN new) \ DOMAIN table
                             /\ new[Len(table) + n] = rows[n]
  BY <1>2
<1>5. Writes(table, new, ids, t)
  <2>1. \A k \in (DOMAIN new) \ DOMAIN table :
           new[k].createdAt = t /\ new[k].endedAt = NotEnded
    BY <1>3
  <2>2. Len(table) <= Len(new)
    BY <1>2
  <2> QED
    BY <1>1, <1>2, <2>1, <2>2 DEF Writes
<1> QED
  BY <1>2, <1>3, <1>4, <1>5 DEF new, old

\* A row that was in force at an earlier instant still was after a write.
LEMMA InForceSurvives ==
  ASSUME NEW Row, Stampable(Row), NEW old \in Seq(Row), NEW new \in Seq(Row),
         NEW ids, NEW t \in Nat, Writes(old, new, ids, t),
         NEW i \in DOMAIN old, NEW c \in Nat, c < t, InForceAt(old[i], c)
  PROVE  i \in DOMAIN new /\ InForceAt(new[i], c)
<1>1. /\ i \in DOMAIN new
      /\ new[i].createdAt = old[i].createdAt
      /\ \/ new[i] = old[i]
         \/ IsCurrent(old[i]) /\ new[i].endedAt = t
  BY WritesKeep
<1> QED
  BY <1>1 DEF InForceAt

-----------------------------------------------------------------------------
(***************************************************************************)
(* The statements of ReadCommitted, column by column                       *)
(***************************************************************************)

\* r becomes s: an UPDATE of worker w has reached the row, or the transaction
\* of w has ended.  The other columns of a row are its own.
RowEnded(r, s, w) ==
  /\ s.fid = r.fid /\ s.createdAt = r.createdAt /\ s.by = r.by /\ s.endedAt = r.endedAt
  /\ s.endedBy = IF IsCurrent(r) THEN w ELSE r.endedBy

RowCommitted(r, s, w, t) ==
  /\ s.fid = r.fid /\ s.createdAt = r.createdAt
  /\ s.by = IF r.by = w THEN "committed" ELSE r.by
  /\ s.endedAt = IF r.endedBy = w THEN t ELSE r.endedAt
  /\ s.endedBy = IF r.endedBy = w THEN "nobody" ELSE r.endedBy

RowRolledBack(r, s, w) ==
  /\ s.fid = r.fid /\ s.createdAt = r.createdAt /\ s.endedAt = r.endedAt
  /\ s.by = IF r.by = w THEN "aborted" ELSE r.by
  /\ s.endedBy = IF r.endedBy = w THEN "nobody" ELSE r.endedBy

\* Rows that workers W can mark at these times.
TakesMarks(Row, W, Times) ==
  \A r \in Row, w \in W, t \in Times :
     /\ EndedRow(r, w, t) \in Row /\ RowEnded(r, EndedRow(r, w, t), w)
     /\ CommittedRow(r, w, t) \in Row /\ RowCommitted(r, CommittedRow(r, w, t), w, t)
     /\ RolledBackRow(r, w) \in Row /\ RowRolledBack(r, RolledBackRow(r, w), w)

\* An UPDATE that has locked row i.
LEMMA LockedTable ==
  ASSUME NEW Row, NEW W, NEW Times, TakesMarks(Row, W, Times), NEW table \in Seq(Row),
         NEW i \in DOMAIN table, NEW w \in W, NEW t \in Times
  PROVE  LET new == [table EXCEPT ![i] = EndedRow(@, w, t)]
         IN  /\ new \in Seq(Row)
             /\ Len(new) = Len(table) /\ DOMAIN new = DOMAIN table
             /\ RowEnded(table[i], new[i], w)
             /\ \A j \in DOMAIN table \ {i} : new[j] = table[j]
<1> DEFINE row == EndedRow(table[i], w, t)
           new == [table EXCEPT ![i] = row]
<1>1. table[i] \in Row
  OBVIOUS
<1>2. row \in Row /\ RowEnded(table[i], row, w)
  BY <1>1 DEF TakesMarks
<1> HIDE DEF row
<1>3. new \in Seq(Row) /\ Len(new) = Len(table) /\ DOMAIN new = DOMAIN table
  BY <1>2
<1>4. new[i] = row /\ \A j \in DOMAIN table \ {i} : new[j] = table[j]
  OBVIOUS
<1> QED
  BY <1>2, <1>3, <1>4 DEF row

\* The tables of a transaction that has committed, or was rolled back.
LEMMA EndedTable ==
  ASSUME NEW Row, NEW W, NEW Times, TakesMarks(Row, W, Times), NEW table \in Seq(Row),
         NEW w \in W, NEW t \in Times
  PROVE  /\ AllCommitted(table, w, t) \in Seq(Row)
         /\ Len(AllCommitted(table, w, t)) = Len(table)
         /\ DOMAIN AllCommitted(table, w, t) = DOMAIN table
         /\ \A i \in DOMAIN table : RowCommitted(table[i], AllCommitted(table, w, t)[i], w, t)
         /\ AllRolledBack(table, w) \in Seq(Row)
         /\ Len(AllRolledBack(table, w)) = Len(table)
         /\ DOMAIN AllRolledBack(table, w) = DOMAIN table
         /\ \A i \in DOMAIN table : RowRolledBack(table[i], AllRolledBack(table, w)[i], w)
<1> DEFINE com == AllCommitted(table, w, t)
           rol == AllRolledBack(table, w)
<1>0. DOMAIN table = 1..Len(table) /\ Len(table) \in Nat
  OBVIOUS
<1>1. \A i \in DOMAIN table : table[i] \in Row
  OBVIOUS
<1>2. \A i \in DOMAIN table : /\ com[i] = CommittedRow(table[i], w, t)
                              /\ rol[i] = RolledBackRow(table[i], w)
  BY DEF AllCommitted, AllRolledBack
<1>3. \A i \in DOMAIN table : /\ com[i] \in Row /\ RowCommitted(table[i], com[i], w, t)
                              /\ rol[i] \in Row /\ RowRolledBack(table[i], rol[i], w)
  BY <1>1, <1>2 DEF TakesMarks
<1>4. com \in Seq(Row) /\ Len(com) = Len(table) /\ DOMAIN com = DOMAIN table
  BY <1>0, <1>3 DEF AllCommitted
<1>5. rol \in Seq(Row) /\ Len(rol) = Len(table) /\ DOMAIN rol = DOMAIN table
  BY <1>0, <1>3 DEF AllRolledBack
<1> QED
  BY <1>3, <1>4, <1>5

\* An INSERT of some rows.
LEMMA InsertedTable ==
  ASSUME NEW Row, NEW table \in Seq(Row), NEW rows \in Seq(Row)
  PROVE  LET new == table \o rows
         IN  /\ new \in Seq(Row)
             /\ Len(new) = Len(table) + Len(rows)
             /\ \A i \in DOMAIN table : i \in DOMAIN new /\ new[i] = table[i]
             /\ \A n \in DOMAIN rows : /\ Len(table) + n \in DOMAIN new \ DOMAIN table
                                       /\ new[Len(table) + n] = rows[n]
             /\ \A k \in DOMAIN new \ DOMAIN table :
                   /\ k > Len(table)
                   /\ k - Len(table) \in DOMAIN rows
                   /\ new[k] = rows[k - Len(table)]
<1> DEFINE new == table \o rows
<1>1. new \in Seq(Row) /\ Len(new) = Len(table) + Len(rows)
  OBVIOUS
<1>2. \A i \in 1..Len(table) : new[i] = table[i]
  OBVIOUS
<1>3. \A n \in 1..Len(rows) : new[Len(table) + n] = rows[n]
  OBVIOUS
<1>4. /\ Len(table) \in Nat /\ Len(rows) \in Nat
      /\ DOMAIN table = 1..Len(table) /\ DOMAIN rows = 1..Len(rows)
  OBVIOUS
<1> HIDE DEF new
<1>5. DOMAIN new = 1..(Len(table) + Len(rows))
  BY <1>1
<1>6. \A k \in DOMAIN new \ DOMAIN table : /\ k > Len(table)
                                           /\ k - Len(table) \in DOMAIN rows
                                           /\ new[k] = rows[k - Len(table)]
  <2> SUFFICES ASSUME NEW k \in DOMAIN new \ DOMAIN table
               PROVE  /\ k > Len(table)
                      /\ k - Len(table) \in DOMAIN rows
                      /\ new[k] = rows[k - Len(table)]
    OBVIOUS
  <2>1. k > Len(table) /\ k - Len(table) \in 1..Len(rows) /\ k = Len(table) + (k - Len(table))
    BY <1>4, <1>5
  <2> QED
    BY <1>3, <1>4, <2>1
<1>7. \A n \in DOMAIN rows : /\ Len(table) + n \in DOMAIN new \ DOMAIN table
                             /\ new[Len(table) + n] = rows[n]
  BY <1>3, <1>4, <1>5
<1>8. \A i \in DOMAIN table : i \in DOMAIN new /\ new[i] = table[i]
  BY <1>2, <1>4, <1>5
<1> QED
  BY <1>1, <1>6, <1>7, <1>8 DEF new

-----------------------------------------------------------------------------
\* What any step of worker w may do to a table: its own rows are committed or
\* aborted, its locks taken or given up, its ends stamped, its rows inserted.
StepOf(old, new, w, t) ==
  /\ Len(old) <= Len(new)
  /\ \A i \in DOMAIN old :
       /\ i \in DOMAIN new
       /\ new[i].fid = old[i].fid /\ new[i].createdAt = old[i].createdAt
       /\ new[i].by = old[i].by \/ (old[i].by = w /\ new[i].by \in {"committed", "aborted"})
       /\ \/ new[i].endedBy = old[i].endedBy
          \/ old[i].endedBy = w /\ new[i].endedBy = "nobody"
          \/ old[i].endedBy \in {"nobody", w} /\ IsCurrent(old[i]) /\ new[i].endedBy = w
       /\ new[i].endedAt = old[i].endedAt \/ (old[i].endedBy = w /\ new[i].endedAt = t)
  /\ \A k \in DOMAIN new \ DOMAIN old :
       /\ new[k].by = w /\ new[k].endedBy = "nobody"
       /\ new[k].endedAt = NotEnded /\ new[k].createdAt = t

\* Until it commits, nothing of a step can be seen by the others.
Unseen(old, new) ==
  /\ \A i \in DOMAIN old : /\ new[i].endedAt = old[i].endedAt
                           /\ new[i].by = "committed" <=> old[i].by = "committed"
  /\ \A k \in DOMAIN new \ DOMAIN old : new[k].by # "committed"

\* A statement that only reads.
LEMMA ReadIsStep ==
  ASSUME NEW table, NEW w, NEW t, Len(table) \in Nat
  PROVE  StepOf(table, table, w, t) /\ Unseen(table, table)
BY DEF StepOf, Unseen

\* A lock taken by an UPDATE.
LEMMA LockIsStep ==
  ASSUME NEW old, NEW new, NEW w, NEW t, NEW i \in DOMAIN old,
         Len(old) \in Nat, Len(new) = Len(old), DOMAIN new = DOMAIN old,
         Unlocked(old[i], w), RowEnded(old[i], new[i], w),
         \A j \in DOMAIN old \ {i} : new[j] = old[j]
  PROVE  StepOf(old, new, w, t) /\ Unseen(old, new)
<1>1. ASSUME NEW j \in DOMAIN old
      PROVE  /\ new[j].fid = old[j].fid /\ new[j].createdAt = old[j].createdAt
             /\ new[j].by = old[j].by
             /\ \/ new[j].endedBy = old[j].endedBy
                \/ old[j].endedBy \in {"nobody", w} /\ IsCurrent(old[j]) /\ new[j].endedBy = w
             /\ new[j].endedAt = old[j].endedAt
  <2>1. CASE j = i
    BY <2>1 DEF RowEnded, Unlocked
  <2>2. CASE j # i
    <3>1. new[j] = old[j]
      BY <2>2
    <3> QED
      BY <3>1
  <2> QED
    BY <2>1, <2>2
<1> QED
  BY <1>1 DEF StepOf, Unseen

\* The rows a statement inserts.
LEMMA InsertIsStep ==
  ASSUME NEW old, NEW new, NEW w, w # "committed", NEW t, Len(old) \in Nat, Len(new) \in Nat,
         Len(old) <= Len(new),
         \A i \in DOMAIN old : i \in DOMAIN new /\ new[i] = old[i],
         \A k \in DOMAIN new \ DOMAIN old :
           /\ new[k].by = w /\ new[k].endedBy = "nobody"
           /\ new[k].endedAt = NotEnded /\ new[k].createdAt = t
  PROVE  StepOf(old, new, w, t) /\ Unseen(old, new)
BY DEF StepOf, Unseen

\* The end of a transaction.
LEMMA EndIsStep ==
  ASSUME NEW old, NEW new, NEW w, NEW t, Len(old) \in Nat, Len(new) = Len(old),
         DOMAIN new = DOMAIN old
  PROVE  /\ (\A i \in DOMAIN old : RowCommitted(old[i], new[i], w, t)) => StepOf(old, new, w, t)
         /\ (w # "committed" /\ \A i \in DOMAIN old : RowRolledBack(old[i], new[i], w))
              => StepOf(old, new, w, t) /\ Unseen(old, new)
<1>1. ASSUME \A i \in DOMAIN old : RowCommitted(old[i], new[i], w, t)
      PROVE  StepOf(old, new, w, t)
  BY <1>1 DEF StepOf, RowCommitted
<1>2. ASSUME w # "committed", \A i \in DOMAIN old : RowRolledBack(old[i], new[i], w)
      PROVE  StepOf(old, new, w, t) /\ Unseen(old, new)
  BY <1>2 DEF StepOf, Unseen, RowRolledBack
<1> QED
  BY <1>1, <1>2

\* Nobody else loses or gains rows or locks by a step of w.
LEMMA StepOfAnother ==
  ASSUME NEW old, NEW new, NEW w, NEW t, StepOf(old, new, w, t),
         NEW v, v # w, v \notin {"committed", "aborted", "nobody"}
  PROVE  /\ \A i \in DOMAIN old : /\ new[i].by = v <=> old[i].by = v
                                 /\ new[i].endedBy = v <=> old[i].endedBy = v
         /\ \A i \in DOMAIN new : (new[i].by = v \/ new[i].endedBy = v) => i \in DOMAIN old
BY DEF StepOf

\* What is committed stays so; only rows of w can join.
LEMMA StepKeepsCommitted ==
  ASSUME NEW old, NEW new, NEW w, w \notin {"committed", "aborted", "nobody"}, NEW t,
         StepOf(old, new, w, t)
  PROVE  /\ \A i \in Committed(old) : i \in Committed(new)
         /\ \A i \in Committed(new) : i \in DOMAIN old /\ (i \in Committed(old) \/ old[i].by = w)
         /\ Unseen(old, new) => Committed(new) = Committed(old)
<1>1. \A i \in Committed(old) : i \in Committed(new)
  BY DEF StepOf, Committed
<1>2. \A i \in Committed(new) : i \in DOMAIN old /\ (i \in Committed(old) \/ old[i].by = w)
  BY DEF StepOf, Committed
<1>3. ASSUME Unseen(old, new)
      PROVE  Committed(new) = Committed(old)
  BY <1>1, <1>2, <1>3 DEF Unseen, Committed
<1> QED
  BY <1>1, <1>2, <1>3

-----------------------------------------------------------------------------
\* What a statement of worker w, whose transaction started at t, does to a table
\* of such rows, and the rollback; the other step is the commit.
TableStatement(Row, old, new, w, t) ==
  \/ new = old
  \/ \E i \in DOMAIN old : Unlocked(old[i], w) /\ new = [old EXCEPT ![i] = EndedRow(@, w, t)]
  \/ \E rows \in Seq(Row) :
       /\ \A n \in DOMAIN rows : /\ rows[n].by = w /\ rows[n].endedBy = "nobody"
                                /\ rows[n].endedAt = NotEnded /\ rows[n].createdAt = t
       /\ new = old \o rows
  \/ new = AllRolledBack(old, w)

TableStep(Row, old, new, w, t) ==
  TableStatement(Row, old, new, w, t) \/ new = AllCommitted(old, w, t)

\* A statement keeps the rows well formed, and it is seen once it is committed.
LEMMA TableStepEffect ==
  ASSUME NEW Row, NEW W, NEW Times, TakesMarks(Row, W, Times), NEW old \in Seq(Row),
         NEW new, NEW w \in W, NEW t \in Times, w # "committed", TableStep(Row, old, new, w, t)
  PROVE  /\ new \in Seq(Row) /\ StepOf(old, new, w, t)
         /\ TableStatement(Row, old, new, w, t) => Unseen(old, new)
<1>1. Len(old) \in Nat /\ DOMAIN old = 1..Len(old)
  OBVIOUS
<1>2. ASSUME new = old
      PROVE  new \in Seq(Row) /\ StepOf(old, new, w, t) /\ Unseen(old, new)
  BY <1>1, <1>2, ReadIsStep
<1>3. ASSUME NEW i \in DOMAIN old, Unlocked(old[i], w),
             new = [old EXCEPT ![i] = EndedRow(@, w, t)]
      PROVE  new \in Seq(Row) /\ StepOf(old, new, w, t) /\ Unseen(old, new)
  <2>1. /\ new \in Seq(Row) /\ Len(new) = Len(old) /\ DOMAIN new = DOMAIN old
        /\ RowEnded(old[i], new[i], w) /\ \A j \in DOMAIN old \ {i} : new[j] = old[j]
    BY <1>3, LockedTable
  <2> QED
    BY <1>1, <1>3, <2>1, LockIsStep
<1>4. ASSUME NEW rows \in Seq(Row),
             \A n \in DOMAIN rows : /\ rows[n].by = w /\ rows[n].endedBy = "nobody"
                                    /\ rows[n].endedAt = NotEnded /\ rows[n].createdAt = t,
             new = old \o rows
      PROVE  new \in Seq(Row) /\ StepOf(old, new, w, t) /\ Unseen(old, new)
  <2>1. /\ new \in Seq(Row) /\ Len(new) = Len(old) + Len(rows)
        /\ \A i \in DOMAIN old : i \in DOMAIN new /\ new[i] = old[i]
        /\ \A k \in DOMAIN new \ DOMAIN old :
              k - Len(old) \in DOMAIN rows /\ new[k] = rows[k - Len(old)]
    BY <1>4, InsertedTable
  <2>2. Len(rows) \in Nat
    OBVIOUS
  <2>3. Len(new) \in Nat /\ Len(old) <= Len(new)
    BY <1>1, <2>1, <2>2
  <2>4. \A k \in DOMAIN new \ DOMAIN old :
          /\ new[k].by = w /\ new[k].endedBy = "nobody"
          /\ new[k].endedAt = NotEnded /\ new[k].createdAt = t
    BY <1>4, <2>1
  <2> QED
    BY <1>1, <2>1, <2>3, <2>4, InsertIsStep
<1>5. ASSUME new = AllCommitted(old, w, t)
      PROVE  new \in Seq(Row) /\ StepOf(old, new, w, t)
  <2>1. /\ new \in Seq(Row) /\ Len(new) = Len(old) /\ DOMAIN new = DOMAIN old
        /\ \A i \in DOMAIN old : RowCommitted(old[i], new[i], w, t)
    BY <1>5, EndedTable
  <2> QED
    BY <1>1, <2>1, EndIsStep
<1>6. ASSUME new = AllRolledBack(old, w)
      PROVE  new \in Seq(Row) /\ StepOf(old, new, w, t) /\ Unseen(old, new)
  <2>1. /\ new \in Seq(Row) /\ Len(new) = Len(old) /\ DOMAIN new = DOMAIN old
        /\ \A i \in DOMAIN old : RowRolledBack(old[i], new[i], w)
    BY <1>6, EndedTable
  <2> QED
    BY <1>1, <2>1, EndIsStep
<1> QED
  BY <1>2, <1>3, <1>4, <1>5, <1>6 DEF TableStep, TableStatement

\* An uncommitted row is not ended, and only a committed row that is current is
\* locked.
RowsMarked(table, W) ==
  \A i \in DOMAIN table :
     /\ table[i].endedBy # "nobody" => table[i].by = "committed" /\ IsCurrent(table[i])
     /\ table[i].by \in W => IsCurrent(table[i])

\* Rows that keep their other columns, whatever mark they take.
KeepsHistory(Row, W, Times) ==
  \A r \in Row, w \in W, t \in Times :
     r.by = "committed" =>
       /\ [EndedRow(r, w, t) EXCEPT !.endedBy = "nobody"] = [r EXCEPT !.endedBy = "nobody"]
       /\ r.endedBy # w => CommittedRow(r, w, t) = r
       /\ r.endedBy = w =>
            CommittedRow(r, w, t) = [r EXCEPT !.endedAt = CommittedRow(r, w, t).endedAt,
                                              !.endedBy = "nobody"]
       /\ [RolledBackRow(r, w) EXCEPT !.endedBy = "nobody"] = [r EXCEPT !.endedBy = "nobody"]

\* No statement rewrites what is committed.
LEMMA TableStepContinues ==
  ASSUME NEW Row, NEW W, NEW Times, TakesMarks(Row, W, Times), KeepsHistory(Row, W, Times),
         NEW old \in Seq(Row), NEW new, NEW w \in W, NEW t \in Times,
         w \notin {"committed", "aborted", "nobody"},
         RowsMarked(old, W), TableStep(Row, old, new, w, t)
  PROVE  CommittedContinues(old, new)
<1>1. StepOf(old, new, w, t)
  BY TableStepEffect
<1> SUFFICES ASSUME NEW i \in Committed(old)
             PROVE  \/ new[i] = old[i]
                    \/ [new[i] EXCEPT !.endedBy = "nobody"] = [old[i] EXCEPT !.endedBy = "nobody"]
                    \/ /\ IsCurrent(old[i])
                       /\ new[i] = [old[i] EXCEPT !.endedAt = new[i].endedAt, !.endedBy = "nobody"]
  BY <1>1, StepKeepsCommitted DEF CommittedContinues
<1>2. i \in DOMAIN old /\ old[i].by = "committed" /\ old[i] \in Row
  BY DEF Committed
<1>3. old[i].endedBy = w => IsCurrent(old[i])
  BY <1>2 DEF RowsMarked
<1> DEFINE r == old[i]
<1>4. /\ [EndedRow(r, w, t) EXCEPT !.endedBy = "nobody"] = [r EXCEPT !.endedBy = "nobody"]
      /\ r.endedBy # w => CommittedRow(r, w, t) = r
      /\ r.endedBy = w =>
           CommittedRow(r, w, t) = [r EXCEPT !.endedAt = CommittedRow(r, w, t).endedAt,
                                             !.endedBy = "nobody"]
      /\ [RolledBackRow(r, w) EXCEPT !.endedBy = "nobody"] = [r EXCEPT !.endedBy = "nobody"]
  BY <1>2 DEF KeepsHistory
<1>5. CASE new = old
  BY <1>5
<1>6. ASSUME NEW k \in DOMAIN old, new = [old EXCEPT ![k] = EndedRow(@, w, t)]
      PROVE  new[i] = r \/ new[i] = EndedRow(r, w, t)
  BY <1>2, <1>6
<1>7. ASSUME NEW rows \in Seq(Row), new = old \o rows
      PROVE  new[i] = r
  BY <1>2, <1>7, InsertedTable
<1>8. CASE new = AllCommitted(old, w, t)
  <2>1. new[i] = CommittedRow(r, w, t)
    BY <1>2, <1>8 DEF AllCommitted
  <2> QED
    BY <1>3, <1>4, <2>1
<1>9. CASE new = AllRolledBack(old, w)
  <2>1. new[i] = RolledBackRow(r, w)
    BY <1>2, <1>9 DEF AllRolledBack
  <2> QED
    BY <1>4, <2>1
<1> QED
  BY <1>4, <1>5, <1>6, <1>7, <1>8, <1>9 DEF TableStep, TableStatement

\* Marks stay in order if only committed rows are locked.
LEMMA RowsMarkedKept ==
  ASSUME NEW Row, NEW W, NEW Times, TakesMarks(Row, W, Times), NEW old \in Seq(Row), NEW new,
         NEW w \in W, NEW t \in Times, W \cap {"committed", "aborted", "nobody"} = {},
         RowsMarked(old, W), TableStep(Row, old, new, w, t),
         \A i \in DOMAIN old : new[i].endedBy = w => old[i].by = "committed"
  PROVE  RowsMarked(new, W)
<1>0. w \notin {"committed", "aborted", "nobody"}
  OBVIOUS
<1>1. CASE new = old
  BY <1>1
<1>2. ASSUME NEW i \in DOMAIN old, Unlocked(old[i], w),
             new = [old EXCEPT ![i] = EndedRow(@, w, t)]
      PROVE  RowsMarked(new, W)
  <2>1. /\ DOMAIN new = DOMAIN old /\ RowEnded(old[i], new[i], w)
        /\ \A j \in DOMAIN old \ {i} : new[j] = old[j]
    BY <1>2, LockedTable
  <2>2. /\ new[i].by = old[i].by /\ new[i].endedAt = old[i].endedAt
        /\ new[i].endedBy = IF IsCurrent(old[i]) THEN w ELSE old[i].endedBy
    BY <2>1 DEF RowEnded
  <2>3. /\ new[i].endedBy # "nobody" => new[i].by = "committed" /\ IsCurrent(new[i])
        /\ new[i].by \in W => IsCurrent(new[i])
    BY <2>2 DEF RowsMarked, IsCurrent
  <2> QED
    BY <2>1, <2>3 DEF RowsMarked
<1>3. ASSUME NEW rows \in Seq(Row), new = old \o rows,
             \A n \in DOMAIN rows : /\ rows[n].by = w /\ rows[n].endedBy = "nobody"
                                    /\ rows[n].endedAt = NotEnded /\ rows[n].createdAt = t
      PROVE  RowsMarked(new, W)
  <2>1. /\ \A i \in DOMAIN old : i \in DOMAIN new /\ new[i] = old[i]
        /\ \A k \in DOMAIN new \ DOMAIN old :
              k - Len(old) \in DOMAIN rows /\ new[k] = rows[k - Len(old)]
    BY <1>3, InsertedTable
  <2>2. ASSUME NEW k \in DOMAIN new \ DOMAIN old
        PROVE  new[k].endedBy = "nobody" /\ IsCurrent(new[k])
    BY <1>3, <2>1 DEF IsCurrent
  <2> QED
    BY <2>1, <2>2 DEF RowsMarked
<1>4. CASE new = AllCommitted(old, w, t)
  <2>1. /\ DOMAIN new = DOMAIN old
        /\ \A i \in DOMAIN old : RowCommitted(old[i], new[i], w, t)
    BY <1>4, EndedTable
  <2> QED
    BY <1>0, <2>1 DEF RowsMarked, RowCommitted, IsCurrent
<1>5. CASE new = AllRolledBack(old, w)
  <2>1. /\ DOMAIN new = DOMAIN old
        /\ \A i \in DOMAIN old : RowRolledBack(old[i], new[i], w)
    BY <1>5, EndedTable
  <2> QED
    BY <1>0, <2>1 DEF RowsMarked, RowRolledBack, IsCurrent
<1> QED
  BY <1>1, <1>2, <1>3, <1>4, <1>5 DEF TableStep, TableStatement

\* A transaction that has ended holds nothing any more.
LEMMA EndedHoldsNothing ==
  ASSUME NEW old, NEW new, NEW w, NEW t, w \notin {"committed", "aborted", "nobody"},
         DOMAIN new = DOMAIN old,
         \/ \A i \in DOMAIN old : RowCommitted(old[i], new[i], w, t)
         \/ \A i \in DOMAIN old : RowRolledBack(old[i], new[i], w)
  PROVE  \A i \in DOMAIN new : new[i].by # w /\ new[i].endedBy # w
BY DEF RowCommitted, RowRolledBack

-----------------------------------------------------------------------------
(***************************************************************************)
(* Technical ids closed up                                                 *)
(***************************************************************************)

\* The committed rows are finitely many.
LEMMA CommittedFinite ==
  ASSUME NEW Row, NEW table \in Seq(Row)
  PROVE  /\ IsFiniteSet(Committed(table)) /\ Cardinality(Committed(table)) \in Nat
         /\ Committed(table) \subseteq Nat
         /\ \A i : /\ IsFiniteSet({j \in Committed(table) : j <= i})
                   /\ Place(table, i) \in Nat
                   /\ Place(table, i) <= Cardinality(Committed(table))
<1>1. DOMAIN table = 1..Len(table) /\ Len(table) \in Int /\ 1 \in Int
  OBVIOUS
<1>2. IsFiniteSet(DOMAIN table)
  BY <1>1, FS_Interval
<1>3. Committed(table) \in SUBSET DOMAIN table
  BY DEF Committed
<1>4. IsFiniteSet(Committed(table)) /\ Cardinality(Committed(table)) \in Nat
  BY <1>2, <1>3, FS_Subset, FS_CardinalityType
<1>5. ASSUME NEW i
      PROVE  /\ IsFiniteSet({j \in Committed(table) : j <= i})
             /\ Place(table, i) \in Nat
             /\ Place(table, i) <= Cardinality(Committed(table))
  <2>1. {j \in Committed(table) : j <= i} \in SUBSET Committed(table)
    OBVIOUS
  <2> QED
    BY <1>4, <2>1, FS_Subset, FS_CardinalityType DEF Place
<1> QED
  BY <1>1, <1>3, <1>4, <1>5

\* A later row has a later place.
LEMMA PlacesInOrder ==
  ASSUME NEW Row, NEW table \in Seq(Row), NEW i \in Committed(table), NEW k \in Committed(table)
  PROVE  /\ Place(table, i) \in Places(table)
         /\ i < k => Place(table, i) < Place(table, k)
         /\ Place(table, i) = Place(table, k) => i = k
<1>1. /\ IsFiniteSet(Committed(table)) /\ Cardinality(Committed(table)) \in Nat
      /\ Committed(table) \subseteq Nat
      /\ \A j : /\ IsFiniteSet({l \in Committed(table) : l <= j})
                /\ Place(table, j) \in Nat
                /\ Place(table, j) <= Cardinality(Committed(table))
  BY CommittedFinite
<1>2. ASSUME NEW a \in Committed(table), NEW b \in Committed(table), a < b
      PROVE  Place(table, a) < Place(table, b)
  <2> DEFINE A == {j \in Committed(table) : j <= a}
             B == {j \in Committed(table) : j <= b}
  <2>1. A \in SUBSET B /\ b \in B /\ b \notin A
    BY <1>1, <1>2
  <2>2. Cardinality(A) <= Cardinality(B) /\ Cardinality(A) # Cardinality(B)
    BY <1>1, <2>1, FS_Subset
  <2>3. Cardinality(A) \in Nat /\ Cardinality(B) \in Nat
    BY <1>1 DEF Place
  <2> QED
    BY <2>2, <2>3 DEF Place
<1>3. Place(table, i) # 0
  <2>1. i \in {j \in Committed(table) : j <= i}
    BY <1>1
  <2> QED
    BY <1>1, <2>1, FS_EmptySet DEF Place
<1>4. Place(table, i) \in Places(table)
  <2>1. PICK m, n : m = Place(table, i) /\ n = Cardinality(Committed(table))
    OBVIOUS
  <2>2. m \in Nat /\ n \in Nat /\ m <= n /\ m # 0
    BY <1>1, <1>3, <2>1
  <2>3. m \in 1..n
    BY <2>2
  <2> QED
    BY <2>1, <2>3 DEF Places
<1>5. Place(table, i) = Place(table, k) => i = k
  <2>1. i \in Nat /\ k \in Nat /\ Place(table, i) \in Nat /\ Place(table, k) \in Nat
    BY <1>1
  <2>2. (i < k => Place(table, i) < Place(table, k)) /\ (k < i => Place(table, k) < Place(table, i))
    BY <1>2
  <2> QED
    BY <2>1, <2>2
<1> QED
  BY <1>2, <1>4, <1>5

\* Every place is that of one committed row.
LEMMA RowsInPlace ==
  ASSUME NEW Row, NEW table \in Seq(Row)
  PROVE  /\ \A n \in Places(table) : \E i \in Committed(table) : Place(table, i) = n
         /\ \A i \in Committed(table) : RowAt(table, Place(table, i)) = table[i]
<1> DEFINE C == Committed(table)
           f == [i \in C |-> Place(table, i)]
<1>1. IsFiniteSet(C) /\ Cardinality(C) \in Nat
  BY CommittedFinite
<1>2. f \in [C -> Places(table)] /\ \A i, k \in C : f[i] = f[k] => i = k
  BY PlacesInOrder
<1>3. f \in Injection(C, Places(table))
  BY <1>2 DEF Injection, IsInjective
<1>4. IsFiniteSet(Places(table)) /\ Cardinality(Places(table)) = Cardinality(C)
  <2>1. PICK n \in Nat : n = Cardinality(C)
    BY <1>1
  <2>2. IsFiniteSet(1..n) /\ Cardinality(1..n) = IF 1 > n THEN 0 ELSE n - 1 + 1
    BY FS_Interval
  <2>3. Cardinality(1..n) = n
    BY <2>2
  <2> QED
    BY <2>1, <2>2, <2>3 DEF Places
<1>5. f \in Surjection(C, Places(table))
  BY <1>3, <1>4, FS_Injection
<1>6. \A n \in Places(table) : \E i \in C : Place(table, i) = n
  BY <1>5 DEF Surjection
<1>7. ASSUME NEW i \in C
      PROVE  RowAt(table, Place(table, i)) = table[i]
  BY PlacesInOrder DEF RowAt
<1> QED
  BY <1>6, <1>7

\* Places move only when a row is committed, ...
LEMMA PlacesKept ==
  ASSUME NEW old, NEW new, Committed(new) = Committed(old)
  PROVE  Places(new) = Places(old) /\ \A i : Place(new, i) = Place(old, i)
BY DEF Place, Places

\* ... and a row that is committed above the others takes the next one.
LEMMA PlaceAdded ==
  ASSUME NEW Row, NEW old \in Seq(Row), NEW new, NEW k \in Nat,
         Committed(new) = Committed(old) \cup {k}, \A i \in Committed(old) : i < k
  PROVE  LET n == Cardinality(Committed(old))
         IN  /\ n \in Nat /\ Places(old) = 1..n /\ Places(new) = 1..(n + 1)
             /\ \A i \in Committed(old) : Place(new, i) = Place(old, i)
             /\ Place(new, k) = n + 1
<1> DEFINE n == Cardinality(Committed(old))
<1>1. IsFiniteSet(Committed(old)) /\ n \in Nat /\ Committed(old) \subseteq Nat
  BY CommittedFinite
<1>2. k \notin Committed(old)
  BY <1>1
<1>3. Cardinality(Committed(new)) = n + 1
  BY <1>1, <1>2, FS_AddElement
<1>4. ASSUME NEW i \in Committed(old)
      PROVE  Place(new, i) = Place(old, i)
  <2>1. i < k /\ i \in Nat
    BY <1>1
  <2>2. {j \in Committed(new) : j <= i} = {j \in Committed(old) : j <= i}
    BY <2>1
  <2> QED
    BY <2>2 DEF Place
<1>5. {j \in Committed(new) : j <= k} = Committed(new)
  BY <1>1
<1> QED
  BY <1>1, <1>3, <1>4, <1>5 DEF Place, Places

\* closed is the table with its technical ids closed up.
ClosesUp(table, closed) ==
  /\ DOMAIN closed = Places(table)
  /\ \A i \in Committed(table) :
       /\ closed[Place(table, i)].fid = table[i].fid
       /\ closed[Place(table, i)].endedAt = table[i].endedAt

\* It has the versions of the committed rows.
LEMMA ClosedVersions ==
  ASSUME NEW Row, NEW table \in Seq(Row), NEW closed, ClosesUp(table, closed), NEW x
  PROVE  /\ \A i \in Committed(table) :
              /\ Place(table, i) \in DOMAIN closed
              /\ Place(table, i) \in Versions(closed, x) <=> table[i].fid = x
              /\ Place(table, i) \in CurrentVersions(closed, x)
                   <=> table[i].fid = x /\ IsCurrent(table[i])
         /\ \A n \in Versions(closed, x) :
              \E i \in Committed(table) : Place(table, i) = n /\ table[i].fid = x
         /\ \A n \in CurrentVersions(closed, x) :
              \E i \in Committed(table) :
                 Place(table, i) = n /\ table[i].fid = x /\ IsCurrent(table[i])
<1>1. ASSUME NEW i \in Committed(table)
      PROVE  /\ Place(table, i) \in DOMAIN closed
             /\ Place(table, i) \in Versions(closed, x) <=> table[i].fid = x
             /\ Place(table, i) \in CurrentVersions(closed, x)
                  <=> table[i].fid = x /\ IsCurrent(table[i])
  <2>1. Place(table, i) \in DOMAIN closed
    BY PlacesInOrder DEF ClosesUp
  <2> QED
    BY <2>1 DEF ClosesUp, Versions, CurrentVersions, IsCurrent
<1>2. \A n \in DOMAIN closed : \E i \in Committed(table) : Place(table, i) = n
  BY RowsInPlace DEF ClosesUp
<1>3. Versions(closed, x) \subseteq DOMAIN closed /\ CurrentVersions(closed, x) \subseteq DOMAIN closed
  BY DEF Versions, CurrentVersions
<1> QED
  BY <1>1, <1>2, <1>3

\* closed and result are the tables old and new with their technical ids closed
\* up, and the versions with the ids are ended in result.
EndsClosed(old, new, closed, result, ids, t) ==
  /\ closed = [n \in Places(old) |-> closed[n]]
  /\ result = [n \in Places(new) |-> result[n]]
  /\ \A i \in Committed(old) :
       result[Place(new, i)] =
         IF Place(old, i) \in ids THEN [closed[Place(old, i)] EXCEPT !.endedAt = t]
           ELSE closed[Place(old, i)]

\* A table of which versions are ended, ...
LEMMA ClosedEnds ==
  ASSUME NEW Row, NEW old \in Seq(Row), NEW new, Committed(new) = Committed(old),
         NEW closed, NEW result, NEW ids, NEW t,
         EndsClosed(old, new, closed, result, ids, t)
  PROVE  result = EndVersions(closed, ids, t)
<1> USE DEF EndsClosed
<1>1. Places(new) = Places(old) /\ \A i : Place(new, i) = Place(old, i)
  BY PlacesKept
<1>2. DOMAIN closed = Places(old)
  OBVIOUS
<1>3. ASSUME NEW n \in Places(old)
      PROVE  result[n] = IF n \in ids THEN [closed[n] EXCEPT !.endedAt = t] ELSE closed[n]
  <2>1. PICK i \in Committed(old) : Place(old, i) = n
    BY RowsInPlace
  <2> QED
    BY <1>1, <2>1
<1>4. result = [n \in Places(old) |-> result[n]]
  BY <1>1
<1>5. EndVersions(closed, ids, t)
        = [n \in Places(old) |-> IF n \in ids THEN [closed[n] EXCEPT !.endedAt = t] ELSE closed[n]]
  BY <1>2 DEF EndVersions
<1> QED
  BY <1>3, <1>4, <1>5

\* A sequence with one more element.
LEMMA OneMore ==
  ASSUME NEW n \in Nat, NEW s, s = [i \in 1..n |-> s[i]],
         NEW result, result = [i \in 1..(n + 1) |-> result[i]],
         \A i \in 1..n : result[i] = s[i]
  PROVE  result = Append(s, result[n + 1]) /\ Len(result) = n + 1
<1> DEFINE S == {s[i] : i \in 1..n}
<1>1. s \in [1..n -> S]
  OBVIOUS
<1> HIDE DEF S
<1>2. s \in Seq(S) /\ Len(s) = n
  BY <1>1
<1>3. PICK e : e = result[n + 1]
  OBVIOUS
<1>4. Append(s, e) = [i \in 1..(n + 1) |-> IF i = n + 1 THEN e ELSE s[i]]
  BY <1>2
<1>5. \A i \in 1..(n + 1) : result[i] = IF i = n + 1 THEN e ELSE s[i]
  <2> SUFFICES ASSUME NEW i \in 1..(n + 1), i # n + 1 PROVE result[i] = s[i]
    BY <1>3
  <2>1. i \in 1..n
    OBVIOUS
  <2> QED
    BY <2>1
<1>6. result = Append(s, e)
  BY <1>4, <1>5
<1>7. Len(Append(s, e)) = n + 1
  BY <1>2
<1> QED
  BY <1>3, <1>6, <1>7

\* They are ended, and a version with technical id n is added.
AppendsClosed(closed, result, ids, t, n) ==
  /\ result = Append(EndVersions(closed, ids, t), result[n])
  /\ Len(result) = n

\* ... and one version is added.
LEMMA ClosedAppends ==
  ASSUME NEW Row, NEW old \in Seq(Row), NEW new, NEW k \in Nat,
         Committed(new) = Committed(old) \cup {k}, \A i \in Committed(old) : i < k,
         NEW closed, NEW result, NEW ids, NEW t,
         EndsClosed(old, new, closed, result, ids, t)
  PROVE  AppendsClosed(closed, result, ids, t, Place(new, k))
<1> USE DEF EndsClosed
<1> DEFINE n == Cardinality(Committed(old))
<1>1. /\ n \in Nat /\ Places(old) = 1..n /\ Places(new) = 1..(n + 1)
      /\ \A i \in Committed(old) : Place(new, i) = Place(old, i)
      /\ Place(new, k) = n + 1
  BY PlaceAdded
<1> HIDE DEF n
<1>2. DOMAIN closed = 1..n
  BY <1>1
<1>3. ASSUME NEW m \in 1..n
      PROVE  result[m] = IF m \in ids THEN [closed[m] EXCEPT !.endedAt = t] ELSE closed[m]
  <2>1. PICK i \in Committed(old) : Place(old, i) = m
    BY <1>1, RowsInPlace
  <2> QED
    BY <1>1, <2>1
<1>4. PICK s : s = EndVersions(closed, ids, t)
  OBVIOUS
<1>5. s = [m \in 1..n |-> IF m \in ids THEN [closed[m] EXCEPT !.endedAt = t] ELSE closed[m]]
  BY <1>2, <1>4 DEF EndVersions
<1>6. s = [m \in 1..n |-> s[m]] /\ \A m \in 1..n : result[m] = s[m]
  BY <1>3, <1>5
<1>7. result = [m \in 1..(n + 1) |-> result[m]]
  BY <1>1
<1>8. result = Append(s, result[n + 1]) /\ Len(result) = n + 1
  BY <1>1, <1>6, <1>7, OneMore
<1> QED
  BY <1>1, <1>4, <1>8 DEF AppendsClosed

=============================================================================
