----------------------------- MODULE Versioning -----------------------------
(***************************************************************************)
(* Rows, functional ids and versions: the queries and statements that the  *)
(* four crud modules (competent_authority, platform, area, activity) share.*)
(*                                                                         *)
(* A table is the sequence of its committed rows; the position of a row is *)
(* its technical id, the autoincremented primary key.  A row is a record   *)
(* with at least the fields                                                *)
(*   fid        the functional id (platform_id, area_id, activity_id, ...) *)
(*   createdAt  the timestamp of the transaction that inserted the row     *)
(*   endedAt    the timestamp of the transaction that ended it             *)
(* Rows are never deleted by the services: several rows may share a        *)
(* functional id, they are its versions.                                   *)
(***************************************************************************)
EXTENDS Integers, Sequences, FiniteSets

\* NULL in the column ended_at.  Timestamps are positive.
NotEnded == 0

IsCurrent(row) == row.endedAt = NotEnded

\* The technical ids of every version of a functional id.
Versions(table, fid) == {i \in DOMAIN table : table[i].fid = fid}

\* SELECT ... WHERE <functional id> = fid AND ended_at IS NULL.
CurrentVersions(table, fid) ==
  {i \in Versions(table, fid) : IsCurrent(table[i])}

\* SELECT count(*) > 0 ... WHERE <functional id> = fid.
ExistsAny(table, fid) == Versions(table, fid) # {}

\* A functional id that exists, but only in ended versions.
Deactivated(table, fid) ==
  ExistsAny(table, fid) /\ CurrentVersions(table, fid) = {}

\* scalar_one_or_none() raises MultipleResultsFound.
Ambiguous(table, fid) ==
  \E i, j \in CurrentVersions(table, fid) : i # j

\* UPDATE ... SET ended_at = now() on the rows with the given technical ids.
EndVersions(table, ids, now) ==
  [i \in DOMAIN table |->
     IF i \in ids THEN [table[i] EXCEPT !.endedAt = now] ELSE table[i]]

\* Wrong: the UPDATE is forgotten, or its WHERE lacks "ended_at IS NULL".
Bug_NothingEnded(table, row) == Append(table, row)
Bug_AllEnded(table, row) ==
  Append(EndVersions(table, Versions(table, row.fid), row.createdAt), row)

\* End the current version of a functional id, if there is one, and insert
\* the row that takes its place.
NewVersion(table, row) ==
  Append(EndVersions(table, CurrentVersions(table, row.fid), row.createdAt), row)

\* The (only) sequence that lists a finite set of indexes in order.
InOrder(S) ==
  {s \in [1..Cardinality(S) -> S] : \A m, n \in DOMAIN s : m < n => s[m] < s[n]}

-----------------------------------------------------------------------------
(***************************************************************************)
(* Predicates on the history of a table, used by the properties.           *)
(***************************************************************************)

\* Versions lie one after the other: an earlier version of a functional id
\* had ended when the later one was created.
Stacked(table) ==
  \A i, j \in DOMAIN table :
     (i < j /\ table[i].fid = table[j].fid)
       => /\ ~IsCurrent(table[i])
          /\ table[i].endedAt <= table[j].createdAt

\* A version is replaced in the very transaction that ends it: unless it is
\* the last of its functional id, some version starts when it ends.
Gapless(table) ==
  \A i, j \in DOMAIN table :
     (i < j /\ table[i].fid = table[j].fid)
       => \E k \in DOMAIN table : /\ i < k
                                  /\ table[k].fid = table[i].fid
                                  /\ table[k].createdAt = table[i].endedAt

\* A version covers at least its own instant, and no row is from the future.
ProperIntervals(table, now) ==
  \A i \in DOMAIN table :
     /\ table[i].createdAt <= now
     /\ ~IsCurrent(table[i]) => /\ table[i].createdAt < table[i].endedAt
                                /\ table[i].endedAt <= now

\* Was a version in force at time t?
InForceAt(row, t) ==
  row.createdAt <= t /\ (IsCurrent(row) \/ t < row.endedAt)

\* new continues old: rows are only appended, and the only change to an old
\* row is that a current version ends.
Continues(old, new) ==
  /\ Len(old) <= Len(new)
  /\ \A i \in DOMAIN old :
        \/ new[i] = old[i]
        \/ /\ IsCurrent(old[i])
           /\ new[i] = [old[i] EXCEPT !.endedAt = new[i].endedAt]

\* A deactivated functional id never has a current version again.
NeverResurrects(old, new, fids) ==
  \A fid \in fids : Deactivated(old, fid) => Deactivated(new, fid)
=============================================================================
