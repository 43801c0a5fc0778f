---------------------------- MODULE ReadCommitted ----------------------------
(***************************************************************************)
(* What one SQL statement sees and does while other transactions run: the  *)
(* part of PostgreSQL's isolation level READ COMMITTED, the default that   *)
(* db/config.py leaves in place, that the statements of the crud modules   *)
(* rest on.                                                                *)
(*                                                                         *)
(* A row of Versioning gets two more fields:                               *)
(*   by       the worker whose transaction inserted it and is still open,  *)
(*            "committed", or "aborted" for the dead row of a transaction  *)
(*            that was rolled back                                         *)
(*   endedBy  the worker that has set ended_at and holds the row lock, or  *)
(*            "nobody"; ended_at itself is stamped by the commit           *)
(***************************************************************************)
EXTENDS Versioning

-----------------------------------------------------------------------------
(***************************************************************************)
(* What a statement sees: what is committed when it starts, and the own    *)
(* writes of its transaction.                                              *)
(***************************************************************************)

\* SELECT ... WHERE <functional id> = fid.  Wrong: a dirty read.
Bug_DirtyRead(w, table, fid) == {i \in Versions(table, fid) : table[i].by # "aborted"}
VisibleTo(w, table, fid) == {i \in Versions(table, fid) : table[i].by \in {"committed", w}}

\* SELECT ... WHERE <functional id> = fid AND ended_at IS NULL.  Wrong: ended
\* versions are found too.
Bug_EndedToo(w, table, fid) == VisibleTo(w, table, fid)
CurrentTo(w, table, fid) ==
  {i \in VisibleTo(w, table, fid) : IsCurrent(table[i]) /\ table[i].endedBy # w}

-----------------------------------------------------------------------------
(***************************************************************************)
(* UPDATE ... SET ended_at = now() WHERE ... AND ended_at IS NULL finds its*)
(* rows like a SELECT and then locks them one by one.  It waits for a row  *)
(* that another transaction has ended, and looks at ended_at again once    *)
(* that transaction is over.                                               *)
(***************************************************************************)

\* No other worker holds the lock.
Unlocked(row, w) == row.endedBy \in {"nobody", w}

\* The row as the UPDATE leaves it: a row that was ended meanwhile no longer
\* matches.  Wrong: it is ended again, or ended outside the transaction.
Bug_EndedAgain(row, w, time) == [row EXCEPT !.endedAt = NotEnded, !.endedBy = w]
Bug_EndedAtOnce(row, w, time) ==
  IF IsCurrent(row) THEN [row EXCEPT !.endedAt = time] ELSE row
EndedRow(row, w, time) == IF IsCurrent(row) THEN [row EXCEPT !.endedBy = w] ELSE row

-----------------------------------------------------------------------------
(***************************************************************************)
(* The end of a transaction that started at the given time                 *)
(***************************************************************************)

CommittedRow(row, w, time) ==
  [row EXCEPT !.by = IF @ = w THEN "committed" ELSE @,
              !.endedAt = IF row.endedBy = w THEN time ELSE @,
              !.endedBy = IF @ = w THEN "nobody" ELSE @]

\* Wrong: a row the transaction has ended stays marked.
Bug_StillEnded(row, w) == [row EXCEPT !.by = IF @ = w THEN "aborted" ELSE @]
RolledBackRow(row, w) ==
  [row EXCEPT !.by = IF @ = w THEN "aborted" ELSE @,
              !.endedBy = IF @ = w THEN "nobody" ELSE @]

AllCommitted(table, w, time) == [i \in DOMAIN table |-> CommittedRow(table[i], w, time)]
AllRolledBack(table, w) == [i \in DOMAIN table |-> RolledBackRow(table[i], w)]

-----------------------------------------------------------------------------
(***************************************************************************)
(* What the others can see, for the properties                             *)
(***************************************************************************)

Committed(table) == {i \in DOMAIN table : table[i].by = "committed"}

\* Technical ids skip the rows that were rolled back.  Closed up, the id of a
\* committed row is the number of committed rows up to it.
Place(table, i) == Cardinality({j \in Committed(table) : j <= i})
Places(table) == 1..Cardinality(Committed(table))
RowAt(table, n) == table[CHOOSE i \in Committed(table) : Place(table, i) = n]

CommittedCurrent(table, fid) ==
  {i \in Versions(table, fid) \cap Committed(table) : IsCurrent(table[i])}

\* The committed rows of new continue those of old: they are only added, and
\* the only change to one is that it ends, once.
CommittedContinues(old, new) ==
  \A i \in Committed(old) :
     /\ i \in Committed(new)
     /\ \/ new[i] = old[i]
        \/ [new[i] EXCEPT !.endedBy = "nobody"] = [old[i] EXCEPT !.endedBy = "nobody"]
        \/ /\ IsCurrent(old[i])
           /\ new[i] = [old[i] EXCEPT !.endedAt = new[i].endedAt, !.endedBy = "nobody"]

\* A functional id that has a current version keeps one.
NothingVanishes(old, new, fids) ==
  \A fid \in fids : CommittedCurrent(old, fid) # {} => CommittedCurrent(new, fid) # {}

\* The committed versions of these functional ids follow each other: at most
\* one is current, and an earlier one had ended when the later was created.
CommittedStacked(table, fids) ==
  \A i, j \in Committed(table) :
     (i < j /\ table[i].fid = table[j].fid /\ table[i].fid \in fids)
       => ~IsCurrent(table[i]) /\ table[i].endedAt <= table[j].createdAt

\* No functional id that was ended for good has a current version again.
CommittedStaysEnded(old, new, fids) ==
  \A fid \in fids :
     (Committed(old) \cap Versions(old, fid) # {} /\ CommittedCurrent(old, fid) = {})
       => CommittedCurrent(new, fid) = {}
=============================================================================
