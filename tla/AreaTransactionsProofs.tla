----------------------- MODULE AreaTransactionsProofs -----------------------
(***************************************************************************)
(* Theorems about AreaTransactions, for any number of workers, authorities *)
(* and areas.                                                              *)
(*                                                                         *)
(* The inductive invariant says of every request what it has locked and    *)
(* inserted, and of a request that nobody else overlaps on its authority   *)
(* or its area what its next statement will find there, although each      *)
(* statement sees another snapshot.  It is stated as a predicate of what   *)
(* the worker remembers (its statement, owner, targets and version), so    *)
(* that a statement which only reads is settled by comparing the predicate *)
(* before and after in one state.                                          *)
(***************************************************************************)
EXTENDS AreaTransactions, VersioningLemmas, FiniteSetTheorems

-----------------------------------------------------------------------------
(***************************************************************************)
(* Requests and rows                                                       *)
(***************************************************************************)

Started(w) == txn[w].pc # "idle"
Kind(w) == txn[w].request.kind
Ca(w) == txn[w].request.ca

Statements ==
  {"idle", "find authority", "any authority", "end authority", "lock authority",
   "find area", "any area", "find own area", "end area", "lock area", "insert",
   "find reported area", "report", "answered"}

\* The statements after the one that settles the authority of a new area.
WithAuthority == {"find area", "any area", "end area", "lock area", "insert", "answered"}

\* The statements of a request.
StatementsOf(request) ==
  IF request.kind = "post"
    THEN {"find authority", "any authority", "end authority", "lock authority", "insert",
          "answered"}
           \cup (IF request.areaId = NoId THEN {}
                 ELSE {"find area", "any area", "end area", "lock area"})
  ELSE IF request.kind = "delete"
    THEN {"find own area", "end area", "lock area", "answered"}
  ELSE IF request.kind = "report" THEN {"find reported area", "report", "answered"}
  ELSE {"end authority", "lock authority", "answered"}

Timestamps == 1..MaxTime
Writers == Workers \cup {"committed", "aborted"}
Markers == Workers \cup {"nobody"}

AuthorityRow ==
  [fid: CompetentAuthorities, createdAt: Timestamps, endedAt: 0..MaxTime,
   by: Writers, endedBy: Markers]
AreaRow ==
  [fid: AllAreaIds, competentAuthority: Nat \ {0}, createdAt: Timestamps,
   endedAt: 0..MaxTime, by: Writers, endedBy: Markers]
ReportRow ==
  [fid: Timestamps, area: Nat \ {0}, createdAt: Timestamps, endedAt: 0..MaxTime,
   by: Writers, endedBy: Markers]

Transaction ==
  [pc: Statements, alone: BOOLEAN, request: {<<>>} \cup Requests, time: 0..MaxTime,
   owner: Nat, targets: SUBSET (Nat \ {0}), version: Nat, status: {0, 201, 204}]

\* A request that is served came once, and is at one of its statements.
RequestKept(w) ==
  Started(w) => /\ txn[w].request \in Requests /\ txn[w].time \in 1..now
                /\ txn[w].pc \in StatementsOf(txn[w].request)
                /\ txn[w].status = 204 => Kind(w) = "delete"

Typed ==
  /\ competentAuthority \in Seq(AuthorityRow)
  /\ area \in Seq(AreaRow)
  /\ activity \in Seq(ReportRow)
  /\ now \in 0..MaxTime
  /\ txn \in [Workers -> Transaction]
  /\ \A w \in Workers : RequestKept(w)

-----------------------------------------------------------------------------
(***************************************************************************)
(* What is committed of a functional id                                    *)
(***************************************************************************)

CommittedOf(table, x) == {i \in Committed(table) : table[i].fid = x}
CurrentOf(table, x) == {i \in CommittedOf(table, x) : IsCurrent(table[i])}

\* All that is committed is older than t.
OlderThan(table, x, t) ==
  \A i \in CommittedOf(table, x) : table[i].createdAt < t /\ table[i].endedAt < t

\* The functional id has not been ended for good.
InUse(table, x) == CommittedOf(table, x) # {} => CurrentOf(table, x) # {}

-----------------------------------------------------------------------------
(***************************************************************************)
(* What a request has done and knows, at statement pc                      *)
(***************************************************************************)

\* Rows it has ended, or is about to: committed ones of its own ids.
Locks(w, pc, targets) ==
  /\ \A i \in DOMAIN competentAuthority : competentAuthority[i].endedBy = w =>
       pc \in WithAuthority \cup {"lock authority"} /\ competentAuthority[i].fid = Ca(w)
  /\ \A i \in DOMAIN area : area[i].endedBy = w =>
       /\ pc \in {"lock area", "insert", "answered"} /\ Kind(w) # "report"
       /\ area[i].fid = AreaIdOf(w)
  /\ pc = "lock authority" => targets \subseteq CommittedOf(competentAuthority, Ca(w))
  /\ pc = "lock area" => targets \subseteq CommittedOf(area, AreaIdOf(w))

\* Rows it has inserted.
OwnRows(w, pc, version) ==
  /\ \A i \in DOMAIN competentAuthority : competentAuthority[i].by = w =>
       /\ Kind(w) = "post" /\ pc \in WithAuthority /\ i = version
       /\ competentAuthority[i].fid = Ca(w) /\ competentAuthority[i].createdAt = txn[w].time
  /\ \A i \in DOMAIN area : area[i].by = w =>
       /\ Kind(w) = "post" /\ pc = "answered"
       /\ area[i].fid = AreaIdOf(w) /\ area[i].createdAt = txn[w].time
       /\ area[i].competentAuthority = version
  /\ \A i, k \in DOMAIN area : area[i].by = w /\ area[k].by = w => i = k
  /\ \A i \in DOMAIN activity : activity[i].by = w =>
       /\ Kind(w) = "report" /\ pc = "answered"
       /\ activity[i].createdAt = txn[w].time /\ activity[i].area = version
  /\ Kind(w) = "post" /\ pc \in WithAuthority =>
       version \in DOMAIN competentAuthority /\ competentAuthority[version].by = w
  /\ Kind(w) = "report" /\ pc \in {"report", "answered"} =>
       version \in CommittedOf(area, AreaIdOf(w))

\* What holds of its authority, if no other request that names it is served.
OnAuthority(w, pc, targets, version) ==
  Ca(w) \in CompetentAuthorities \ overlapped =>
    /\ OlderThan(competentAuthority, Ca(w), txn[w].time)
    /\ pc = "any authority" => CurrentOf(competentAuthority, Ca(w)) = {}
    /\ pc = "lock authority" =>
         \A i \in CurrentOf(competentAuthority, Ca(w)) :
            i \in targets \/ competentAuthority[i].endedBy = w
    /\ Kind(w) = "post" /\ pc \in WithAuthority =>
         /\ \A i \in CurrentOf(competentAuthority, Ca(w)) : competentAuthority[i].endedBy = w
         /\ \A i \in CommittedOf(competentAuthority, Ca(w)) : i < version
    /\ Kind(w) = "post" /\ pc \in WithAuthority \cup {"end authority", "lock authority"} =>
         InUse(competentAuthority, Ca(w))

\* What holds of its area, if no other request that names it is served.
OnArea(w, pc, owner, targets, version) ==
  AreaIdOf(w) \notin overlapped =>
    /\ OlderThan(area, AreaIdOf(w), txn[w].time)
    /\ \A i \in Committed(activity) :
         area[activity[i].area].fid = AreaIdOf(w) => activity[i].createdAt < txn[w].time
    /\ pc = "any area" => CurrentOf(area, AreaIdOf(w)) = {}
    /\ pc = "end area" =>
         \A i \in CurrentOf(area, AreaIdOf(w)) : area[i].competentAuthority = owner
    /\ pc = "lock area" =>
         \A i \in CurrentOf(area, AreaIdOf(w)) : i \in targets \/ area[i].endedBy = w
    /\ Kind(w) \in {"post", "delete"} /\ pc \in {"insert", "answered"} =>
         \A i \in CurrentOf(area, AreaIdOf(w)) : area[i].endedBy = w
    /\ Kind(w) = "post" /\ pc \in {"end area", "lock area", "insert", "answered"} =>
         InUse(area, AreaIdOf(w))
    /\ \A i \in CommittedOf(area, AreaIdOf(w)), k \in DOMAIN area : area[k].by = w => i < k
    /\ Kind(w) = "report" /\ pc \in {"report", "answered"} => IsCurrent(area[version])

\* A worker without request has left nothing uncommitted.
HoldsNothing(w) ==
  /\ \A i \in DOMAIN competentAuthority :
       competentAuthority[i].by # w /\ competentAuthority[i].endedBy # w
  /\ \A i \in DOMAIN area : area[i].by # w /\ area[i].endedBy # w
  /\ \A i \in DOMAIN activity : activity[i].by # w

\* A request that goes on with statement pc and remembers these.
Fits(w, pc, owner, targets, version) ==
  /\ Locks(w, pc, targets) /\ OwnRows(w, pc, version)
  /\ OnAuthority(w, pc, targets, version) /\ OnArea(w, pc, owner, targets, version)

WorkerInv(w) ==
  IF Started(w)
    THEN Fits(w, txn[w].pc, txn[w].owner, txn[w].targets, txn[w].version)
    ELSE HoldsNothing(w)

-----------------------------------------------------------------------------
(***************************************************************************)
(* The inductive invariant                                                 *)
(***************************************************************************)

\* Requests served at once have distinct timestamps, and what two of them name
\* is noted.
OverlapsNoted ==
  \A v, w \in Workers :
     v # w /\ Started(v) /\ Started(w) =>
       /\ txn[v].time # txn[w].time
       /\ Named(txn[v].request) \cap Named(txn[w].request) \subseteq overlapped

\* Rows are marked as ReadCommitted says, and a generated id is the timestamp
\* of the only transaction that uses it.
Marked ==
  /\ RowsMarked(competentAuthority, Workers) /\ RowsMarked(area, Workers)
  /\ \A i \in DOMAIN area : area[i].fid \notin AreaIds => area[i].fid = area[i].createdAt

\* Nothing committed is younger than now.
Past ==
  /\ \A i \in Committed(competentAuthority) :
       competentAuthority[i].createdAt <= now /\ competentAuthority[i].endedAt <= now
  /\ \A i \in Committed(area) : area[i].createdAt <= now /\ area[i].endedAt <= now
  /\ \A i \in Committed(activity) : activity[i].createdAt <= now

\* An area and the version it was announced by were stored together.
AnnouncedTogether ==
  \A i \in Committed(area) :
     /\ area[i].competentAuthority \in Committed(competentAuthority)
     /\ competentAuthority[area[i].competentAuthority].createdAt = area[i].createdAt

AreaTransactionsInv ==
  /\ Typed /\ OverlapsNoted /\ Marked /\ Past /\ AnnouncedTogether
  /\ \A w \in Workers : WorkerInv(w)
  /\ VersionsStacked /\ ReferencesInForce

-----------------------------------------------------------------------------
(***************************************************************************)
(* Types                                                                   *)
(***************************************************************************)

\* What a request carries.
LEMMA RequestTypes ==
  ASSUME NEW request \in Requests
  PROVE  /\ request.kind \in {"post", "delete", "report", "end authority"}
         /\ request.kind = "report" => request.ca = NoId
         /\ request.kind # "report" => request.ca \in CompetentAuthorities
         /\ request.kind = "post" => request.areaId \in AreaIds \cup {NoId}
         /\ request.kind \in {"delete", "report"} => request.areaId \in AreaIds
         /\ request.kind = "end authority" => request.areaId = NoId
BY DEF Requests

\* Versions of authorities can be locked, committed and rolled back.
LEMMA AuthorityRowsTakeMarks ==
  /\ TakesMarks(AuthorityRow, Workers, Timestamps)
<1> SUFFICES ASSUME NEW r \in AuthorityRow, NEW w \in Workers, NEW t \in Timestamps
             PROVE  /\ EndedRow(r, w, t) \in AuthorityRow /\ RowEnded(r, EndedRow(r, w, t), w)
                    /\ CommittedRow(r, w, t) \in AuthorityRow /\ RowCommitted(r, CommittedRow(r, w, t), w, t)
                    /\ RolledBackRow(r, w) \in AuthorityRow /\ RowRolledBack(r, RolledBackRow(r, w), w)
  BY DEF TakesMarks
<1>1. EndedRow(r, w, t) \in AuthorityRow /\ RowEnded(r, EndedRow(r, w, t), w)
  BY DEF EndedRow, AuthorityRow, Markers, RowEnded
<1>2. CommittedRow(r, w, t) \in AuthorityRow /\ RowCommitted(r, CommittedRow(r, w, t), w, t)
  <2> DEFINE b == IF r.by = w THEN "committed" ELSE r.by
             e == IF r.endedBy = w THEN t ELSE r.endedAt
             m == IF r.endedBy = w THEN "nobody" ELSE r.endedBy
             s == [r EXCEPT !.by = b, !.endedAt = e, !.endedBy = m]
  <2>1. CommittedRow(r, w, t) = s
    BY DEF CommittedRow
  <2>2. b \in Writers /\ e \in 0..MaxTime /\ m \in Markers
    BY DEF AuthorityRow, Writers, Markers, Timestamps
  <2> HIDE DEF b, e, m
  <2>3. s \in AuthorityRow
    BY <2>2 DEF AuthorityRow
  <2>4. /\ s.fid = r.fid /\ s.createdAt = r.createdAt
        /\ s.by = b /\ s.endedAt = e /\ s.endedBy = m
    BY DEF AuthorityRow
  <2> QED
    BY <2>1, <2>3, <2>4 DEF RowCommitted, b, e, m
<1>3. RolledBackRow(r, w) \in AuthorityRow /\ RowRolledBack(r, RolledBackRow(r, w), w)
  BY DEF RolledBackRow, AuthorityRow, Writers, Markers, RowRolledBack
<1> QED
  BY <1>1, <1>2, <1>3

\* So can areas, which keep the authority that announced them.
LEMMA AreaRowsTakeMarks ==
  /\ TakesMarks(AreaRow, Workers, Timestamps)
  /\ \A r \in AreaRow, w \in Workers, t \in Timestamps :
       /\ EndedRow(r, w, t).competentAuthority = r.competentAuthority
       /\ CommittedRow(r, w, t).competentAuthority = r.competentAuthority
       /\ RolledBackRow(r, w).competentAuthority = r.competentAuthority
<1> SUFFICES ASSUME NEW r \in AreaRow, NEW w \in Workers, NEW t \in Timestamps
             PROVE  /\ EndedRow(r, w, t) \in AreaRow /\ RowEnded(r, EndedRow(r, w, t), w)
                    /\ CommittedRow(r, w, t) \in AreaRow /\ RowCommitted(r, CommittedRow(r, w, t), w, t)
                    /\ RolledBackRow(r, w) \in AreaRow /\ RowRolledBack(r, RolledBackRow(r, w), w)
                    /\ EndedRow(r, w, t).competentAuthority = r.competentAuthority
                    /\ CommittedRow(r, w, t).competentAuthority = r.competentAuthority
                    /\ RolledBackRow(r, w).competentAuthority = r.competentAuthority
  BY DEF TakesMarks
<1>1. EndedRow(r, w, t) \in AreaRow /\ RowEnded(r, EndedRow(r, w, t), w)
  BY DEF EndedRow, AreaRow, Markers, RowEnded
<1>2. CommittedRow(r, w, t) \in AreaRow /\ RowCommitted(r, CommittedRow(r, w, t), w, t)
  <2> DEFINE b == IF r.by = w THEN "committed" ELSE r.by
             e == IF r.endedBy = w THEN t ELSE r.endedAt
             m == IF r.endedBy = w THEN "nobody" ELSE r.endedBy
             s == [r EXCEPT !.by = b, !.endedAt = e, !.endedBy = m]
  <2>1. CommittedRow(r, w, t) = s
    BY DEF CommittedRow
  <2>2. b \in Writers /\ e \in 0..MaxTime /\ m \in Markers
    BY DEF AreaRow, Writers, Markers, Timestamps
  <2> HIDE DEF b, e, m
  <2>3. s \in AreaRow
    BY <2>2 DEF AreaRow
  <2>4. /\ s.fid = r.fid /\ s.createdAt = r.createdAt
        /\ s.by = b /\ s.endedAt = e /\ s.endedBy = m
    BY DEF AreaRow
  <2> QED
    BY <2>1, <2>3, <2>4 DEF RowCommitted, b, e, m
<1>3. RolledBackRow(r, w) \in AreaRow /\ RowRolledBack(r, RolledBackRow(r, w), w)
  BY DEF RolledBackRow, AreaRow, Writers, Markers, RowRolledBack
<1>4. /\ EndedRow(r, w, t).competentAuthority = r.competentAuthority
      /\ CommittedRow(r, w, t).competentAuthority = r.competentAuthority
      /\ RolledBackRow(r, w).competentAuthority = r.competentAuthority
  BY DEF EndedRow, CommittedRow, RolledBackRow, AreaRow
<1> QED
  BY <1>1, <1>2, <1>3, <1>4

\* So can activities, which keep their area.
LEMMA ReportRowsTakeMarks ==
  /\ TakesMarks(ReportRow, Workers, Timestamps)
  /\ \A r \in ReportRow, w \in Workers, t \in Timestamps :
       /\ EndedRow(r, w, t).area = r.area
       /\ CommittedRow(r, w, t).area = r.area
       /\ RolledBackRow(r, w).area = r.area
<1> SUFFICES ASSUME NEW r \in ReportRow, NEW w \in Workers, NEW t \in Timestamps
             PROVE  /\ EndedRow(r, w, t) \in ReportRow /\ RowEnded(r, EndedRow(r, w, t), w)
                    /\ CommittedRow(r, w, t) \in ReportRow /\ RowCommitted(r, CommittedRow(r, w, t), w, t)
                    /\ RolledBackRow(r, w) \in ReportRow /\ RowRolledBack(r, RolledBackRow(r, w), w)
                    /\ EndedRow(r, w, t).area = r.area
                    /\ CommittedRow(r, w, t).area = r.area
                    /\ RolledBackRow(r, w).area = r.area
  BY DEF TakesMarks
<1>1. EndedRow(r, w, t) \in ReportRow /\ RowEnded(r, EndedRow(r, w, t), w)
  BY DEF EndedRow, ReportRow, Markers, RowEnded
<1>2. CommittedRow(r, w, t) \in ReportRow /\ RowCommitted(r, CommittedRow(r, w, t), w, t)
  <2> DEFINE b == IF r.by = w THEN "committed" ELSE r.by
             e == IF r.endedBy = w THEN t ELSE r.endedAt
             m == IF r.endedBy = w THEN "nobody" ELSE r.endedBy
             s == [r EXCEPT !.by = b, !.endedAt = e, !.endedBy = m]
  <2>1. CommittedRow(r, w, t) = s
    BY DEF CommittedRow
  <2>2. b \in Writers /\ e \in 0..MaxTime /\ m \in Markers
    BY DEF ReportRow, Writers, Markers, Timestamps
  <2> HIDE DEF b, e, m
  <2>3. s \in ReportRow
    BY <2>2 DEF ReportRow
  <2>4. /\ s.fid = r.fid /\ s.createdAt = r.createdAt
        /\ s.by = b /\ s.endedAt = e /\ s.endedBy = m
    BY DEF ReportRow
  <2> QED
    BY <2>1, <2>3, <2>4 DEF RowCommitted, b, e, m
<1>3. RolledBackRow(r, w) \in ReportRow /\ RowRolledBack(r, RolledBackRow(r, w), w)
  BY DEF RolledBackRow, ReportRow, Writers, Markers, RowRolledBack
<1>4. /\ EndedRow(r, w, t).area = r.area
      /\ CommittedRow(r, w, t).area = r.area
      /\ RolledBackRow(r, w).area = r.area
  BY DEF EndedRow, CommittedRow, RolledBackRow, ReportRow
<1> QED
  BY <1>1, <1>2, <1>3, <1>4


\* A worker between two statements.
LEMMA WorkerTypes ==
  ASSUME Typed, NEW w \in Workers
  PROVE  /\ w \notin {"committed", "aborted", "nobody"}
         /\ txn[w] \in Transaction
         /\ now \in Nat /\ MaxTime \in Nat
         /\ Started(w) => /\ txn[w].request \in Requests
                          /\ txn[w].time \in Nat /\ txn[w].time \in Timestamps
                          /\ txn[w].time <= now
                          /\ txn[w].pc \in StatementsOf(txn[w].request)
<1>1. w \notin {"committed", "aborted", "nobody"} /\ MaxTime \in Nat
  BY AreaTransactionConstantsAssumption
<1>2. txn[w] \in Transaction /\ now \in 0..MaxTime
  BY DEF Typed
<1>3. Started(w) => /\ txn[w].request \in Requests /\ txn[w].time \in 1..now
                    /\ txn[w].pc \in StatementsOf(txn[w].request)
  BY DEF Typed, RequestKept
<1> QED
  BY <1>1, <1>2, <1>3 DEF Timestamps

\* The columns of the rows.
LEMMA RowTypes ==
  ASSUME Typed
  PROVE  /\ \A i \in DOMAIN competentAuthority :
              /\ i \in Nat \ {0} /\ competentAuthority[i] \in AuthorityRow
              /\ competentAuthority[i].fid \in CompetentAuthorities
              /\ competentAuthority[i].createdAt \in Nat /\ competentAuthority[i].endedAt \in Nat
         /\ \A i \in DOMAIN area :
              /\ i \in Nat \ {0} /\ area[i] \in AreaRow /\ area[i].fid \in AllAreaIds
              /\ area[i].createdAt \in Nat /\ area[i].endedAt \in Nat
              /\ area[i].competentAuthority \in Nat \ {0}
         /\ \A i \in DOMAIN activity :
              /\ activity[i] \in ReportRow /\ activity[i].createdAt \in Nat
<1>1. /\ \A r \in AuthorityRow : r.fid \in CompetentAuthorities /\ r.createdAt \in Nat /\ r.endedAt \in Nat
      /\ \A r \in AreaRow : /\ r.fid \in AllAreaIds /\ r.createdAt \in Nat /\ r.endedAt \in Nat
                            /\ r.competentAuthority \in Nat \ {0}
      /\ \A r \in ReportRow : r.createdAt \in Nat
  BY DEF AuthorityRow, AreaRow, ReportRow, Timestamps
<1>2. /\ \A i \in DOMAIN competentAuthority : i \in Nat \ {0} /\ competentAuthority[i] \in AuthorityRow
      /\ \A i \in DOMAIN area : i \in Nat \ {0} /\ area[i] \in AreaRow
      /\ \A i \in DOMAIN activity : activity[i] \in ReportRow
  BY DEF Typed
<1> QED
  BY <1>1, <1>2

-----------------------------------------------------------------------------
(***************************************************************************)
(* What each step does                                                     *)
(***************************************************************************)

\* The fields of worker v that another request may not touch.
Untouched(v) ==
  /\ txn'[v].pc = txn[v].pc /\ txn'[v].request = txn[v].request
  /\ txn'[v].time = txn[v].time /\ txn'[v].owner = txn[v].owner
  /\ txn'[v].targets = txn[v].targets /\ txn'[v].version = txn[v].version
  /\ txn'[v].status = txn[v].status

\* r becomes s: the same request at another statement.
Updated(r, s, pc, owner, targets, version, status) ==
  /\ s \in Transaction
  /\ s.request = r.request /\ s.time = r.time
  /\ s.pc = pc /\ s.owner = owner /\ s.targets = targets /\ s.version = version
  /\ s.status = status

\* w goes on with statement pc; what it remembers changes as given.
GoesOn(w, pc, owner, targets, version, status) ==
  /\ txn' \in [Workers -> Transaction]
  /\ Updated(txn[w], txn'[w], pc, owner, targets, version, status)
  /\ \A v \in Workers \ {w} : Untouched(v)
  /\ UNCHANGED <<now, overlapped>>

\* The same for a statement that only reads.
Reads(w, pc, owner, targets, version, status) ==
  /\ GoesOn(w, pc, owner, targets, version, status)
  /\ UNCHANGED tables

\* The worker is free again.
Ends(w) ==
  /\ txn' \in [Workers -> Transaction]
  /\ txn'[w] = Idle
  /\ \A v \in Workers \ {w} : Untouched(v)
  /\ UNCHANGED <<now, overlapped>>

IsRolledBack(w) ==
  /\ Started(w)
  /\ competentAuthority' = AllRolledBack(competentAuthority, w)
  /\ area' = AllRolledBack(area, w)
  /\ activity' = AllRolledBack(activity, w)
  /\ Ends(w)

IsCommitted(w) ==
  /\ txn[w].pc = "answered"
  /\ competentAuthority' = AllCommitted(competentAuthority, w, txn[w].time)
  /\ area' = AllCommitted(area, w, txn[w].time)
  /\ activity' = AllCommitted(activity, w, txn[w].time)
  /\ Ends(w)

Statuses == {0, 201, 204}

\* The fields of a transaction record: the provers decide on them only if the
\* sets they range over are opaque.
LEMMA RecordUpdates ==
  ASSUME NEW r \in Transaction
  PROVE  /\ \A pc \in Statements :
              Updated(r, [r EXCEPT !.pc = pc], pc, r.owner, r.targets, r.version, r.status)
         /\ \A pc \in Statements, owner \in Nat :
              Updated(r, [r EXCEPT !.pc = pc, !.owner = owner],
                      pc, owner, r.targets, r.version, r.status)
         /\ \A pc \in Statements, targets \in SUBSET (Nat \ {0}) :
              Updated(r, [r EXCEPT !.pc = pc, !.targets = targets],
                      pc, r.owner, targets, r.version, r.status)
         /\ \A targets \in SUBSET (Nat \ {0}) :
              Updated(r, [r EXCEPT !.targets = targets],
                      r.pc, r.owner, targets, r.version, r.status)
         /\ \A pc \in Statements, version \in Nat :
              Updated(r, [r EXCEPT !.pc = pc, !.version = version],
                      pc, r.owner, r.targets, version, r.status)
         /\ \A pc \in Statements, status \in Statuses :
              Updated(r, [r EXCEPT !.pc = pc, !.status = status],
                      pc, r.owner, r.targets, r.version, status)
         /\ \A alone \in BOOLEAN :
              Updated(r, [r EXCEPT !.alone = alone],
                      r.pc, r.owner, r.targets, r.version, r.status)
<1>1. PICK A, Q, T, G, S :
        /\ Transaction = [pc: Statements, alone: A, request: Q, time: T, owner: Nat,
                          targets: G, version: Nat, status: S]
        /\ A = BOOLEAN /\ G = SUBSET (Nat \ {0}) /\ S = Statuses
  BY DEF Transaction, Statuses
<1>2. Transaction = [pc: Statements, alone: A, request: Q, time: T, owner: Nat,
                     targets: G, version: Nat, status: S]
  BY <1>1
<1>3. \A pc \in Statements :
        Updated(r, [r EXCEPT !.pc = pc], pc, r.owner, r.targets, r.version, r.status)
  BY <1>2 DEF Updated
<1>4. \A pc \in Statements, owner \in Nat :
        Updated(r, [r EXCEPT !.pc = pc, !.owner = owner],
                pc, owner, r.targets, r.version, r.status)
  BY <1>2 DEF Updated
<1>5. \A pc \in Statements, targets \in G :
        Updated(r, [r EXCEPT !.pc = pc, !.targets = targets],
                pc, r.owner, targets, r.version, r.status)
  BY <1>2 DEF Updated
<1>6. \A targets \in G :
        Updated(r, [r EXCEPT !.targets = targets],
                r.pc, r.owner, targets, r.version, r.status)
  BY <1>2 DEF Updated
<1>7. \A pc \in Statements, version \in Nat :
        Updated(r, [r EXCEPT !.pc = pc, !.version = version],
                pc, r.owner, r.targets, version, r.status)
  BY <1>2 DEF Updated
<1>8. \A pc \in Statements, status \in S :
        Updated(r, [r EXCEPT !.pc = pc, !.status = status],
                pc, r.owner, r.targets, r.version, status)
  BY <1>2 DEF Updated
<1>9. \A alone \in A :
        Updated(r, [r EXCEPT !.alone = alone],
                r.pc, r.owner, r.targets, r.version, r.status)
  BY <1>2 DEF Updated
<1> QED
  BY <1>1, <1>3, <1>4, <1>5, <1>6, <1>7, <1>8, <1>9

\* A worker that goes on disturbs nobody else.
LEMMA GoesOnWith ==
  ASSUME Typed, NEW w \in Workers, NEW s, txn' = [txn EXCEPT ![w] = s],
         UNCHANGED <<now, overlapped>>,
         NEW pc, NEW owner, NEW targets, NEW version, NEW status,
         Updated(txn[w], s, pc, owner, targets, version, status)
  PROVE  GoesOn(w, pc, owner, targets, version, status)
<1>1. txn \in [Workers -> Transaction] /\ s \in Transaction
  BY DEF Typed, Updated
<1>2. txn'[w] = s /\ \A v \in Workers \ {w} : txn'[v] = txn[v]
  BY <1>1
<1>3. txn' \in [Workers -> Transaction]
  BY <1>1
<1> QED
  BY <1>2, <1>3 DEF GoesOn, Untouched

\* An idle worker is a transaction record.
LEMMA IdleType == Idle \in Transaction
<1>1. 0 \in 0..MaxTime
  BY AreaTransactionConstantsAssumption
<1> QED
  BY <1>1 DEF Idle, Transaction, Statements

\* A refusal or a lost connection: an exception leaves the session block.
LEMMA RollBackEffect ==
  ASSUME Typed, NEW w \in Workers, Started(w), NEW reply, RollBack(w, reply)
  PROVE  IsRolledBack(w)
<1>1. txn' = [txn EXCEPT ![w] = Idle] /\ txn \in [Workers -> Transaction]
  BY DEF RollBack, Typed
<1>2. txn' \in [Workers -> Transaction] /\ txn'[w] = Idle
  BY <1>1, IdleType
<1>3. \A v \in Workers \ {w} : Untouched(v)
  BY <1>1 DEF Untouched
<1> QED
  BY <1>2, <1>3 DEF RollBack, IsRolledBack, Ends

\* The end of a request.
LEMMA CommitEffect ==
  ASSUME Typed, NEW w \in Workers, Commit(w)
  PROVE  IsCommitted(w)
<1>1. txn' = [txn EXCEPT ![w] = Idle] /\ txn \in [Workers -> Transaction]
  BY DEF Commit, Typed
<1>2. txn' \in [Workers -> Transaction] /\ txn'[w] = Idle
  BY <1>1, IdleType
<1>3. \A v \in Workers \ {w} : Untouched(v)
  BY <1>1 DEF Untouched
<1> QED
  BY <1>2, <1>3 DEF Commit, IsCommitted, Ends

\* The rows a statement finds are rows of the table.
LEMMA FoundRows ==
  ASSUME NEW table, NEW w, NEW fid, NEW i \in VisibleTo(w, table, fid)
  PROVE  i \in DOMAIN table /\ table[i].fid = fid /\ table[i].by \in {"committed", w}
BY DEF VisibleTo, Versions

\* The statements that only choose the next one, or refuse.
Follows(w, pc) == Reads(w, pc, txn[w].owner, txn[w].targets, txn[w].version, txn[w].status)

\* A statement whose result only decides on the next one.
LEMMA ContinueEffect ==
  ASSUME Typed, NEW w \in Workers, NEW pc \in Statements, Continue(w, pc),
         UNCHANGED <<tables, now, finished, overlapped>>
  PROVE  Follows(w, pc)
<1> DEFINE s == [txn[w] EXCEPT !.pc = pc]
<1>1. txn[w] \in Transaction
  BY WorkerTypes
<1>2. Updated(txn[w], s, pc, txn[w].owner, txn[w].targets, txn[w].version, txn[w].status)
  BY <1>1, RecordUpdates
<1>3. txn' = [txn EXCEPT ![w] = s]
  BY DEF Continue
<1> HIDE DEF s
<1>4. GoesOn(w, pc, txn[w].owner, txn[w].targets, txn[w].version, txn[w].status)
  BY <1>2, <1>3, GoesOnWith
<1> QED
  BY <1>4 DEF Follows, Reads

\* SELECT of the authority: nothing, several rows (500), or one.
LEMMA FindAuthorityEffect ==
  ASSUME Typed, NEW w \in Workers, FindAuthority(w)
  PROVE  /\ txn[w].pc = "find authority"
         /\ \/ IsRolledBack(w)
            \/ CurrentTo(w, competentAuthority, Ca(w)) = {} /\ Follows(w, "any authority")
            \/ CurrentTo(w, competentAuthority, Ca(w)) # {} /\ Follows(w, "end authority")
<1>1. txn[w].pc = "find authority" /\ Started(w)
  BY DEF FindAuthority, Started
<1>2. CASE Refuse(w, 500)
  BY <1>1, <1>2, RollBackEffect DEF Refuse
<1>3. ASSUME NEW pc \in {"any authority", "end authority"}, Continue(w, pc),
             UNCHANGED <<tables, now, finished, overlapped>>
      PROVE  Follows(w, pc)
  <2>1. pc \in Statements
    BY DEF Statements
  <2> QED
    BY <1>3, <2>1, ContinueEffect
<1> QED
  BY <1>1, <1>2, <1>3 DEF FindAuthority, Ca

\* INSERT of a version of the authority.
NewAuthority(w) ==
  [fid |-> Ca(w), createdAt |-> txn[w].time, endedAt |-> NotEnded, by |-> w, endedBy |-> "nobody"]

AfterAuthority(w) == IF txn[w].request.areaId = NoId THEN "insert" ELSE "find area"

InsertsAuthority(w) ==
  /\ competentAuthority' = Append(competentAuthority, NewAuthority(w))
  /\ GoesOn(w, AfterAuthority(w), txn[w].owner, txn[w].targets, Len(competentAuthority) + 1,
            txn[w].status)
  /\ UNCHANGED <<area, activity>>

\* INSERT of the version sets up the version the area will refer to.
LEMMA InsertAuthorityEffect ==
  ASSUME Typed, NEW w \in Workers, InsertAuthority(w)
  PROVE  InsertsAuthority(w)
<1> DEFINE pc == AfterAuthority(w)
           version == Len(competentAuthority) + 1
           s == [txn[w] EXCEPT !.pc = pc, !.version = version]
<1>1. txn[w] \in Transaction /\ pc \in Statements /\ version \in Nat
  BY WorkerTypes DEF Statements, AfterAuthority, Typed
<1>2. txn' = [txn EXCEPT ![w].pc = pc, ![w].version = version]
  BY DEF InsertAuthority, AfterAuthority
<1> HIDE DEF pc, version
<1>3. Updated(txn[w], s, pc, txn[w].owner, txn[w].targets, version, txn[w].status)
  BY <1>1, RecordUpdates
<1>4. txn' = [txn EXCEPT ![w] = s]
  BY <1>2 DEF Typed
<1> HIDE DEF s
<1>5. UNCHANGED <<now, overlapped>>
  BY DEF InsertAuthority
<1>6. GoesOn(w, pc, txn[w].owner, txn[w].targets, version, txn[w].status)
  BY <1>3, <1>4, <1>5, GoesOnWith
<1> QED
  BY <1>6 DEF InsertAuthority, InsertsAuthority, NewAuthority, Ca, pc, version

\* exists_any of the authority.
LEMMA AnyAuthorityEffect ==
  ASSUME Typed, NEW w \in Workers, AnyAuthority(w)
  PROVE  /\ txn[w].pc = "any authority"
         /\ \/ IsRolledBack(w)
            \/ VisibleTo(w, competentAuthority, Ca(w)) = {} /\ InsertsAuthority(w)
<1>1. txn[w].pc = "any authority" /\ Started(w)
  BY DEF AnyAuthority, Started
<1>2. CASE Refuse(w, 422)
  BY <1>1, <1>2, RollBackEffect DEF Refuse
<1> QED
  BY <1>1, <1>2, InsertAuthorityEffect DEF AnyAuthority, Ca

\* The UPDATE statements find their rows, ...
LEMMA UpdateEffect ==
  ASSUME Typed, NEW w \in Workers, NEW pc \in Statements, NEW targets \in SUBSET (Nat \ {0}),
         txn' = [txn EXCEPT ![w].pc = pc, ![w].targets = targets],
         UNCHANGED <<tables, now, finished, overlapped>>
  PROVE  Reads(w, pc, txn[w].owner, targets, txn[w].version, txn[w].status)
<1> DEFINE s == [txn[w] EXCEPT !.pc = pc, !.targets = targets]
<1>1. txn[w] \in Transaction
  BY WorkerTypes
<1>2. Updated(txn[w], s, pc, txn[w].owner, targets, txn[w].version, txn[w].status)
  BY <1>1, RecordUpdates
<1>3. txn' = [txn EXCEPT ![w] = s]
  BY DEF Typed
<1> HIDE DEF s
<1>4. GoesOn(w, pc, txn[w].owner, targets, txn[w].version, txn[w].status)
  BY <1>2, <1>3, GoesOnWith
<1> QED
  BY <1>4 DEF Reads

\* The UPDATE of the authority.
LEMMA EndAuthorityEffect ==
  ASSUME Typed, NEW w \in Workers, EndAuthority(w)
  PROVE  /\ txn[w].pc = "end authority"
         /\ Reads(w, "lock authority", txn[w].owner, AuthorityTargets(w), txn[w].version,
                  txn[w].status)
<1> DEFINE targets == AuthorityTargets(w)
<1>1. targets \in SUBSET (Nat \ {0})
  BY RowTypes, FoundRows DEF AuthorityTargets, CurrentTo
<1>2. txn' = [txn EXCEPT ![w].pc = "lock authority", ![w].targets = targets]
  BY DEF EndAuthority
<1> HIDE DEF targets
<1>3. "lock authority" \in Statements
  BY DEF Statements
<1>4. Reads(w, "lock authority", txn[w].owner, targets, txn[w].version, txn[w].status)
  BY <1>1, <1>2, <1>3, UpdateEffect DEF EndAuthority
<1> QED
  BY <1>4 DEF EndAuthority, targets

\* The UPDATE of the area.
LEMMA EndAreaEffect ==
  ASSUME Typed, NEW w \in Workers, EndArea(w)
  PROVE  /\ txn[w].pc = "end area"
         /\ Reads(w, "lock area", txn[w].owner, AreaTargets(w), txn[w].version, txn[w].status)
<1> DEFINE targets == AreaTargets(w)
<1>1. targets \in SUBSET (Nat \ {0})
  BY RowTypes, FoundRows DEF AreaTargets, CurrentTo
<1>2. txn' = [txn EXCEPT ![w].pc = "lock area", ![w].targets = targets]
  BY DEF EndArea
<1> HIDE DEF targets
<1>3. "lock area" \in Statements
  BY DEF Statements
<1>4. Reads(w, "lock area", txn[w].owner, targets, txn[w].version, txn[w].status)
  BY <1>1, <1>2, <1>3, UpdateEffect DEF EndArea
<1> QED
  BY <1>4 DEF EndArea, targets

\* ... and lock them one after the other.
Locked(w, i) ==
  /\ i \in txn[w].targets
  /\ GoesOn(w, txn[w].pc, txn[w].owner, txn[w].targets \ {i}, txn[w].version, txn[w].status)

\* A row that is locked is no longer waited for.
LEMMA LockEffect ==
  ASSUME Typed, NEW w \in Workers, NEW i \in NextTarget(w),
         txn' = [txn EXCEPT ![w].targets = @ \ {i}], UNCHANGED <<now, overlapped>>
  PROVE  Locked(w, i)
<1> DEFINE targets == txn[w].targets \ {i}
           s == [txn[w] EXCEPT !.targets = targets]
<1>1. txn[w] \in Transaction
  BY WorkerTypes
<1>2. targets \in SUBSET (Nat \ {0})
  BY <1>1 DEF Transaction
<1>3. txn' = [txn EXCEPT ![w] = s]
  OBVIOUS
<1> HIDE DEF targets
<1>4. Updated(txn[w], s, txn[w].pc, txn[w].owner, targets, txn[w].version, txn[w].status)
  BY <1>1, <1>2, RecordUpdates
<1> HIDE DEF s
<1>5. GoesOn(w, txn[w].pc, txn[w].owner, targets, txn[w].version, txn[w].status)
  BY <1>3, <1>4, GoesOnWith
<1> QED
  BY <1>5 DEF Locked, NextTarget, targets

LocksAuthority(w, i) ==
  /\ Locked(w, i)
  /\ Unlocked(competentAuthority[i], w)
  /\ competentAuthority' = [competentAuthority EXCEPT ![i] = EndedRow(@, w, txn[w].time)]
  /\ UNCHANGED <<area, activity>>

\* UPDATE competent_authority locks a row, or is done.
LEMMA LockAuthorityEffect ==
  ASSUME Typed, NEW w \in Workers, LockAuthority(w)
  PROVE  /\ txn[w].pc = "lock authority"
         /\ \/ \E i \in txn[w].targets : LocksAuthority(w, i)
            \/ txn[w].targets = {} /\ Kind(w) = "post" /\ InsertsAuthority(w)
            \/ txn[w].targets = {} /\ Kind(w) = "end authority" /\ Follows(w, "answered")
<1>1. txn[w].pc = "lock authority"
  BY DEF LockAuthority
<1>2. ASSUME NEW i \in NextTarget(w), Unlocked(competentAuthority[i], w),
             competentAuthority' = [competentAuthority EXCEPT ![i] = EndedRow(@, w, txn[w].time)],
             txn' = [txn EXCEPT ![w].targets = @ \ {i}],
             UNCHANGED <<area, activity, now, finished, overlapped>>
      PROVE  LocksAuthority(w, i) /\ i \in txn[w].targets
  BY <1>2, LockEffect DEF LocksAuthority, Locked
<1>3. CASE txn[w].targets = {} /\ Kind(w) = "post" /\ InsertAuthority(w)
  BY <1>1, <1>3, InsertAuthorityEffect
<1>4. CASE /\ txn[w].targets = {} /\ Kind(w) = "end authority" /\ Continue(w, "answered")
           /\ UNCHANGED <<tables, now, finished, overlapped>>
  <2>1. "answered" \in Statements
    BY DEF Statements
  <2> QED
    BY <1>1, <1>4, <2>1, ContinueEffect
<1> QED
  BY <1>1, <1>2, <1>3, <1>4 DEF LockAuthority, Kind

\* SELECT of an area, and what is kept of it.
LEMMA FoundAreaEffect ==
  ASSUME Typed, NEW w \in Workers, NEW i \in DOMAIN area, UNCHANGED <<tables, now, overlapped>>
  PROVE  /\ txn' = [txn EXCEPT ![w].pc = "end area", ![w].owner = area[i].competentAuthority]
              => Reads(w, "end area", area[i].competentAuthority, txn[w].targets,
                       txn[w].version, txn[w].status)
         /\ txn' = [txn EXCEPT ![w].pc = "report", ![w].version = i]
              => Reads(w, "report", txn[w].owner, txn[w].targets, i, txn[w].status)
<1> DEFINE a == area[i].competentAuthority
           p == "end area"
           q == "report"
           s == [txn[w] EXCEPT !.pc = p, !.owner = a]
           t == [txn[w] EXCEPT !.pc = q, !.version = i]
<1>1. txn[w] \in Transaction /\ a \in Nat /\ i \in Nat
  BY WorkerTypes, RowTypes
<1>2. p \in Statements /\ q \in Statements
  BY DEF Statements
<1> HIDE DEF a, p, q
<1>3. /\ Updated(txn[w], s, p, a, txn[w].targets, txn[w].version, txn[w].status)
      /\ Updated(txn[w], t, q, txn[w].owner, txn[w].targets, i, txn[w].status)
  BY <1>1, <1>2, RecordUpdates
<1>4. ASSUME txn' = [txn EXCEPT ![w].pc = p, ![w].owner = a]
      PROVE  Reads(w, p, a, txn[w].targets, txn[w].version, txn[w].status)
  <2>1. txn' = [txn EXCEPT ![w] = s]
    BY <1>4 DEF Typed
  <2> HIDE DEF s
  <2> QED
    BY <1>3, <2>1, GoesOnWith DEF Reads
<1>5. ASSUME txn' = [txn EXCEPT ![w].pc = q, ![w].version = i]
      PROVE  Reads(w, q, txn[w].owner, txn[w].targets, i, txn[w].status)
  <2>1. txn' = [txn EXCEPT ![w] = t]
    BY <1>5 DEF Typed
  <2> HIDE DEF t
  <2> QED
    BY <1>3, <2>1, GoesOnWith DEF Reads
<1> QED
  BY <1>4, <1>5 DEF a, p, q

\* get_by_area_id: nothing, several rows (500), or one.
LEMMA FindAreaEffect ==
  ASSUME Typed, NEW w \in Workers, FindArea(w)
  PROVE  /\ txn[w].pc = "find area"
         /\ \/ IsRolledBack(w)
            \/ /\ CurrentTo(w, area, txn[w].request.areaId) = {}
               /\ Follows(w, "any area")
            \/ /\ Cardinality(CurrentTo(w, area, txn[w].request.areaId)) <= 1
               /\ \E i \in CurrentTo(w, area, txn[w].request.areaId) :
                    Reads(w, "end area", area[i].competentAuthority, txn[w].targets,
                          txn[w].version, txn[w].status)
<1> DEFINE found == CurrentTo(w, area, txn[w].request.areaId)
<1>1. txn[w].pc = "find area" /\ Started(w)
  BY DEF FindArea, Started
<1>2. CASE Refuse(w, 500)
  BY <1>1, <1>2, RollBackEffect DEF Refuse
<1>3. CASE /\ found = {} /\ Continue(w, "any area")
           /\ UNCHANGED <<tables, now, finished, overlapped>>
  <2>1. "any area" \in Statements
    BY DEF Statements
  <2> QED
    BY <1>1, <1>3, <2>1, ContinueEffect
<1>4. ASSUME NEW i \in found, Cardinality(found) <= 1,
             txn' = [txn EXCEPT ![w].pc = "end area", ![w].owner = area[i].competentAuthority],
             UNCHANGED <<tables, now, finished, overlapped>>
      PROVE  Reads(w, "end area", area[i].competentAuthority, txn[w].targets,
                   txn[w].version, txn[w].status)
  <2>1. i \in DOMAIN area
    BY FoundRows DEF CurrentTo
  <2> QED
    BY <1>4, <2>1, FoundAreaEffect
<1> QED
  BY <1>1, <1>2, <1>3, <1>4 DEF FindArea

\* exists_any_by_area_id.
LEMMA AnyAreaEffect ==
  ASSUME Typed, NEW w \in Workers, AnyArea(w)
  PROVE  /\ txn[w].pc = "any area"
         /\ \/ IsRolledBack(w)
            \/ VisibleTo(w, area, txn[w].request.areaId) = {} /\ Follows(w, "insert")
<1>1. txn[w].pc = "any area" /\ Started(w)
  BY DEF AnyArea, Started
<1>2. CASE Refuse(w, 422)
  BY <1>1, <1>2, RollBackEffect DEF Refuse
<1>3. "insert" \in Statements
  BY DEF Statements
<1> QED
  BY <1>1, <1>2, <1>3, ContinueEffect DEF AnyArea, AnyVersion

\* The SELECT of DELETE: not found (404), several rows (500), or one.
LEMMA FindOwnAreaEffect ==
  ASSUME Typed, NEW w \in Workers, FindOwnArea(w)
  PROVE  /\ txn[w].pc = "find own area"
         /\ \/ IsRolledBack(w)
            \/ \E i \in CurrentTo(w, area, txn[w].request.areaId) :
                    Reads(w, "end area", area[i].competentAuthority, txn[w].targets,
                          txn[w].version, txn[w].status)
<1>1. txn[w].pc = "find own area" /\ Started(w)
  BY DEF FindOwnArea, Started
<1>2. CASE Refuse(w, 404) \/ Refuse(w, 500)
  BY <1>1, <1>2, RollBackEffect DEF Refuse
<1>3. ASSUME NEW i \in CurrentTo(w, area, txn[w].request.areaId),
             txn' = [txn EXCEPT ![w].pc = "end area", ![w].owner = area[i].competentAuthority],
             UNCHANGED <<tables, now, finished, overlapped>>
      PROVE  Reads(w, "end area", area[i].competentAuthority, txn[w].targets,
                   txn[w].version, txn[w].status)
  <2>1. i \in DOMAIN area
    BY FoundRows DEF CurrentTo
  <2> QED
    BY <1>3, <2>1, FoundAreaEffect
<1> QED
  BY <1>1, <1>2, <1>3 DEF FindOwnArea

\* The SELECT of an activity request: it keeps the one row it finds.
LEMMA FindReportedAreaEffect ==
  ASSUME Typed, NEW w \in Workers, FindReportedArea(w)
  PROVE  /\ txn[w].pc = "find reported area"
         /\ \/ IsRolledBack(w)
            \/ \E i \in CurrentTo(w, area, txn[w].request.areaId) :
                 Reads(w, "report", txn[w].owner, txn[w].targets, i, txn[w].status)
<1>1. txn[w].pc = "find reported area" /\ Started(w)
  BY DEF FindReportedArea, Started
<1>2. CASE RollBack(w, NoReply)
  BY <1>1, <1>2, RollBackEffect
<1>3. ASSUME NEW i \in CurrentTo(w, area, txn[w].request.areaId),
             txn' = [txn EXCEPT ![w].pc = "report", ![w].version = i],
             UNCHANGED <<tables, now, finished, overlapped>>
      PROVE  Reads(w, "report", txn[w].owner, txn[w].targets, i, txn[w].status)
  <2>1. i \in DOMAIN area
    BY FoundRows DEF CurrentTo
  <2> QED
    BY <1>3, <2>1, FoundAreaEffect
<1> QED
  BY <1>1, <1>2, <1>3 DEF FindReportedArea

\* UPDATE area locks a row, or is done.
LocksArea(w, i) ==
  /\ Locked(w, i)
  /\ Unlocked(area[i], w)
  /\ area' = [area EXCEPT ![i] = EndedRow(@, w, txn[w].time)]
  /\ UNCHANGED <<competentAuthority, activity>>

\* A worker that has answered.
LEMMA AnswerEffect ==
  ASSUME Typed, NEW w \in Workers, NEW status \in Statuses,
         txn' = [txn EXCEPT ![w].pc = "answered", ![w].status = status],
         UNCHANGED <<now, overlapped>>
  PROVE  GoesOn(w, "answered", txn[w].owner, txn[w].targets, txn[w].version, status)
<1> DEFINE pc == "answered"
           s == [txn[w] EXCEPT !.pc = pc, !.status = status]
<1>1. txn[w] \in Transaction /\ pc \in Statements
  BY WorkerTypes DEF Statements
<1>2. txn' = [txn EXCEPT ![w] = s]
  BY DEF Typed
<1> HIDE DEF pc
<1>3. Updated(txn[w], s, pc, txn[w].owner, txn[w].targets, txn[w].version, status)
  BY <1>1, RecordUpdates
<1> HIDE DEF s
<1>4. GoesOn(w, pc, txn[w].owner, txn[w].targets, txn[w].version, status)
  BY <1>2, <1>3, GoesOnWith
<1> QED
  BY <1>4 DEF pc

\* An UPDATE that is done goes on to the INSERT, or to the answer of DELETE.
LEMMA LockAreaEffect ==
  ASSUME Typed, NEW w \in Workers, LockArea(w)
  PROVE  /\ txn[w].pc = "lock area"
         /\ \/ \E i \in txn[w].targets : LocksArea(w, i)
            \/ txn[w].targets = {} /\ Kind(w) = "post" /\ Follows(w, "insert")
            \/ /\ txn[w].targets = {} /\ Kind(w) = "delete"
               /\ Reads(w, "answered", txn[w].owner, txn[w].targets, txn[w].version, 204)
<1>1. txn[w].pc = "lock area" /\ UNCHANGED <<competentAuthority, activity, now, finished, overlapped>>
  BY DEF LockArea
<1>2. ASSUME NEW i \in NextTarget(w), Unlocked(area[i], w),
             area' = [area EXCEPT ![i] = EndedRow(@, w, txn[w].time)],
             txn' = [txn EXCEPT ![w].targets = @ \ {i}]
      PROVE  LocksArea(w, i) /\ i \in txn[w].targets
  BY <1>1, <1>2, LockEffect DEF LocksArea, Locked
<1>3. CASE txn[w].targets = {} /\ Kind(w) = "post" /\ Continue(w, "insert") /\ UNCHANGED area
  <2>1. "insert" \in Statements
    BY DEF Statements
  <2> QED
    BY <1>1, <1>3, <2>1, ContinueEffect DEF tables
<1>4. CASE /\ txn[w].targets = {} /\ Kind(w) = "delete" /\ UNCHANGED area
           /\ txn' = [txn EXCEPT ![w].pc = "answered", ![w].status = 204]
  <2>1. 204 \in Statuses
    BY DEF Statuses
  <2> QED
    BY <1>1, <1>4, <2>1, AnswerEffect DEF tables, Reads
<1> QED
  BY <1>1, <1>2, <1>3, <1>4 DEF LockArea, Kind

\* INSERT of the area.
NewArea(w) ==
  [fid |-> AreaIdOf(w), competentAuthority |-> txn[w].version, createdAt |-> txn[w].time,
   endedAt |-> NotEnded, by |-> w, endedBy |-> "nobody"]

InsertsArea(w) ==
  /\ area' = Append(area, NewArea(w))
  /\ GoesOn(w, "answered", txn[w].owner, txn[w].targets, txn[w].version, 201)
  /\ UNCHANGED <<competentAuthority, activity>>

\* The area is inserted and the request is answered.
LEMMA InsertAreaEffect ==
  ASSUME Typed, NEW w \in Workers, InsertArea(w)
  PROVE  txn[w].pc = "insert" /\ InsertsArea(w)
<1>1. 201 \in Statuses
  BY DEF Statuses
<1> QED
  BY <1>1, AnswerEffect DEF InsertArea, InsertsArea, NewArea

\* INSERT of the activity.
NewReport(w) ==
  [fid |-> txn[w].time, area |-> txn[w].version, createdAt |-> txn[w].time,
   endedAt |-> NotEnded, by |-> w, endedBy |-> "nobody"]

InsertsReport(w) ==
  /\ activity' = Append(activity, NewReport(w))
  /\ GoesOn(w, "answered", txn[w].owner, txn[w].targets, txn[w].version, txn[w].status)
  /\ UNCHANGED <<competentAuthority, area>>

\* The activity is inserted and the request is answered.
LEMMA ReportEffect ==
  ASSUME Typed, NEW w \in Workers, Report(w)
  PROVE  txn[w].pc = "report" /\ InsertsReport(w)
<1> DEFINE pc == "answered"
           s == [txn[w] EXCEPT !.pc = pc]
<1>1. txn[w] \in Transaction /\ pc \in Statements
  BY WorkerTypes DEF Statements
<1>2. txn' = [txn EXCEPT ![w] = s] /\ UNCHANGED <<now, overlapped>>
  BY DEF Report, Continue
<1> HIDE DEF pc
<1>3. Updated(txn[w], s, pc, txn[w].owner, txn[w].targets, txn[w].version, txn[w].status)
  BY <1>1, RecordUpdates
<1> HIDE DEF s
<1>4. GoesOn(w, pc, txn[w].owner, txn[w].targets, txn[w].version, txn[w].status)
  BY <1>2, <1>3, GoesOnWith
<1> QED
  BY <1>4 DEF Report, InsertsReport, NewReport, pc

-----------------------------------------------------------------------------
\* A request is taken up.
Starts(w, request) ==
  /\ ~Started(w) /\ now < MaxTime /\ now' = now + 1
  /\ txn' \in [Workers -> Transaction]
  /\ txn'[w].request = request /\ txn'[w].time = now + 1 /\ txn'[w].status = 0
  /\ \/ request.kind = "post" /\ txn'[w].pc = "find authority"
     \/ request.kind = "delete" /\ txn'[w].pc = "find own area"
     \/ request.kind = "report" /\ txn'[w].pc = "find reported area"
     \/ request.kind = "end authority" /\ txn'[w].pc = "end authority"
  /\ \A v \in Workers \ {w} : Untouched(v)
  /\ overlapped \subseteq overlapped'
  /\ \A v \in Workers \ {w} :
       Started(v) => Named(txn[v].request) \cap Named(request) \subseteq overlapped'
  /\ UNCHANGED tables

\* Taking up a request touches no table and none of the other workers.
LEMMA StartEffect ==
  ASSUME Typed, NEW w \in Workers, NEW request \in Requests, Start(w, request)
  PROVE  Starts(w, request)
<1>1. now \in Nat /\ MaxTime \in Nat
  BY WorkerTypes
<1>2. ASSUME NEW pc \in Statements, Begin(w, request, pc)
      PROVE  /\ now < MaxTime /\ now' = now + 1
             /\ txn' \in [Workers -> Transaction]
             /\ txn'[w].request = request /\ txn'[w].time = now + 1 /\ txn'[w].status = 0
             /\ txn'[w].pc = pc
             /\ \A v \in Workers \ {w} : Untouched(v)
             /\ overlapped \subseteq overlapped'
             /\ \A v \in Workers \ {w} :
                  Started(v) => Named(txn[v].request) \cap Named(request) \subseteq overlapped'
             /\ UNCHANGED tables
  <2> DEFINE a == Busy(w) = {}
             b(v) == txn[v].alone /\ v \notin Busy(w)
             r == [Idle EXCEPT !.pc = pc, !.request = request, !.time = now', !.alone = a]
             other(v) == [txn[v] EXCEPT !.alone = b(v)]
  <2>1. /\ now < MaxTime /\ now' = now + 1
        /\ txn' = [v \in Workers |-> IF v = w THEN r ELSE other(v)]
        /\ overlapped' = overlapped
             \cup (Named(request) \cap UNION {Named(txn[v].request) : v \in Busy(w)})
        /\ UNCHANGED tables
    BY <1>2 DEF Begin
  <2>2. now' \in 0..MaxTime
    <3> DEFINE t == now'
    <3>1. t = now + 1
      BY <2>1
    <3>2. now < MaxTime
      BY <2>1
    <3> HIDE DEF t
    <3>3. t \in 0..MaxTime
      BY <1>1, <3>1, <3>2
    <3> QED
      BY <3>3 DEF t
  <2>3. a \in BOOLEAN /\ \A v : b(v) \in BOOLEAN
    OBVIOUS
  <2> HIDE DEF a, b
  <2>4. r.request = request /\ r.time = now' /\ r.pc = pc /\ r.status = 0
    BY DEF Idle
  <2>5. r \in Transaction
    <3>1. PICK A, Q, T, G, S :
            /\ Transaction = [pc: Statements, alone: A, request: Q, time: T, owner: Nat,
                              targets: G, version: Nat, status: S]
            /\ A = BOOLEAN /\ Q = {<<>>} \cup Requests /\ T = 0..MaxTime
            /\ G = SUBSET (Nat \ {0}) /\ S = {0, 201, 204}
      BY DEF Transaction
    <3>2. Transaction = [pc: Statements, alone: A, request: Q, time: T, owner: Nat,
                         targets: G, version: Nat, status: S]
      BY <3>1
    <3>3. a \in A /\ request \in Q /\ now' \in T /\ {} \in G /\ 0 \in S
      BY <2>2, <2>3, <3>1
    <3> QED
      BY <3>2, <3>3 DEF Idle
  <2>6. \A v \in Workers : txn[v] \in Transaction
    BY DEF Typed
  <2>7. ASSUME NEW v \in Workers
        PROVE  Updated(txn[v], other(v), txn[v].pc, txn[v].owner, txn[v].targets,
                       txn[v].version, txn[v].status)
    BY <2>3, <2>6, RecordUpdates
  <2> HIDE DEF r, other
  <2>8. txn' \in [Workers -> Transaction]
    BY <2>1, <2>5, <2>7 DEF Updated
  <2>9. txn'[w] = r /\ \A v \in Workers \ {w} : txn'[v] = other(v)
    BY <2>1
  <2>10. \A v \in Workers \ {w} : Untouched(v)
    BY <2>7, <2>9 DEF Untouched, Updated
  <2>11. /\ overlapped \subseteq overlapped'
         /\ \A v \in Workers \ {w} :
              Started(v) => Named(txn[v].request) \cap Named(request) \subseteq overlapped'
    BY <2>1 DEF Busy, Started
  <2> QED
    BY <2>1, <2>4, <2>8, <2>9, <2>10, <2>11
<1>3. ~Started(w)
  BY DEF Start, Begin, Started
<1>4. {"find authority", "find own area", "find reported area", "end authority"} \subseteq Statements
  BY DEF Statements
<1>5. CASE request.kind = "post" /\ Begin(w, request, "find authority")
  BY <1>2, <1>3, <1>4, <1>5 DEF Starts
<1>6. CASE request.kind = "delete" /\ Begin(w, request, "find own area")
  BY <1>2, <1>3, <1>4, <1>6 DEF Starts
<1>7. CASE request.kind = "report" /\ Begin(w, request, "find reported area")
  BY <1>2, <1>3, <1>4, <1>7 DEF Starts
<1>8. CASE request.kind = "end authority" /\ Begin(w, request, "end authority")
  BY <1>2, <1>3, <1>4, <1>8 DEF Starts
<1> QED
  BY <1>5, <1>6, <1>7, <1>8 DEF Start

-----------------------------------------------------------------------------
(***************************************************************************)
(* What every step does                                                    *)
(***************************************************************************)

\* A step of the system, with the worker that takes it.
StepBy(w) ==
  \/ \E request \in Requests : Start(w, request)
  \/ Step(w)
  \/ Crash(w)

\* What a step does not concern.
Frame(w) ==
  /\ txn' \in [Workers -> Transaction]
  /\ \A v \in Workers \ {w} : Untouched(v)
  /\ now' \in 0..MaxTime /\ now <= now'
  /\ overlapped \subseteq overlapped'

\* The tables after a step of w: only a commit shows.
Moves(w) ==
  /\ competentAuthority' \in Seq(AuthorityRow)
  /\ area' \in Seq(AreaRow)
  /\ activity' \in Seq(ReportRow)
  /\ StepOf(competentAuthority, competentAuthority', w, txn[w].time)
  /\ StepOf(area, area', w, txn[w].time)
  /\ StepOf(activity, activity', w, txn[w].time)
  /\ \/ /\ Unseen(competentAuthority, competentAuthority')
        /\ Unseen(area, area') /\ Unseen(activity, activity')
     \/ IsCommitted(w)
  /\ \A i \in DOMAIN area : area'[i].competentAuthority = area[i].competentAuthority
  /\ \A i \in DOMAIN activity : activity'[i].area = activity[i].area
  /\ Frame(w)

\* A statement leaves the clock and the other workers alone.
LEMMA FrameOfStatement ==
  ASSUME Typed, NEW w \in Workers, NEW pc, NEW owner, NEW targets, NEW version, NEW status,
         GoesOn(w, pc, owner, targets, version, status)
  PROVE  Frame(w)
BY WorkerTypes DEF GoesOn, Frame, Typed

\* So does the end of a transaction.
LEMMA FrameOfEnd ==
  ASSUME Typed, NEW w \in Workers, Ends(w)
  PROVE  Frame(w)
BY WorkerTypes DEF Ends, Frame, Typed

\* A request that is taken up moves the clock on.
LEMMA FrameOfStart ==
  ASSUME Typed, NEW w \in Workers, NEW request, Starts(w, request)
  PROVE  Frame(w)
<1>1. now \in Nat /\ MaxTime \in Nat /\ now < MaxTime
  BY WorkerTypes DEF Starts
<1> DEFINE t == now'
<1>2. t = now + 1
  BY DEF Starts
<1> HIDE DEF t
<1>3. t \in 0..MaxTime /\ now <= t
  BY <1>1, <1>2
<1> QED
  BY <1>3 DEF Starts, Frame, t

\* A table that is not touched.
LEMMA UntouchedTables ==
  ASSUME Typed, NEW w
  PROVE  /\ competentAuthority' = competentAuthority =>
              /\ competentAuthority' \in Seq(AuthorityRow)
              /\ StepOf(competentAuthority, competentAuthority', w, txn[w].time)
              /\ Unseen(competentAuthority, competentAuthority')
         /\ area' = area =>
              /\ area' \in Seq(AreaRow)
              /\ StepOf(area, area', w, txn[w].time) /\ Unseen(area, area')
         /\ activity' = activity =>
              /\ activity' \in Seq(ReportRow)
              /\ StepOf(activity, activity', w, txn[w].time) /\ Unseen(activity, activity')
<1>1. Len(competentAuthority) \in Nat /\ Len(area) \in Nat /\ Len(activity) \in Nat
  BY DEF Typed
<1> QED
  BY <1>1, ReadIsStep DEF Typed

\* A SELECT, and the beginning of a request, leave all tables as they are.
LEMMA QuietMoves ==
  ASSUME Typed, NEW w \in Workers, UNCHANGED tables, Frame(w)
  PROVE  Moves(w)
BY UntouchedTables DEF Moves, tables

\* The row of an INSERT.
LEMMA AppendStep ==
  ASSUME NEW Row, NEW table \in Seq(Row), NEW row \in Row, NEW w, w # "committed", NEW t,
         row.by = w, row.endedBy = "nobody", row.endedAt = NotEnded, row.createdAt = t
  PROVE  LET new == Append(table, row)
         IN  /\ new \in Seq(Row) /\ StepOf(table, new, w, t) /\ Unseen(table, new)
             /\ DOMAIN new = DOMAIN table \cup {Len(table) + 1} /\ Len(table) + 1 \notin DOMAIN table
             /\ new[Len(table) + 1] = row /\ \A i \in DOMAIN table : new[i] = table[i]
<1> DEFINE new == Append(table, row)
<1>1. new \in Seq(Row) /\ Len(new) = Len(table) + 1 /\ Len(table) \in Nat
  OBVIOUS
<1>2. DOMAIN table = 1..Len(table) /\ DOMAIN new = 1..(Len(table) + 1)
  OBVIOUS
<1>3. new[Len(table) + 1] = row /\ \A i \in 1..Len(table) : new[i] = table[i]
  OBVIOUS
<1> HIDE DEF new
<1>4. /\ Len(new) \in Nat /\ Len(table) <= Len(new)
      /\ \A i \in DOMAIN table : i \in DOMAIN new /\ new[i] = table[i]
      /\ DOMAIN new = DOMAIN table \cup {Len(table) + 1} /\ Len(table) + 1 \notin DOMAIN table
      /\ new[Len(table) + 1] = row
  BY <1>1, <1>2, <1>3
<1>5. \A k \in DOMAIN new \ DOMAIN table :
        /\ new[k].by = w /\ new[k].endedBy = "nobody"
        /\ new[k].endedAt = NotEnded /\ new[k].createdAt = t
  BY <1>4
<1>6. StepOf(table, new, w, t) /\ Unseen(table, new)
  BY <1>4, <1>5 DEF StepOf, Unseen
<1> QED
  BY <1>1, <1>4, <1>6 DEF new

\* The end of a transaction marks rows of a table.
LEMMA EndStep ==
  ASSUME NEW Row, NEW W, NEW Times, TakesMarks(Row, W, Times), NEW table \in Seq(Row),
         NEW w \in W, NEW t \in Times, w # "committed"
  PROVE  /\ AllRolledBack(table, w) \in Seq(Row)
         /\ StepOf(table, AllRolledBack(table, w), w, t) /\ Unseen(table, AllRolledBack(table, w))
         /\ AllCommitted(table, w, t) \in Seq(Row)
         /\ StepOf(table, AllCommitted(table, w, t), w, t)
<1> DEFINE com == AllCommitted(table, w, t)
           rol == AllRolledBack(table, w)
<1>1. /\ com \in Seq(Row) /\ Len(com) = Len(table) /\ DOMAIN com = DOMAIN table
      /\ \A i \in DOMAIN table : RowCommitted(table[i], com[i], w, t)
      /\ rol \in Seq(Row) /\ Len(rol) = Len(table) /\ DOMAIN rol = DOMAIN table
      /\ \A i \in DOMAIN table : RowRolledBack(table[i], rol[i], w)
      /\ Len(table) \in Nat
  BY EndedTable
<1> HIDE DEF com, rol
<1>2. StepOf(table, com, w, t)
  BY <1>1, EndIsStep
<1>3. StepOf(table, rol, w, t) /\ Unseen(table, rol)
  BY <1>1, EndIsStep
<1> QED
  BY <1>1, <1>2, <1>3 DEF com, rol

\* The end of a transaction.
LEMMA EndMoves ==
  ASSUME Typed, NEW w \in Workers, IsRolledBack(w) \/ IsCommitted(w)
  PROVE  Moves(w)
<1>1. /\ txn[w].time \in Timestamps /\ Frame(w) /\ w \notin {"committed", "aborted", "nobody"}
      /\ competentAuthority \in Seq(AuthorityRow) /\ area \in Seq(AreaRow) /\ activity \in Seq(ReportRow)
  BY FrameOfEnd, WorkerTypes DEF IsRolledBack, IsCommitted, Started, Typed
<1>3. ASSUME NEW i \in DOMAIN area
      PROVE  area'[i].competentAuthority = area[i].competentAuthority
  <2>1. area[i] \in AreaRow
    BY <1>1
  <2>2. area'[i] \in {RolledBackRow(area[i], w), CommittedRow(area[i], w, txn[w].time)}
    BY DEF IsRolledBack, IsCommitted, AllRolledBack, AllCommitted
  <2> QED
    BY <1>1, <2>1, <2>2, AreaRowsTakeMarks
<1>4. ASSUME NEW i \in DOMAIN activity
      PROVE  activity'[i].area = activity[i].area
  <2>1. activity[i] \in ReportRow
    BY <1>1
  <2>2. activity'[i] \in {RolledBackRow(activity[i], w), CommittedRow(activity[i], w, txn[w].time)}
    BY DEF IsRolledBack, IsCommitted, AllRolledBack, AllCommitted
  <2> QED
    BY <1>1, <2>1, <2>2, ReportRowsTakeMarks
<1> DEFINE t == txn[w].time
<1>2. w # "committed" /\ t \in Timestamps
  BY <1>1
<1> HIDE DEF t
<1>5. /\ competentAuthority' \in Seq(AuthorityRow)
      /\ StepOf(competentAuthority, competentAuthority', w, t)
      /\ IsRolledBack(w) => Unseen(competentAuthority, competentAuthority')
  <2>1. /\ AllRolledBack(competentAuthority, w) \in Seq(AuthorityRow)
        /\ StepOf(competentAuthority, AllRolledBack(competentAuthority, w), w, t)
        /\ Unseen(competentAuthority, AllRolledBack(competentAuthority, w))
        /\ AllCommitted(competentAuthority, w, t) \in Seq(AuthorityRow)
        /\ StepOf(competentAuthority, AllCommitted(competentAuthority, w, t), w, t)
    BY <1>1, <1>2, AuthorityRowsTakeMarks, EndStep
  <2> QED
    BY <2>1 DEF IsRolledBack, IsCommitted, t
<1>6. /\ area' \in Seq(AreaRow) /\ StepOf(area, area', w, t)
      /\ IsRolledBack(w) => Unseen(area, area')
  <2>1. /\ AllRolledBack(area, w) \in Seq(AreaRow)
        /\ StepOf(area, AllRolledBack(area, w), w, t) /\ Unseen(area, AllRolledBack(area, w))
        /\ AllCommitted(area, w, t) \in Seq(AreaRow)
        /\ StepOf(area, AllCommitted(area, w, t), w, t)
    BY <1>1, <1>2, AreaRowsTakeMarks, EndStep
  <2> QED
    BY <2>1 DEF IsRolledBack, IsCommitted, t
<1>7. /\ activity' \in Seq(ReportRow) /\ StepOf(activity, activity', w, t)
      /\ IsRolledBack(w) => Unseen(activity, activity')
  <2>1. /\ AllRolledBack(activity, w) \in Seq(ReportRow)
        /\ StepOf(activity, AllRolledBack(activity, w), w, t)
        /\ Unseen(activity, AllRolledBack(activity, w))
        /\ AllCommitted(activity, w, t) \in Seq(ReportRow)
        /\ StepOf(activity, AllCommitted(activity, w, t), w, t)
    BY <1>1, <1>2, ReportRowsTakeMarks, EndStep
  <2> QED
    BY <2>1 DEF IsRolledBack, IsCommitted, t
<1> QED
  BY <1>1, <1>3, <1>4, <1>5, <1>6, <1>7 DEF Moves, t

-----------------------------------------------------------------------------
(***************************************************************************)
(* What a step leaves of the versions of a functional id                   *)
(***************************************************************************)

\* Until something is committed, or if nothing of the functional id is, its
\* versions stay as they are.
LEMMA SameVersions ==
  ASSUME NEW old, NEW new, NEW w, w \notin {"committed", "aborted", "nobody"}, NEW t,
         StepOf(old, new, w, t), NEW x,
         \/ Unseen(old, new)
         \/ \A i \in DOMAIN old : old[i].fid = x => old[i].by # w /\ old[i].endedBy # w
  PROVE  /\ CommittedOf(new, x) = CommittedOf(old, x)
         /\ CurrentOf(new, x) = CurrentOf(old, x)
         /\ \A i \in CommittedOf(old, x) :
              /\ i \in DOMAIN old /\ i \in DOMAIN new
              /\ new[i].createdAt = old[i].createdAt /\ new[i].endedAt = old[i].endedAt
<1>1. \A i \in DOMAIN new \ DOMAIN old : new[i].by = w
  BY DEF StepOf
<1>2. \A i \in DOMAIN old : i \in DOMAIN new /\ new[i].fid = old[i].fid
                            /\ new[i].createdAt = old[i].createdAt
  BY DEF StepOf
<1>3. \A i \in DOMAIN old : old[i].fid = x =>
        /\ new[i].by = "committed" <=> old[i].by = "committed"
        /\ new[i].endedAt = old[i].endedAt
  BY DEF StepOf, Unseen
<1>4. CommittedOf(new, x) = CommittedOf(old, x)
  BY <1>1, <1>2, <1>3 DEF CommittedOf, Committed
<1>5. \A i \in CommittedOf(old, x) :
        /\ i \in DOMAIN old /\ i \in DOMAIN new
        /\ new[i].createdAt = old[i].createdAt /\ new[i].endedAt = old[i].endedAt
  BY <1>2, <1>3 DEF CommittedOf, Committed
<1>6. CurrentOf(new, x) = CurrentOf(old, x)
  BY <1>4, <1>5 DEF CurrentOf, IsCurrent
<1> QED
  BY <1>4, <1>5, <1>6

\* Committed rows stay committed.
LEMMA StillCommitted ==
  ASSUME NEW old, NEW new, NEW w, w \notin {"committed", "aborted", "nobody"}, NEW t,
         StepOf(old, new, w, t), NEW x
  PROVE  \A i \in CommittedOf(old, x) : i \in CommittedOf(new, x)
BY DEF StepOf, CommittedOf, Committed

\* The area a request is about: given, or generated and nobody else's.
LEMMA RequestIds ==
  ASSUME Typed, NEW v \in Workers, Started(v)
  PROVE  /\ \/ /\ txn[v].request.areaId = NoId /\ AreaIdOf(v) = txn[v].time
               /\ AreaIdOf(v) \in Timestamps /\ AreaIdOf(v) \notin AreaIds
            \/ /\ txn[v].request.areaId # NoId /\ AreaIdOf(v) = txn[v].request.areaId
               /\ AreaIdOf(v) \in AreaIds /\ AreaIdOf(v) \in Named(txn[v].request)
         /\ AreaIdOf(v) \in AllAreaIds
         /\ Kind(v) \in {"delete", "report"} => txn[v].request.areaId # NoId
         /\ Ca(v) \in CompetentAuthorities => Ca(v) \in Named(txn[v].request)
<1>1. txn[v].request \in Requests /\ txn[v].time \in Timestamps
  BY WorkerTypes
<1>2. txn[v].request.areaId \in AreaIds \cup {NoId}
  BY <1>1, RequestTypes
<1>3. txn[v].time \notin AreaIds /\ NoId \notin AreaIds \cup CompetentAuthorities
  BY <1>1, AreaTransactionConstantsAssumption DEF Timestamps
<1>4. Kind(v) \in {"delete", "report"} => txn[v].request.areaId # NoId
  BY <1>1, <1>3, RequestTypes DEF Kind
<1> QED
  BY <1>1, <1>2, <1>3, <1>4 DEF AreaIdOf, Named, AllAreaIds, Timestamps, Ca

\* Two requests that name an id both have it noted.
LEMMA Apart ==
  ASSUME Typed, OverlapsNoted, NEW v \in Workers, NEW w \in Workers, v # w,
         Started(v), Started(w)
  PROVE  /\ Ca(v) \in CompetentAuthorities \ overlapped => Ca(w) # Ca(v)
         /\ AreaIdOf(v) \notin overlapped => AreaIdOf(w) # AreaIdOf(v)
<1>1. /\ txn[v].time # txn[w].time
      /\ Named(txn[v].request) \cap Named(txn[w].request) \subseteq overlapped
  BY DEF OverlapsNoted
<1>2. ASSUME Ca(v) \in CompetentAuthorities, Ca(v) = Ca(w)
      PROVE  Ca(v) \in overlapped
  BY <1>1, <1>2, RequestIds
<1>3. ASSUME AreaIdOf(w) = AreaIdOf(v)
      PROVE  AreaIdOf(v) \in overlapped
  <2>1. \/ AreaIdOf(v) = txn[v].time /\ AreaIdOf(v) \notin AreaIds
        \/ AreaIdOf(v) \in AreaIds /\ AreaIdOf(v) \in Named(txn[v].request)
    BY RequestIds
  <2>2. \/ AreaIdOf(w) = txn[w].time /\ AreaIdOf(w) \notin AreaIds
        \/ AreaIdOf(w) \in AreaIds /\ AreaIdOf(w) \in Named(txn[w].request)
    BY RequestIds
  <2> QED
    BY <1>1, <1>3, <2>1, <2>2
<1> QED
  BY <1>2, <1>3

\* What a request has written bears its own ids.
LEMMA OwnIds ==
  ASSUME NEW w \in Workers, Started(w), WorkerInv(w)
  PROVE  /\ \A i \in DOMAIN competentAuthority :
              competentAuthority[i].by = w \/ competentAuthority[i].endedBy = w
                => competentAuthority[i].fid = Ca(w)
         /\ \A i \in DOMAIN area :
              area[i].by = w \/ area[i].endedBy = w => area[i].fid = AreaIdOf(w)
<1>1. Locks(w, txn[w].pc, txn[w].targets) /\ OwnRows(w, txn[w].pc, txn[w].version)
  BY DEF WorkerInv, Fits
<1> QED
  BY <1>1 DEF Locks, OwnRows

\* So the versions another request knows stay as they are.
LEMMA OthersKeepVersions ==
  ASSUME Typed, OverlapsNoted, NEW w \in Workers, WorkerInv(w), Moves(w),
         NEW v \in Workers \ {w}, Started(v)
  PROVE  /\ Ca(v) \in CompetentAuthorities \ overlapped =>
              /\ CommittedOf(competentAuthority', Ca(v)) = CommittedOf(competentAuthority, Ca(v))
              /\ CurrentOf(competentAuthority', Ca(v)) = CurrentOf(competentAuthority, Ca(v))
              /\ \A i \in CommittedOf(competentAuthority, Ca(v)) :
                   /\ i \in DOMAIN competentAuthority /\ i \in DOMAIN competentAuthority'
                   /\ competentAuthority'[i].createdAt = competentAuthority[i].createdAt
                   /\ competentAuthority'[i].endedAt = competentAuthority[i].endedAt
         /\ AreaIdOf(v) \notin overlapped =>
              /\ CommittedOf(area', AreaIdOf(v)) = CommittedOf(area, AreaIdOf(v))
              /\ CurrentOf(area', AreaIdOf(v)) = CurrentOf(area, AreaIdOf(v))
              /\ \A i \in CommittedOf(area, AreaIdOf(v)) :
                   /\ i \in DOMAIN area /\ i \in DOMAIN area'
                   /\ area'[i].createdAt = area[i].createdAt /\ area'[i].endedAt = area[i].endedAt
<1>1. w \notin {"committed", "aborted", "nobody"}
  BY WorkerTypes
<1>2. /\ StepOf(competentAuthority, competentAuthority', w, txn[w].time)
      /\ StepOf(area, area', w, txn[w].time)
      /\ \/ Unseen(competentAuthority, competentAuthority') /\ Unseen(area, area')
         \/ IsCommitted(w)
  BY DEF Moves
<1>3. IsCommitted(w) => Started(w)
  BY DEF IsCommitted, Started
<1>4. ASSUME Ca(v) \in CompetentAuthorities \ overlapped
      PROVE  \/ Unseen(competentAuthority, competentAuthority')
             \/ \A i \in DOMAIN competentAuthority : competentAuthority[i].fid = Ca(v)
                  => competentAuthority[i].by # w /\ competentAuthority[i].endedBy # w
  BY <1>2, <1>3, <1>4, Apart, OwnIds
<1>5. ASSUME AreaIdOf(v) \notin overlapped
      PROVE  \/ Unseen(area, area')
             \/ \A i \in DOMAIN area : area[i].fid = AreaIdOf(v)
                  => area[i].by # w /\ area[i].endedBy # w
  BY <1>2, <1>3, <1>5, Apart, OwnIds
<1> QED
  BY <1>1, <1>2, <1>4, <1>5, SameVersions

-----------------------------------------------------------------------------
(***************************************************************************)
(* A step does not disturb the other requests                              *)
(***************************************************************************)

\* The request itself.
LEMMA SameRequest ==
  ASSUME NEW v, Untouched(v)
  PROVE  /\ Kind(v)' = Kind(v) /\ Ca(v)' = Ca(v) /\ AreaIdOf(v)' = AreaIdOf(v)
         /\ txn'[v].time = txn[v].time /\ txn'[v].request = txn[v].request
         /\ Started(v)' <=> Started(v)
BY DEF Untouched, Kind, Ca, AreaIdOf, Started

\* What it has locked.
LEMMA OthersKeepLocks ==
  ASSUME Typed, NEW w \in Workers, Moves(w), NEW v \in Workers \ {w},
         NEW pc, NEW targets, Locks(v, pc, targets)
  PROVE  Locks(v, pc, targets)'
<1>1. /\ w \notin {"committed", "aborted", "nobody"} /\ v \notin {"committed", "aborted", "nobody"}
      /\ Kind(v)' = Kind(v) /\ Ca(v)' = Ca(v) /\ AreaIdOf(v)' = AreaIdOf(v)
  BY WorkerTypes, SameRequest DEF Moves, Frame
<1>2. /\ StepOf(competentAuthority, competentAuthority', w, txn[w].time)
      /\ StepOf(area, area', w, txn[w].time)
  BY DEF Moves
<1>3. /\ \A i \in DOMAIN competentAuthority' : competentAuthority'[i].endedBy = v =>
           i \in DOMAIN competentAuthority /\ competentAuthority[i].endedBy = v
      /\ \A i \in DOMAIN area' : area'[i].endedBy = v => i \in DOMAIN area /\ area[i].endedBy = v
  BY <1>1, <1>2 DEF StepOf
<1>4. /\ \A i \in DOMAIN competentAuthority : competentAuthority'[i].fid = competentAuthority[i].fid
      /\ \A i \in DOMAIN area : area'[i].fid = area[i].fid
  BY <1>2 DEF StepOf
<1>5. /\ \A i \in DOMAIN competentAuthority' : competentAuthority'[i].endedBy = v =>
           pc \in WithAuthority \cup {"lock authority"} /\ competentAuthority'[i].fid = Ca(v)'
      /\ \A i \in DOMAIN area' : area'[i].endedBy = v =>
           /\ pc \in {"lock area", "insert", "answered"} /\ Kind(v)' # "report"
           /\ area'[i].fid = AreaIdOf(v)'
  BY <1>1, <1>3, <1>4 DEF Locks
<1>6. /\ CommittedOf(competentAuthority, Ca(v)) \subseteq CommittedOf(competentAuthority', Ca(v))
      /\ CommittedOf(area, AreaIdOf(v)) \subseteq CommittedOf(area', AreaIdOf(v))
  BY <1>1, <1>2, StillCommitted
<1>7. /\ pc = "lock authority" => targets \subseteq CommittedOf(competentAuthority', Ca(v)')
      /\ pc = "lock area" => targets \subseteq CommittedOf(area', AreaIdOf(v)')
  BY <1>1, <1>6 DEF Locks
<1> QED
  BY <1>5, <1>7 DEF Locks

\* What it has inserted.
LEMMA OthersKeepRows ==
  ASSUME Typed, NEW w \in Workers, Moves(w), NEW v \in Workers \ {w},
         NEW pc, NEW version, OwnRows(v, pc, version)
  PROVE  OwnRows(v, pc, version)'
<1>1. /\ w \notin {"committed", "aborted", "nobody"} /\ v \notin {"committed", "aborted", "nobody"}
      /\ Kind(v)' = Kind(v) /\ Ca(v)' = Ca(v) /\ AreaIdOf(v)' = AreaIdOf(v)
      /\ txn'[v].time = txn[v].time
  BY WorkerTypes, SameRequest DEF Moves, Frame
<1>2. /\ StepOf(competentAuthority, competentAuthority', w, txn[w].time)
      /\ StepOf(area, area', w, txn[w].time) /\ StepOf(activity, activity', w, txn[w].time)
  BY DEF Moves
<1>3. /\ \A i \in DOMAIN competentAuthority' : competentAuthority'[i].by = v =>
           i \in DOMAIN competentAuthority /\ competentAuthority[i].by = v
      /\ \A i \in DOMAIN area' : area'[i].by = v => i \in DOMAIN area /\ area[i].by = v
      /\ \A i \in DOMAIN activity' : activity'[i].by = v => i \in DOMAIN activity /\ activity[i].by = v
      /\ \A i \in DOMAIN competentAuthority : competentAuthority[i].by = v => competentAuthority'[i].by = v
  BY <1>1, <1>2 DEF StepOf
<1>4. /\ \A i \in DOMAIN competentAuthority :
           /\ i \in DOMAIN competentAuthority'
           /\ competentAuthority'[i].fid = competentAuthority[i].fid
           /\ competentAuthority'[i].createdAt = competentAuthority[i].createdAt
      /\ \A i \in DOMAIN area : area'[i].fid = area[i].fid /\ area'[i].createdAt = area[i].createdAt
                                /\ area'[i].competentAuthority = area[i].competentAuthority
      /\ \A i \in DOMAIN activity : /\ activity'[i].createdAt = activity[i].createdAt
                                    /\ activity'[i].area = activity[i].area
  BY <1>2 DEF StepOf, Moves
<1>5. \A i \in DOMAIN competentAuthority' : competentAuthority'[i].by = v =>
        /\ Kind(v) = "post" /\ pc \in WithAuthority /\ i = version
        /\ competentAuthority'[i].fid = Ca(v) /\ competentAuthority'[i].createdAt = txn[v].time
  BY <1>3, <1>4 DEF OwnRows
<1>6. /\ \A i \in DOMAIN area' : area'[i].by = v =>
           /\ Kind(v) = "post" /\ pc = "answered"
           /\ area'[i].fid = AreaIdOf(v) /\ area'[i].createdAt = txn[v].time
           /\ area'[i].competentAuthority = version
      /\ \A i, k \in DOMAIN area' : area'[i].by = v /\ area'[k].by = v => i = k
  BY <1>3, <1>4 DEF OwnRows
<1>7. \A i \in DOMAIN activity' : activity'[i].by = v =>
        /\ Kind(v) = "report" /\ pc = "answered"
        /\ activity'[i].createdAt = txn[v].time /\ activity'[i].area = version
  BY <1>3, <1>4 DEF OwnRows
<1>8. Kind(v) = "post" /\ pc \in WithAuthority =>
        version \in DOMAIN competentAuthority' /\ competentAuthority'[version].by = v
  BY <1>3, <1>4 DEF OwnRows
<1>9. Kind(v) = "report" /\ pc \in {"report", "answered"} => version \in CommittedOf(area', AreaIdOf(v))
  BY <1>1, <1>2, StillCommitted DEF OwnRows
<1> QED
  BY <1>1, <1>5, <1>6, <1>7, <1>8, <1>9 DEF OwnRows

\* What holds of its authority.
LEMMA OthersKeepAuthority ==
  ASSUME Typed, OverlapsNoted, NEW w \in Workers, WorkerInv(w), Moves(w),
         NEW v \in Workers \ {w}, Started(v),
         NEW pc, NEW targets, NEW version, OnAuthority(v, pc, targets, version)
  PROVE  OnAuthority(v, pc, targets, version)'
<1>1. /\ v \notin {"committed", "aborted", "nobody"}
      /\ Kind(v)' = Kind(v) /\ Ca(v)' = Ca(v) /\ txn'[v].time = txn[v].time
      /\ overlapped \subseteq overlapped'
      /\ StepOf(competentAuthority, competentAuthority', w, txn[w].time)
  BY WorkerTypes, SameRequest DEF Moves, Frame
<1> SUFFICES ASSUME Ca(v) \in CompetentAuthorities \ overlapped'
             PROVE  OnAuthority(v, pc, targets, version)'
  BY <1>1 DEF OnAuthority
<1>2. Ca(v) \in CompetentAuthorities \ overlapped
  BY <1>1
<1>3. /\ CommittedOf(competentAuthority', Ca(v)) = CommittedOf(competentAuthority, Ca(v))
      /\ CurrentOf(competentAuthority', Ca(v)) = CurrentOf(competentAuthority, Ca(v))
      /\ \A i \in CommittedOf(competentAuthority, Ca(v)) :
           /\ i \in DOMAIN competentAuthority
           /\ competentAuthority'[i].createdAt = competentAuthority[i].createdAt
           /\ competentAuthority'[i].endedAt = competentAuthority[i].endedAt
  BY <1>2, OthersKeepVersions
<1>4. \A i \in CurrentOf(competentAuthority, Ca(v)) :
        competentAuthority[i].endedBy = v => competentAuthority'[i].endedBy = v
  BY <1>1, <1>3 DEF CurrentOf, StepOf
<1>5. /\ OlderThan(competentAuthority, Ca(v), txn[v].time)
         => OlderThan(competentAuthority', Ca(v), txn[v].time)
      /\ InUse(competentAuthority, Ca(v)) => InUse(competentAuthority', Ca(v))
  BY <1>3 DEF OlderThan, InUse
<1>6. /\ OlderThan(competentAuthority', Ca(v), txn[v].time)
      /\ pc = "any authority" => CurrentOf(competentAuthority', Ca(v)) = {}
      /\ pc = "lock authority" =>
           \A i \in CurrentOf(competentAuthority', Ca(v)) :
              i \in targets \/ competentAuthority'[i].endedBy = v
      /\ Kind(v) = "post" /\ pc \in WithAuthority =>
           /\ \A i \in CurrentOf(competentAuthority', Ca(v)) : competentAuthority'[i].endedBy = v
           /\ \A i \in CommittedOf(competentAuthority', Ca(v)) : i < version
      /\ Kind(v) = "post" /\ pc \in WithAuthority \cup {"end authority", "lock authority"} =>
           InUse(competentAuthority', Ca(v))
  BY <1>2, <1>3, <1>4, <1>5 DEF OnAuthority
<1> QED
  BY <1>1, <1>6 DEF OnAuthority, OlderThan, InUse, CurrentOf, CommittedOf, Committed

\* Activities that become visible are of the area of their own request.
LEMMA OthersKeepReports ==
  ASSUME Typed, OverlapsNoted, NEW w \in Workers, WorkerInv(w), Moves(w),
         \A i \in Committed(activity) : activity[i].area \in Committed(area),
         NEW v \in Workers \ {w}, Started(v), AreaIdOf(v) \notin overlapped,
         \A i \in Committed(activity) :
            area[activity[i].area].fid = AreaIdOf(v) => activity[i].createdAt < txn[v].time
  PROVE  \A i \in Committed(activity') :
            area'[activity'[i].area].fid = AreaIdOf(v) => activity'[i].createdAt < txn[v].time
<1> SUFFICES ASSUME NEW i \in Committed(activity'), area'[activity'[i].area].fid = AreaIdOf(v)
             PROVE  activity'[i].createdAt < txn[v].time
  OBVIOUS
<1>1. w \notin {"committed", "aborted", "nobody"}
  BY WorkerTypes
<1>2. /\ StepOf(activity, activity', w, txn[w].time)
      /\ \A k \in DOMAIN area : area'[k].fid = area[k].fid
      /\ \A k \in DOMAIN activity : activity'[k].area = activity[k].area
  BY DEF Moves, StepOf
<1>3. i \in DOMAIN activity /\ (i \in Committed(activity) \/ activity[i].by = w)
  BY <1>1, <1>2, StepKeepsCommitted
<1>4. CASE i \in Committed(activity)
  <2>1. activity[i].area \in DOMAIN area /\ activity'[i].createdAt = activity[i].createdAt
    BY <1>2, <1>3, <1>4 DEF Committed, StepOf
  <2> QED
    BY <1>2, <1>3, <1>4, <2>1
<1>5. CASE activity[i].by = w
  <2>1. Started(w)
    BY <1>3, <1>5 DEF WorkerInv, HoldsNothing
  <2>2. OwnRows(w, txn[w].pc, txn[w].version)
    BY <2>1 DEF WorkerInv, Fits
  <2>3. activity[i].area \in CommittedOf(area, AreaIdOf(w))
    BY <1>3, <1>5, <2>2 DEF OwnRows
  <2>4. activity[i].area \in DOMAIN area /\ area[activity[i].area].fid = AreaIdOf(w)
    BY <2>3 DEF CommittedOf, Committed
  <2>5. AreaIdOf(w) # AreaIdOf(v)
    BY <2>1, Apart
  <2> QED
    BY <1>2, <1>3, <2>4, <2>5
<1> QED
  BY <1>3, <1>4, <1>5

\* What holds of its area.
LEMMA OthersKeepArea ==
  ASSUME Typed, OverlapsNoted, NEW w \in Workers, WorkerInv(w), Moves(w),
         \A i \in Committed(activity) : activity[i].area \in Committed(area),
         NEW v \in Workers \ {w}, Started(v),
         NEW pc, NEW owner, NEW targets, NEW version,
         OwnRows(v, pc, version), OnArea(v, pc, owner, targets, version)
  PROVE  OnArea(v, pc, owner, targets, version)'
<1> DEFINE x == AreaIdOf(v)
<1>1. /\ v \notin {"committed", "aborted", "nobody"} /\ w \notin {"committed", "aborted", "nobody"}
      /\ Kind(v)' = Kind(v) /\ AreaIdOf(v)' = x /\ txn'[v].time = txn[v].time
      /\ overlapped \subseteq overlapped'
      /\ StepOf(area, area', w, txn[w].time)
      /\ \A i \in DOMAIN area : area'[i].competentAuthority = area[i].competentAuthority
  BY WorkerTypes, SameRequest DEF Moves, Frame
<1> SUFFICES ASSUME x \notin overlapped'
             PROVE  OnArea(v, pc, owner, targets, version)'
  BY <1>1 DEF OnArea
<1>2. x \notin overlapped
  BY <1>1
<1>3. /\ CommittedOf(area', x) = CommittedOf(area, x) /\ CurrentOf(area', x) = CurrentOf(area, x)
      /\ \A i \in CommittedOf(area, x) :
           /\ i \in DOMAIN area
           /\ area'[i].createdAt = area[i].createdAt /\ area'[i].endedAt = area[i].endedAt
  BY <1>2, OthersKeepVersions
<1>4. \A i \in CurrentOf(area, x) :
        /\ area[i].endedBy = v => area'[i].endedBy = v
        /\ area'[i].competentAuthority = area[i].competentAuthority
  BY <1>1, <1>3 DEF CurrentOf, StepOf
<1>5. /\ OlderThan(area, x, txn[v].time) => OlderThan(area', x, txn[v].time)
      /\ InUse(area, x) => InUse(area', x)
  BY <1>3 DEF OlderThan, InUse
<1>6. \A i \in Committed(activity) : area[activity[i].area].fid = x => activity[i].createdAt < txn[v].time
  BY <1>2 DEF OnArea
<1>7. \A i \in Committed(activity') : area'[activity'[i].area].fid = x => activity'[i].createdAt < txn[v].time
  BY <1>2, <1>6, OthersKeepReports
<1>8. \A k \in DOMAIN area' : area'[k].by = v => k \in DOMAIN area /\ area[k].by = v
  BY <1>1 DEF StepOf
<1>9. Kind(v) = "report" /\ pc \in {"report", "answered"} => version \in CommittedOf(area, x)
  BY DEF OwnRows
<1> HIDE DEF x
<1>10. /\ OlderThan(area, x, txn[v].time)
       /\ pc = "any area" => CurrentOf(area, x) = {}
       /\ pc = "end area" => \A i \in CurrentOf(area, x) : area[i].competentAuthority = owner
       /\ pc = "lock area" => \A i \in CurrentOf(area, x) : i \in targets \/ area[i].endedBy = v
       /\ Kind(v) \in {"post", "delete"} /\ pc \in {"insert", "answered"} =>
            \A i \in CurrentOf(area, x) : area[i].endedBy = v
       /\ Kind(v) = "post" /\ pc \in {"end area", "lock area", "insert", "answered"} => InUse(area, x)
       /\ \A i \in CommittedOf(area, x), k \in DOMAIN area : area[k].by = v => i < k
       /\ Kind(v) = "report" /\ pc \in {"report", "answered"} => IsCurrent(area[version])
  BY <1>2 DEF OnArea, x
<1>11. /\ OlderThan(area', x, txn[v].time)
       /\ pc = "any area" => CurrentOf(area', x) = {}
       /\ pc = "end area" => \A i \in CurrentOf(area', x) : area'[i].competentAuthority = owner
       /\ pc = "lock area" => \A i \in CurrentOf(area', x) : i \in targets \/ area'[i].endedBy = v
       /\ Kind(v) \in {"post", "delete"} /\ pc \in {"insert", "answered"} =>
            \A i \in CurrentOf(area', x) : area'[i].endedBy = v
       /\ Kind(v) = "post" /\ pc \in {"end area", "lock area", "insert", "answered"} => InUse(area', x)
       /\ \A i \in CommittedOf(area', x), k \in DOMAIN area' : area'[k].by = v => i < k
  BY <1>3, <1>4, <1>5, <1>8, <1>10
<1>12. Kind(v) = "report" /\ pc \in {"report", "answered"} => IsCurrent(area'[version])
  BY <1>3, <1>9, <1>10 DEF IsCurrent
<1> QED
  BY <1>1, <1>7, <1>11, <1>12 DEF OnArea, OlderThan, InUse, CurrentOf, CommittedOf, Committed

\* Every other worker.
LEMMA OthersKeep ==
  ASSUME Typed, OverlapsNoted, NEW w \in Workers, WorkerInv(w), Moves(w),
         \A i \in Committed(activity) : activity[i].area \in Committed(area),
         NEW v \in Workers \ {w}, WorkerInv(v)
  PROVE  RequestKept(v)' /\ WorkerInv(v)'
<1>1. /\ Untouched(v) /\ now <= now' /\ now \in Nat /\ now' \in Nat
      /\ v \notin {"committed", "aborted", "nobody"}
      /\ (Started(v)' <=> Started(v)) /\ Kind(v)' = Kind(v)
  BY WorkerTypes, SameRequest DEF Moves, Frame
<1>2. RequestKept(v)'
  <2>1. RequestKept(v)
    BY DEF Typed
  <2>2. txn[v].time \in 1..now => txn[v].time \in 1..now'
    BY <1>1
  <2> QED
    BY <1>1, <2>1, <2>2 DEF RequestKept, Untouched
<1>3. CASE ~Started(v)
  <2>1. HoldsNothing(v)
    BY <1>3 DEF WorkerInv
  <2>2. /\ StepOf(competentAuthority, competentAuthority', w, txn[w].time)
        /\ StepOf(area, area', w, txn[w].time) /\ StepOf(activity, activity', w, txn[w].time)
    BY DEF Moves
  <2>3. HoldsNothing(v)'
    BY <1>1, <2>1, <2>2 DEF HoldsNothing, StepOf
  <2> QED
    BY <1>1, <1>2, <1>3, <2>3 DEF WorkerInv
<1>4. CASE Started(v)
  <2>1. PICK pc, owner, targets, version :
               /\ pc = txn[v].pc /\ owner = txn[v].owner /\ targets = txn[v].targets
               /\ version = txn[v].version
    OBVIOUS
  <2>2. /\ Locks(v, pc, targets) /\ OwnRows(v, pc, version)
        /\ OnAuthority(v, pc, targets, version) /\ OnArea(v, pc, owner, targets, version)
    BY <1>4, <2>1 DEF WorkerInv, Fits
  <2>3. Locks(v, pc, targets)' /\ OwnRows(v, pc, version)'
    BY <2>2, OthersKeepLocks, OthersKeepRows
  <2>4. OnAuthority(v, pc, targets, version)' /\ OnArea(v, pc, owner, targets, version)'
    BY <1>4, <2>2, OthersKeepAuthority, OthersKeepArea
  <2>5. /\ txn'[v].pc = pc /\ txn'[v].owner = owner /\ txn'[v].targets = targets
        /\ txn'[v].version = version
    BY <1>1, <2>1 DEF Untouched
  <2> QED
    BY <1>1, <1>2, <1>4, <2>3, <2>4, <2>5 DEF WorkerInv, Fits
<1> QED
  BY <1>3, <1>4

-----------------------------------------------------------------------------
(***************************************************************************)
(* What a request finds                                                    *)
(***************************************************************************)

\* Of a request that has inserted and ended nothing of a functional id, its
\* SELECT finds what is committed and current.
LEMMA Finds ==
  ASSUME NEW table, NEW w, NEW x
  PROVE  /\ \A i \in CurrentTo(w, table, x) : table[i].by # w => i \in CurrentOf(table, x)
         /\ \A i \in CurrentOf(table, x) : table[i].endedBy # w => i \in CurrentTo(w, table, x)
         /\ \A i \in CurrentOf(table, x) : i \in VisibleTo(w, table, x)
         /\ \A i \in CommittedOf(table, x) : i \in VisibleTo(w, table, x)
         /\ CurrentOf(table, x) \subseteq CommittedOf(table, x)
         /\ CurrentTo(w, table, x) \subseteq DOMAIN table
BY DEF CurrentTo, VisibleTo, Versions, CurrentOf, CommittedOf, Committed

\* A set with at most one element.
LEMMA AtMostOne ==
  ASSUME NEW S, IsFiniteSet(S), Cardinality(S) <= 1, NEW i \in S, NEW k \in S
  PROVE  k = i
<1>1. Cardinality(S) \in Nat /\ Cardinality(S) # 0
  BY FS_CardinalityType, FS_EmptySet
<1>2. Cardinality(S) = 1
  BY <1>1
<1>3. PICK x : S = {x}
  BY <1>2, FS_Singleton
<1> QED
  BY <1>3

\* The rows of a table are finitely many.
LEMMA FiniteTable ==
  ASSUME NEW Row, NEW table \in Seq(Row)
  PROVE  IsFiniteSet(DOMAIN table)
<1>1. DOMAIN table = 1..Len(table) /\ Len(table) \in Int /\ 1 \in Int
  OBVIOUS
<1> QED
  BY <1>1, FS_Interval

\* Of two technical ids neither of which is less.
LEMMA NeitherLess ==
  ASSUME NEW m \in Nat, NEW n \in Nat, ~(m < n), ~(n < m)
  PROVE  n = m
OBVIOUS

\* The area in the WHERE.
LEMMA AreaAsked ==
  ASSUME NEW w, txn[w].request.areaId # NoId
  PROVE  AreaIdOf(w) = txn[w].request.areaId
BY DEF AreaIdOf

\* A SELECT of the authority finds none, ...
LEMMA NoAuthorityFits ==
  ASSUME NEW w, NEW o, NEW t, NEW v, Fits(w, "find authority", o, t, v),
         CurrentTo(w, competentAuthority, Ca(w)) = {}
  PROVE  Fits(w, "any authority", o, t, v)
<1>1. /\ Locks(w, "any authority", t) /\ OwnRows(w, "any authority", v)
      /\ \A i \in DOMAIN competentAuthority : competentAuthority[i].endedBy # w
  BY DEF Fits, Locks, OwnRows, WithAuthority
<1>2. CurrentOf(competentAuthority, Ca(w)) = {}
  <2>1. \A i \in CurrentOf(competentAuthority, Ca(w)) : i \in DOMAIN competentAuthority
    BY DEF CurrentOf, CommittedOf, Committed
  <2> QED
    BY <1>1, <2>1, Finds
<1>3. OnAuthority(w, "any authority", t, v)
  BY <1>2 DEF Fits, OnAuthority, WithAuthority
<1>4. OnArea(w, "any authority", o, t, v)
  BY DEF Fits, OnArea
<1> QED
  BY <1>1, <1>3, <1>4 DEF Fits

\* ... or one.
LEMMA AuthorityFits ==
  ASSUME NEW w, NEW o, NEW t, NEW v, Fits(w, "find authority", o, t, v),
         CurrentTo(w, competentAuthority, Ca(w)) # {}
  PROVE  Fits(w, "end authority", o, t, v)
<1>1. /\ Locks(w, "end authority", t) /\ OwnRows(w, "end authority", v)
      /\ \A i \in DOMAIN competentAuthority : competentAuthority[i].by # w
  BY DEF Fits, Locks, OwnRows, WithAuthority
<1>2. CurrentOf(competentAuthority, Ca(w)) # {}
  BY <1>1, Finds
<1>3. OnAuthority(w, "end authority", t, v)
  BY <1>2 DEF Fits, OnAuthority, WithAuthority, InUse
<1>4. OnArea(w, "end authority", o, t, v)
  BY DEF Fits, OnArea
<1> QED
  BY <1>1, <1>3, <1>4 DEF Fits

\* UPDATE competent_authority finds all current versions.
LEMMA AuthorityTargetsFit ==
  ASSUME NEW w, NEW o, NEW t, NEW v, Fits(w, "end authority", o, t, v)
  PROVE  Fits(w, "lock authority", o, AuthorityTargets(w), v)
<1> DEFINE s == AuthorityTargets(w)
<1>0. s = CurrentTo(w, competentAuthority, Ca(w))
  BY DEF AuthorityTargets, Ca
<1>1. /\ \A i \in DOMAIN competentAuthority : competentAuthority[i].by # w /\ competentAuthority[i].endedBy # w
      /\ OwnRows(w, "lock authority", v)
  BY DEF Fits, Locks, OwnRows, WithAuthority
<1>2. s \subseteq CommittedOf(competentAuthority, Ca(w))
  <2>1. \A i \in s : i \in DOMAIN competentAuthority
    BY <1>0, Finds
  <2>2. \A i \in s : i \in CurrentOf(competentAuthority, Ca(w))
    BY <1>0, <1>1, <2>1, Finds
  <2> HIDE DEF s
  <2> QED
    BY <2>2, Finds
<1>3. \A i \in CurrentOf(competentAuthority, Ca(w)) : i \in s
  <2>1. \A i \in CurrentOf(competentAuthority, Ca(w)) : i \in DOMAIN competentAuthority
    BY DEF CurrentOf, CommittedOf, Committed
  <2> QED
    BY <1>0, <1>1, <2>1, Finds
<1> HIDE DEF s
<1>4. Locks(w, "lock authority", s)
  BY <1>1, <1>2 DEF Fits, Locks
<1>5. OnAuthority(w, "lock authority", s, v)
  BY <1>3 DEF Fits, OnAuthority, WithAuthority
<1>6. OnArea(w, "lock authority", o, s, v)
  BY DEF Fits, OnArea
<1> QED
  BY <1>1, <1>4, <1>5, <1>6 DEF Fits, s

\* An authority that is ended outside the API is only ended.
LEMMA AuthorityEndedFits ==
  ASSUME NEW w, NEW o, NEW t, NEW v, Fits(w, "lock authority", o, t, v),
         Kind(w) = "end authority"
  PROVE  Fits(w, "answered", o, t, v)
<1>1. Locks(w, "answered", t) /\ OwnRows(w, "answered", v)
  BY DEF Fits, Locks, OwnRows, WithAuthority
<1>2. OnAuthority(w, "answered", t, v)
  BY DEF Fits, OnAuthority, WithAuthority
<1>3. OnArea(w, "answered", o, t, v)
  BY DEF Fits, OnArea
<1> QED
  BY <1>1, <1>2, <1>3 DEF Fits

\* A SELECT of the area finds none, ...
LEMMA NoAreaFits ==
  ASSUME NEW w, NEW o, NEW t, NEW v, Fits(w, "find area", o, t, v),
         CurrentTo(w, area, AreaIdOf(w)) = {}
  PROVE  Fits(w, "any area", o, t, v)
<1>1. /\ Locks(w, "any area", t) /\ OwnRows(w, "any area", v)
      /\ \A i \in DOMAIN area : area[i].endedBy # w
  BY DEF Fits, Locks, OwnRows, WithAuthority
<1>2. CurrentOf(area, AreaIdOf(w)) = {}
  <2>1. \A i \in CurrentOf(area, AreaIdOf(w)) : i \in DOMAIN area
    BY DEF CurrentOf, CommittedOf, Committed
  <2> QED
    BY <1>1, <2>1, Finds
<1>3. OnAuthority(w, "any area", t, v)
  BY DEF Fits, OnAuthority, WithAuthority
<1>4. OnArea(w, "any area", o, t, v)
  BY <1>2 DEF Fits, OnArea
<1> QED
  BY <1>1, <1>3, <1>4 DEF Fits

\* ... or the one that is current, of POST ...
LEMMA AreaFits ==
  ASSUME Typed, NEW w, NEW o, NEW t, NEW v, Fits(w, "find area", o, t, v),
         Cardinality(CurrentTo(w, area, AreaIdOf(w))) <= 1, NEW i \in CurrentTo(w, area, AreaIdOf(w))
  PROVE  Fits(w, "end area", area[i].competentAuthority, t, v)
<1> DEFINE a == area[i].competentAuthority
           found == CurrentTo(w, area, AreaIdOf(w))
<1>1. /\ Locks(w, "end area", t) /\ OwnRows(w, "end area", v)
      /\ \A k \in DOMAIN area : area[k].endedBy # w /\ area[k].by # w
  BY DEF Fits, Locks, OwnRows, WithAuthority
<1>2. i \in CurrentOf(area, AreaIdOf(w))
  BY <1>1, Finds
<1>3. \A k \in CurrentOf(area, AreaIdOf(w)) : k \in found
  <2>1. \A k \in CurrentOf(area, AreaIdOf(w)) : k \in DOMAIN area
    BY DEF CurrentOf, CommittedOf, Committed
  <2> QED
    BY <1>1, <2>1, Finds
<1>4. \A k \in found : k = i
  <2>1. IsFiniteSet(DOMAIN area) /\ found \subseteq DOMAIN area
    BY FiniteTable, Finds DEF Typed
  <2>2. IsFiniteSet(found)
    BY <2>1, FS_Subset
  <2> QED
    BY <2>2, AtMostOne
<1>5. OnAuthority(w, "end area", t, v)
  BY DEF Fits, OnAuthority, WithAuthority
<1>6. OnArea(w, "end area", a, t, v)
  BY <1>2, <1>3, <1>4 DEF Fits, OnArea, InUse
<1> QED
  BY <1>1, <1>5, <1>6 DEF Fits

\* ... and of DELETE: versions that nobody else touches are stacked.
LEMMA OwnAreaFits ==
  ASSUME Typed, VersionsStacked, NEW w \in Workers, Started(w), Kind(w) = "delete",
         NEW o, NEW t, NEW v, Fits(w, "find own area", o, t, v),
         NEW i \in CurrentTo(w, area, AreaIdOf(w))
  PROVE  Fits(w, "end area", area[i].competentAuthority, t, v)
<1> DEFINE a == area[i].competentAuthority
           x == AreaIdOf(w)
<1>1. /\ Locks(w, "end area", t) /\ OwnRows(w, "end area", v)
      /\ \A k \in DOMAIN area : area[k].endedBy # w /\ area[k].by # w
  BY DEF Fits, Locks, OwnRows, WithAuthority
<1>2. i \in CurrentOf(area, x)
  BY <1>1, Finds
<1>3. ASSUME x \notin overlapped, NEW k \in CurrentOf(area, x)
      PROVE  k = i
  <2>1. x \in AllAreaIds
    BY RequestIds
  <2>2. CommittedStacked(area, AllAreaIds \ overlapped)
    BY DEF VersionsStacked
  <2>3. /\ i \in Committed(area) /\ k \in Committed(area) /\ area[i].fid = x /\ area[k].fid = x
        /\ IsCurrent(area[i]) /\ IsCurrent(area[k]) /\ i \in DOMAIN area /\ k \in DOMAIN area
    BY <1>2, <1>3 DEF CurrentOf, CommittedOf, Committed
  <2>4. i \in Nat /\ k \in Nat
    BY <2>3, RowTypes
  <2>5. ~(i < k) /\ ~(k < i)
    <3>1. x \in AllAreaIds \ overlapped
      BY <1>3, <2>1
    <3> HIDE DEF x
    <3> QED
      BY <2>2, <2>3, <3>1 DEF CommittedStacked
  <2> HIDE DEF a, x
  <2> QED
    BY <2>4, <2>5, NeitherLess
<1>4. OnAuthority(w, "end area", t, v)
  BY DEF Fits, OnAuthority, WithAuthority
<1>5. OnArea(w, "end area", a, t, v)
  BY <1>2, <1>3 DEF Fits, OnArea
<1> QED
  BY <1>1, <1>4, <1>5 DEF Fits

\* An area that has no version at all is new.
LEMMA NewAreaFits ==
  ASSUME NEW w, NEW o, NEW t, NEW v, Fits(w, "any area", o, t, v),
         VisibleTo(w, area, AreaIdOf(w)) = {}
  PROVE  Fits(w, "insert", o, t, v)
<1>1. Locks(w, "insert", t) /\ OwnRows(w, "insert", v)
  BY DEF Fits, Locks, OwnRows, WithAuthority
<1>2. CurrentOf(area, AreaIdOf(w)) = {} /\ CommittedOf(area, AreaIdOf(w)) = {}
  BY Finds
<1>3. OnAuthority(w, "insert", t, v)
  BY DEF Fits, OnAuthority, WithAuthority
<1>4. OnArea(w, "insert", o, t, v)
  BY <1>2 DEF Fits, OnArea, InUse
<1> QED
  BY <1>1, <1>3, <1>4 DEF Fits

\* UPDATE area finds all current versions: they are its owner's.
LEMMA AreaTargetsFit ==
  ASSUME NEW w, NEW t, NEW v, Fits(w, "end area", txn[w].owner, t, v),
         txn[w].request.areaId # NoId
  PROVE  Fits(w, "lock area", txn[w].owner, AreaTargets(w), v)
<1> DEFINE s == AreaTargets(w)
           o == txn[w].owner
           x == AreaIdOf(w)
<1>0. s = {i \in CurrentTo(w, area, x) : area[i].competentAuthority = o}
  BY AreaAsked DEF AreaTargets
<1>1. /\ \A i \in DOMAIN area : area[i].by # w /\ area[i].endedBy # w
      /\ OwnRows(w, "lock area", v)
  BY DEF Fits, Locks, OwnRows, WithAuthority
<1>2. s \subseteq CommittedOf(area, x)
  BY <1>0, <1>1, Finds
<1>3. x \notin overlapped => \A i \in CurrentOf(area, x) : i \in s
  <2>1. \A i \in CurrentOf(area, x) : i \in DOMAIN area
    BY DEF CurrentOf, CommittedOf, Committed
  <2>2. x \notin overlapped => \A i \in CurrentOf(area, x) : area[i].competentAuthority = o
    BY DEF Fits, OnArea
  <2> QED
    BY <1>0, <1>1, <2>1, <2>2, Finds
<1> HIDE DEF s
<1>4. Locks(w, "lock area", s)
  BY <1>1, <1>2 DEF Fits, Locks, WithAuthority
<1>5. OnAuthority(w, "lock area", s, v)
  BY DEF Fits, OnAuthority, WithAuthority
<1>6. OnArea(w, "lock area", o, s, v)
  BY <1>3 DEF Fits, OnArea
<1> QED
  BY <1>1, <1>4, <1>5, <1>6 DEF Fits, s

\* What the UPDATE has locked is the last version ...
LEMMA AreaEndedFits ==
  ASSUME NEW w, NEW o, NEW v, Fits(w, "lock area", o, {}, v)
  PROVE  /\ Kind(w) = "post" => Fits(w, "insert", o, {}, v)
         /\ Kind(w) = "delete" => Fits(w, "answered", o, {}, v)
<1>1. ASSUME NEW pc \in {"insert", "answered"}, pc = "answered" => Kind(w) = "delete"
      PROVE  Fits(w, pc, o, {}, v)
  <2>1. Kind(w) # "report" \/ pc = "insert"
    BY <1>1
  <2>2. Locks(w, pc, {}) /\ OwnRows(w, pc, v)
    BY <1>1, <2>1 DEF Fits, Locks, OwnRows, WithAuthority
  <2>3. OnAuthority(w, pc, {}, v)
    BY <1>1 DEF Fits, OnAuthority, WithAuthority
  <2>4. OnArea(w, pc, o, {}, v)
    BY <1>1, <2>1 DEF Fits, OnArea
  <2> QED
    BY <2>2, <2>3, <2>4 DEF Fits
<1> QED
  BY <1>1

\* The area of an activity.
LEMMA ReportedAreaFits ==
  ASSUME NEW w, Kind(w) = "report", NEW o, NEW t, NEW v, Fits(w, "find reported area", o, t, v),
         NEW i \in CurrentTo(w, area, AreaIdOf(w))
  PROVE  Fits(w, "report", o, t, i)
<1>1. /\ \A k \in DOMAIN area : area[k].by # w
      /\ \A k \in DOMAIN competentAuthority : competentAuthority[k].by # w
      /\ \A k \in DOMAIN activity : activity[k].by # w
      /\ Locks(w, "report", t)
  BY DEF Fits, Locks, OwnRows, WithAuthority
<1>2. i \in CurrentOf(area, AreaIdOf(w)) /\ i \in CommittedOf(area, AreaIdOf(w)) /\ IsCurrent(area[i])
  BY <1>1, Finds DEF CurrentOf
<1>3. OwnRows(w, "report", i)
  BY <1>1, <1>2 DEF OwnRows
<1>4. OnAuthority(w, "report", t, i)
  BY DEF Fits, OnAuthority, WithAuthority
<1>5. OnArea(w, "report", o, t, i)
  BY <1>2 DEF Fits, OnArea
<1> QED
  BY <1>1, <1>3, <1>4, <1>5 DEF Fits

-----------------------------------------------------------------------------
(***************************************************************************)
(* What a step does to the worker that takes it                            *)
(***************************************************************************)

\* The statements of a request follow each other.
LEMMA NextStatement ==
  ASSUME Typed, NEW w \in Workers, Started(w)
  PROVE  LET pc == txn[w].pc
             later == StatementsOf(txn[w].request)
             areaId == txn[w].request.areaId
         IN  /\ "idle" \notin later /\ pc \in later
             /\ pc \in {"find authority", "any authority"} => Kind(w) = "post"
             /\ pc \in {"find area", "any area"} => Kind(w) = "post" /\ areaId # NoId
             /\ pc = "find own area" => Kind(w) = "delete" /\ areaId # NoId
             /\ pc \in {"end area", "lock area"} => Kind(w) \in {"post", "delete"} /\ areaId # NoId
             /\ pc = "insert" => Kind(w) = "post"
             /\ pc \in {"find reported area", "report"} => Kind(w) = "report" /\ areaId # NoId
             /\ pc = "find authority" => {"any authority", "end authority"} \subseteq later
             /\ pc = "end authority" => "lock authority" \in later
             /\ pc = "find area" => {"any area", "end area"} \subseteq later
             /\ pc = "any area" => "insert" \in later
             /\ pc = "find own area" => "end area" \in later
             /\ pc = "end area" => "lock area" \in later
             /\ pc = "find reported area" => "report" \in later
             /\ Kind(w) = "post" => AfterAuthority(w) \in later /\ "insert" \in later
             /\ "answered" \in later
<1> DEFINE request == txn[w].request
<1>1. /\ request \in Requests /\ txn[w].pc \in StatementsOf(request)
      /\ NoId \notin AreaIds /\ Kind(w) = request.kind
  BY WorkerTypes, AreaTransactionConstantsAssumption DEF Kind
<1>2. /\ request.kind \in {"post", "delete", "report", "end authority"}
      /\ request.kind \in {"delete", "report"} => request.areaId # NoId
  BY <1>1, RequestTypes
<1>3. AfterAuthority(w) = IF request.areaId = NoId THEN "insert" ELSE "find area"
  BY DEF AfterAuthority
<1> HIDE DEF request
<1>4. CASE request.kind = "post"
  BY <1>1, <1>3, <1>4 DEF StatementsOf, request
<1>5. CASE request.kind = "delete"
  BY <1>1, <1>2, <1>5 DEF StatementsOf, request
<1>6. CASE request.kind = "report"
  BY <1>1, <1>2, <1>6 DEF StatementsOf, request
<1>7. CASE request.kind = "end authority"
  BY <1>1, <1>7 DEF StatementsOf, request
<1> QED
  BY <1>2, <1>4, <1>5, <1>6, <1>7

\* A row that is locked is committed.
TakesCommitted(w) ==
  /\ \A i \in DOMAIN competentAuthority :
       competentAuthority[i].endedBy # w /\ competentAuthority'[i].endedBy = w
         => competentAuthority[i].by = "committed"
  /\ \A i \in DOMAIN area :
       area[i].endedBy # w /\ area'[i].endedBy = w => area[i].by = "committed"

\* A step of w keeps what the invariant says of w, and shows nothing to the
\* others before it commits.
StepsWell(w) == Moves(w) /\ TakesCommitted(w) /\ RequestKept(w)' /\ WorkerInv(w)'

\* The request that goes on is the same.
LEMMA SameRequestGoesOn ==
  ASSUME NEW w, NEW pc, NEW owner, NEW targets, NEW version, NEW status,
         GoesOn(w, pc, owner, targets, version, status)
  PROVE  /\ Kind(w)' = Kind(w) /\ Ca(w)' = Ca(w) /\ AreaIdOf(w)' = AreaIdOf(w)
         /\ txn'[w].time = txn[w].time /\ txn'[w].request = txn[w].request
         /\ txn'[w].pc = pc /\ txn'[w].owner = owner /\ txn'[w].targets = targets
         /\ txn'[w].version = version /\ txn'[w].status = status
         /\ now' = now /\ overlapped' = overlapped
BY DEF GoesOn, Updated, Kind, Ca, AreaIdOf

\* It is at one of its statements.
LEMMA GoesOnKept ==
  ASSUME Typed, NEW w \in Workers, Started(w),
         NEW pc \in StatementsOf(txn[w].request), NEW owner, NEW targets, NEW version, NEW status,
         status = 204 => Kind(w) = "delete",
         GoesOn(w, pc, owner, targets, version, status)
  PROVE  Started(w)' /\ RequestKept(w)'
<1>1. /\ txn'[w].time = txn[w].time /\ txn'[w].request = txn[w].request /\ Kind(w)' = Kind(w)
      /\ txn'[w].pc = pc /\ txn'[w].status = status /\ now' = now
  BY SameRequestGoesOn
<1>2. txn[w].request \in Requests /\ txn[w].time \in 1..now /\ pc # "idle"
  BY NextStatement DEF Typed, RequestKept
<1>3. Started(w)'
  BY <1>1, <1>2 DEF Started
<1>4. /\ txn'[w].request \in Requests /\ txn'[w].time \in 1..now'
      /\ txn'[w].pc \in StatementsOf(txn'[w].request)
      /\ txn'[w].status = 204 => Kind(w)' = "delete"
  BY <1>1, <1>2
<1> QED
  BY <1>3, <1>4 DEF RequestKept

\* A statement that only reads, if what it found fits.
LEMMA ReadKept ==
  ASSUME Typed, NEW w \in Workers, Started(w),
         NEW pc \in StatementsOf(txn[w].request), NEW owner, NEW targets, NEW version, NEW status,
         status = 204 => Kind(w) = "delete",
         Reads(w, pc, owner, targets, version, status), Fits(w, pc, owner, targets, version)
  PROVE  StepsWell(w)
<1>1. GoesOn(w, pc, owner, targets, version, status) /\ UNCHANGED tables
  BY DEF Reads
<1>2. Started(w)' /\ RequestKept(w)'
  BY <1>1, GoesOnKept
<1>3. Moves(w) /\ TakesCommitted(w)
  BY <1>1, FrameOfStatement, QuietMoves DEF TakesCommitted, tables
<1>4. /\ Kind(w)' = Kind(w) /\ Ca(w)' = Ca(w) /\ AreaIdOf(w)' = AreaIdOf(w)
      /\ txn'[w].time = txn[w].time /\ overlapped' = overlapped
      /\ competentAuthority' = competentAuthority /\ area' = area /\ activity' = activity
      /\ txn'[w].pc = pc /\ txn'[w].owner = owner /\ txn'[w].targets = targets
      /\ txn'[w].version = version
  BY <1>1, SameRequestGoesOn DEF tables
<1>5. Locks(w, pc, targets)' /\ OwnRows(w, pc, version)'
  <2>1. Locks(w, pc, targets) /\ OwnRows(w, pc, version)
    BY DEF Fits
  <2>2. Locks(w, pc, targets)'
    BY <1>4, <2>1 DEF Locks, CommittedOf, Committed
  <2>3. OwnRows(w, pc, version)'
    BY <1>4, <2>1 DEF OwnRows, CommittedOf, Committed
  <2> QED
    BY <2>2, <2>3
<1>6. OnAuthority(w, pc, targets, version)'
  BY <1>4 DEF Fits, OnAuthority, OlderThan, InUse, CurrentOf, CommittedOf, Committed
<1>7. OnArea(w, pc, owner, targets, version)'
  BY <1>4 DEF Fits, OnArea, OlderThan, InUse, CurrentOf, CommittedOf, Committed
<1>8. WorkerInv(w)'
  BY <1>2, <1>4, <1>5, <1>6, <1>7 DEF WorkerInv, Fits
<1> QED
  BY <1>2, <1>3, <1>8 DEF StepsWell

\* Worker w has locked row i of a table, and ended it if it was current.
RowLocked(old, new, w, i) ==
  /\ DOMAIN new = DOMAIN old /\ i \in Committed(old)
  /\ \A k \in DOMAIN old :
       /\ new[k].fid = old[k].fid /\ new[k].createdAt = old[k].createdAt
       /\ new[k].endedAt = old[k].endedAt /\ new[k].by = old[k].by
       /\ old[k].endedBy = w => new[k].endedBy = w
       /\ new[k].endedBy = w => old[k].endedBy = w \/ k = i
  /\ IsCurrent(old[i]) => new[i].endedBy = w

WithLock(old, i, w, t) == [old EXCEPT ![i] = EndedRow(@, w, t)]

\* It ends one row and leaves the others as they are.
LEMMA LockRow ==
  ASSUME NEW Row, NEW W, NEW Times, TakesMarks(Row, W, Times), NEW old \in Seq(Row),
         NEW i \in Committed(old), NEW w \in W, NEW t \in Times, Unlocked(old[i], w),
         NEW new, new = WithLock(old, i, w, t)
  PROVE  /\ new \in Seq(Row) /\ StepOf(old, new, w, t) /\ Unseen(old, new)
         /\ RowLocked(old, new, w, i)
<1>1. i \in DOMAIN old /\ Len(old) \in Nat
  BY DEF Committed
<1>2. /\ new \in Seq(Row) /\ Len(new) = Len(old) /\ DOMAIN new = DOMAIN old
      /\ RowEnded(old[i], new[i], w) /\ \A j \in DOMAIN old \ {i} : new[j] = old[j]
  BY <1>1, LockedTable DEF WithLock
<1>3. StepOf(old, new, w, t) /\ Unseen(old, new)
  BY <1>1, <1>2, LockIsStep
<1>4. ASSUME NEW k \in DOMAIN old
      PROVE  /\ new[k].fid = old[k].fid /\ new[k].createdAt = old[k].createdAt
             /\ new[k].endedAt = old[k].endedAt /\ new[k].by = old[k].by
             /\ old[k].endedBy = w => new[k].endedBy = w
             /\ new[k].endedBy = w => old[k].endedBy = w \/ k = i
  BY <1>2 DEF RowEnded
<1>5. IsCurrent(old[i]) => new[i].endedBy = w
  BY <1>2 DEF RowEnded
<1> QED
  BY <1>2, <1>3, <1>4, <1>5 DEF RowLocked

\* Its versions are the same.
LEMMA LockedVersions ==
  ASSUME NEW old, NEW new, NEW w, NEW i, RowLocked(old, new, w, i), NEW x
  PROVE  /\ CommittedOf(new, x) = CommittedOf(old, x) /\ CurrentOf(new, x) = CurrentOf(old, x)
         /\ OlderThan(old, x, txn[w].time) => OlderThan(new, x, txn[w].time)
         /\ InUse(old, x) => InUse(new, x)
<1>1. CommittedOf(new, x) = CommittedOf(old, x)
  BY DEF RowLocked, CommittedOf, Committed
<1>2. CurrentOf(new, x) = CurrentOf(old, x)
  BY <1>1 DEF RowLocked, CurrentOf, CommittedOf, Committed, IsCurrent
<1> QED
  BY <1>1, <1>2 DEF OlderThan, InUse, RowLocked, CommittedOf, Committed

\* What an UPDATE of the authority does to the tables.
LEMMA LockAuthorityMoves ==
  ASSUME Typed, NEW w \in Workers, Started(w), NEW i \in Committed(competentAuthority),
         LocksAuthority(w, i)
  PROVE  Moves(w) /\ TakesCommitted(w) /\ RowLocked(competentAuthority, competentAuthority', w, i)
<1> DEFINE n == txn[w].time
<1>1. /\ Locked(w, i) /\ UNCHANGED <<area, activity>>
      /\ Unlocked(competentAuthority[i], w)
      /\ competentAuthority' = [competentAuthority EXCEPT ![i] = EndedRow(@, w, n)]
  BY DEF LocksAuthority
<1>2. n \in Timestamps /\ competentAuthority \in Seq(AuthorityRow)
  BY WorkerTypes DEF Typed
<1> HIDE DEF n
<1>3. /\ competentAuthority' \in Seq(AuthorityRow)
      /\ StepOf(competentAuthority, competentAuthority', w, n)
      /\ Unseen(competentAuthority, competentAuthority')
      /\ RowLocked(competentAuthority, competentAuthority', w, i)
  <2>1. PICK new : new = competentAuthority'
    OBVIOUS
  <2>2. new = WithLock(competentAuthority, i, w, n)
    BY <1>1, <2>1 DEF WithLock
  <2>3. /\ new \in Seq(AuthorityRow) /\ StepOf(competentAuthority, new, w, n)
        /\ Unseen(competentAuthority, new) /\ RowLocked(competentAuthority, new, w, i)
    BY <1>1, <1>2, <2>2, AuthorityRowsTakeMarks, LockRow
  <2> QED
    BY <2>1, <2>3
<1>4. Frame(w)
  BY <1>1, FrameOfStatement DEF Locked
<1>5. Moves(w)
  BY <1>1, <1>3, <1>4, UntouchedTables DEF Moves, n
<1>6. TakesCommitted(w)
  BY <1>1, <1>3 DEF TakesCommitted, RowLocked, Committed
<1> QED
  BY <1>3, <1>5, <1>6

\* What an UPDATE of the area does.
LEMMA LockAreaMoves ==
  ASSUME Typed, NEW w \in Workers, Started(w), NEW i \in Committed(area), LocksArea(w, i)
  PROVE  /\ Moves(w) /\ TakesCommitted(w) /\ RowLocked(area, area', w, i)
<1> DEFINE n == txn[w].time
<1>1. /\ Locked(w, i) /\ UNCHANGED <<competentAuthority, activity>>
      /\ Unlocked(area[i], w) /\ area' = [area EXCEPT ![i] = EndedRow(@, w, n)]
  BY DEF LocksArea
<1>2. n \in Timestamps /\ area \in Seq(AreaRow)
  BY WorkerTypes DEF Typed
<1>3. ASSUME NEW k \in DOMAIN area
      PROVE  area'[k].competentAuthority = area[k].competentAuthority
  <2>1. area[k] \in AreaRow
    BY <1>2
  <2>2. area'[k] = area[k] \/ area'[k] = EndedRow(area[k], w, n)
    BY <1>1
  <2> QED
    BY <1>2, <2>1, <2>2, AreaRowsTakeMarks
<1> HIDE DEF n
<1>4. /\ area' \in Seq(AreaRow) /\ StepOf(area, area', w, n) /\ Unseen(area, area')
      /\ RowLocked(area, area', w, i)
  <2>1. PICK new : new = area'
    OBVIOUS
  <2>2. new = WithLock(area, i, w, n)
    BY <1>1, <2>1 DEF WithLock
  <2>3. /\ new \in Seq(AreaRow) /\ StepOf(area, new, w, n) /\ Unseen(area, new)
        /\ RowLocked(area, new, w, i)
    BY <1>1, <1>2, <2>2, AreaRowsTakeMarks, LockRow
  <2> QED
    BY <2>1, <2>3
<1>5. Frame(w)
  BY <1>1, FrameOfStatement DEF Locked
<1>6. Moves(w)
  BY <1>1, <1>3, <1>4, <1>5, UntouchedTables DEF Moves, n
<1>7. TakesCommitted(w)
  BY <1>1, <1>4 DEF TakesCommitted, RowLocked, Committed
<1> QED
  BY <1>4, <1>6, <1>7

\* The request and the history stay the same.
SameAsBefore(w) ==
  /\ Kind(w)' = Kind(w) /\ Ca(w)' = Ca(w) /\ AreaIdOf(w)' = AreaIdOf(w)
  /\ txn'[w].time = txn[w].time /\ overlapped' = overlapped

\* A lock on a version of the authority fits, ...
LEMMA LockAuthorityFits ==
  ASSUME NEW w, NEW i, NEW o, NEW t, NEW v, NEW u, u = t \ {i},
         Fits(w, "lock authority", o, t, v), i \in t, SameAsBefore(w),
         RowLocked(competentAuthority, competentAuthority', w, i),
         area' = area, activity' = activity
  PROVE  Fits(w, "lock authority", o, u, v)'
<1>1. /\ Locks(w, "lock authority", t) /\ OwnRows(w, "lock authority", v)
      /\ OnAuthority(w, "lock authority", t, v) /\ OnArea(w, "lock authority", o, t, v)
  BY DEF Fits
<1>2. /\ DOMAIN competentAuthority' = DOMAIN competentAuthority
      /\ \A k \in DOMAIN competentAuthority :
           /\ competentAuthority'[k].fid = competentAuthority[k].fid
           /\ competentAuthority'[k].createdAt = competentAuthority[k].createdAt
           /\ competentAuthority'[k].by = competentAuthority[k].by
           /\ competentAuthority[k].endedBy = w => competentAuthority'[k].endedBy = w
           /\ competentAuthority'[k].endedBy = w => competentAuthority[k].endedBy = w \/ k = i
      /\ IsCurrent(competentAuthority[i]) => competentAuthority'[i].endedBy = w
  BY DEF RowLocked
<1>3. /\ CommittedOf(competentAuthority', Ca(w)) = CommittedOf(competentAuthority, Ca(w))
      /\ CurrentOf(competentAuthority', Ca(w)) = CurrentOf(competentAuthority, Ca(w))
      /\ OlderThan(competentAuthority, Ca(w), txn[w].time)
           => OlderThan(competentAuthority', Ca(w), txn[w].time)
      /\ InUse(competentAuthority, Ca(w)) => InUse(competentAuthority', Ca(w))
  BY LockedVersions
<1>4. t \subseteq CommittedOf(competentAuthority, Ca(w))
  BY <1>1 DEF Locks
<1>5. i \in CommittedOf(competentAuthority, Ca(w)) /\ competentAuthority[i].fid = Ca(w)
  BY <1>4 DEF CommittedOf
<1>6. Locks(w, "lock authority", u)'
  <2>1. \A k \in DOMAIN competentAuthority' :
          competentAuthority'[k].endedBy = w => competentAuthority'[k].fid = Ca(w)
    BY <1>1, <1>2, <1>5 DEF Locks
  <2>2. u \subseteq CommittedOf(competentAuthority', Ca(w))
    BY <1>3, <1>4
  <2>3. CommittedOf(competentAuthority', Ca(w)) = CommittedOf(competentAuthority, Ca(w))'
    BY DEF SameAsBefore, CommittedOf, Committed
  <2> QED
    BY <1>1, <2>1, <2>2, <2>3 DEF Locks, SameAsBefore, CommittedOf, Committed
<1>7. OwnRows(w, "lock authority", v)'
  BY <1>1, <1>2 DEF OwnRows, SameAsBefore, CommittedOf, Committed
<1>8. OnAuthority(w, "lock authority", u, v)'
  <2> SUFFICES ASSUME Ca(w) \in CompetentAuthorities \ overlapped
               PROVE  OnAuthority(w, "lock authority", u, v)'
    BY DEF OnAuthority, SameAsBefore
  <2>1. /\ OlderThan(competentAuthority, Ca(w), txn[w].time)
        /\ \A k \in CurrentOf(competentAuthority, Ca(w)) :
             k \in t \/ competentAuthority[k].endedBy = w
        /\ Kind(w) = "post" => InUse(competentAuthority, Ca(w))
    BY <1>1 DEF OnAuthority
  <2>2. \A k \in CurrentOf(competentAuthority, Ca(w)) :
          k \in u \/ competentAuthority'[k].endedBy = w
    BY <1>2, <2>1 DEF CurrentOf, CommittedOf, Committed
  <2>3. /\ OlderThan(competentAuthority', Ca(w), txn[w].time)
        /\ \A k \in CurrentOf(competentAuthority', Ca(w)) :
             k \in u \/ competentAuthority'[k].endedBy = w
        /\ Kind(w) = "post" => InUse(competentAuthority', Ca(w))
    BY <1>3, <2>1, <2>2
  <2> QED
    BY <2>3 DEF OnAuthority, SameAsBefore, WithAuthority, OlderThan, InUse, CurrentOf,
                CommittedOf, Committed
<1>9. OnArea(w, "lock authority", o, u, v)'
  BY <1>1 DEF OnArea, SameAsBefore, OlderThan, InUse, CurrentOf, CommittedOf, Committed
<1> QED
  BY <1>6, <1>7, <1>8, <1>9 DEF Fits

\* ... and so does one on a version of the area.
LEMMA LockAreaFits ==
  ASSUME NEW w, NEW i, NEW o, NEW t, NEW v, NEW u, u = t \ {i},
         Fits(w, "lock area", o, t, v), i \in t, SameAsBefore(w), Kind(w) # "report",
         RowLocked(area, area', w, i),
         \A k \in DOMAIN area : area'[k].competentAuthority = area[k].competentAuthority,
         \A k \in Committed(activity) : activity[k].area \in Committed(area),
         competentAuthority' = competentAuthority, activity' = activity
  PROVE  Fits(w, "lock area", o, u, v)'
<1>1. /\ Locks(w, "lock area", t) /\ OwnRows(w, "lock area", v)
      /\ OnAuthority(w, "lock area", t, v) /\ OnArea(w, "lock area", o, t, v)
  BY DEF Fits
<1>2. /\ DOMAIN area' = DOMAIN area
      /\ \A k \in DOMAIN area :
           /\ area'[k].fid = area[k].fid /\ area'[k].createdAt = area[k].createdAt
           /\ area'[k].by = area[k].by
           /\ area[k].endedBy = w => area'[k].endedBy = w
           /\ area'[k].endedBy = w => area[k].endedBy = w \/ k = i
      /\ IsCurrent(area[i]) => area'[i].endedBy = w
  BY DEF RowLocked
<1>3. /\ CommittedOf(area', AreaIdOf(w)) = CommittedOf(area, AreaIdOf(w))
      /\ CurrentOf(area', AreaIdOf(w)) = CurrentOf(area, AreaIdOf(w))
      /\ OlderThan(area, AreaIdOf(w), txn[w].time) => OlderThan(area', AreaIdOf(w), txn[w].time)
      /\ InUse(area, AreaIdOf(w)) => InUse(area', AreaIdOf(w))
  BY LockedVersions
<1>4. t \subseteq CommittedOf(area, AreaIdOf(w))
  BY <1>1 DEF Locks
<1>5. i \in CommittedOf(area, AreaIdOf(w)) /\ area[i].fid = AreaIdOf(w)
  BY <1>4 DEF CommittedOf
<1>6. Locks(w, "lock area", u)'
  <2>1. \A k \in DOMAIN area' : area'[k].endedBy = w => area'[k].fid = AreaIdOf(w)
    BY <1>1, <1>2, <1>5 DEF Locks
  <2>2. u \subseteq CommittedOf(area', AreaIdOf(w))
    BY <1>3, <1>4
  <2> QED
    BY <1>1, <2>1, <2>2 DEF Locks, SameAsBefore, CommittedOf, Committed
<1>7. OwnRows(w, "lock area", v)'
  BY <1>1, <1>2 DEF OwnRows, SameAsBefore, CommittedOf, Committed
<1>8. OnAuthority(w, "lock area", u, v)'
  BY <1>1 DEF OnAuthority, SameAsBefore, WithAuthority, OlderThan, InUse, CurrentOf,
              CommittedOf, Committed
<1>9. OnArea(w, "lock area", o, u, v)'
  <2> DEFINE x == AreaIdOf(w)
  <2> SUFFICES ASSUME x \notin overlapped
               PROVE  OnArea(w, "lock area", o, u, v)'
    BY DEF OnArea, SameAsBefore
  <2>1. /\ OlderThan(area, x, txn[w].time)
        /\ \A k \in Committed(activity) :
             area[activity[k].area].fid = x => activity[k].createdAt < txn[w].time
        /\ \A k \in CurrentOf(area, x) : k \in t \/ area[k].endedBy = w
        /\ Kind(w) = "post" => InUse(area, x)
        /\ \A m \in CommittedOf(area, x), k \in DOMAIN area : area[k].by = w => m < k
    BY <1>1 DEF OnArea
  <2>2. \A k \in CurrentOf(area, x) : k \in u \/ area'[k].endedBy = w
    BY <1>2, <2>1 DEF CurrentOf, CommittedOf, Committed
  <2>3. \A k \in Committed(activity) :
          area'[activity[k].area].fid = x => activity[k].createdAt < txn[w].time
    BY <1>2, <2>1 DEF Committed
  <2>4. /\ OlderThan(area', x, txn[w].time)
        /\ \A k \in CurrentOf(area', x) : k \in u \/ area'[k].endedBy = w
        /\ Kind(w) = "post" => InUse(area', x)
        /\ \A m \in CommittedOf(area', x), k \in DOMAIN area' : area'[k].by = w => m < k
    BY <1>2, <1>3, <2>1, <2>2
  <2> QED
    BY <2>3, <2>4 DEF OnArea, SameAsBefore, OlderThan, InUse, CurrentOf, CommittedOf, Committed
<1> QED
  BY <1>6, <1>7, <1>8, <1>9 DEF Fits

\* A worker that goes on as its statement fits.
LEMMA FitsGoesOn ==
  ASSUME Typed, NEW w \in Workers, Started(w),
         NEW pc \in StatementsOf(txn[w].request), NEW owner, NEW targets, NEW version, NEW status,
         status = 204 => Kind(w) = "delete",
         GoesOn(w, pc, owner, targets, version, status), Fits(w, pc, owner, targets, version)',
         Moves(w), TakesCommitted(w)
  PROVE  StepsWell(w)
<1>1. Started(w)' /\ RequestKept(w)'
  BY GoesOnKept
<1>2. /\ txn'[w].pc = pc /\ txn'[w].owner = owner /\ txn'[w].targets = targets
      /\ txn'[w].version = version
  BY SameRequestGoesOn
<1>3. WorkerInv(w)'
  BY <1>1, <1>2 DEF WorkerInv
<1> QED
  BY <1>1, <1>3 DEF StepsWell

\* The UPDATE of the authority locks a row.
LEMMA LockAuthorityKept ==
  ASSUME Typed, NEW w \in Workers, WorkerInv(w), txn[w].pc = "lock authority",
         NEW i \in txn[w].targets, LocksAuthority(w, i)
  PROVE  StepsWell(w)
<1>1. PICK pc, o, t, v, s, u :
        /\ pc = "lock authority" /\ pc = txn[w].pc
        /\ o = txn[w].owner /\ t = txn[w].targets /\ v = txn[w].version /\ s = txn[w].status
        /\ u = t \ {i}
  OBVIOUS
<1>2. Started(w)
  BY DEF Started
<1>3. Fits(w, pc, o, t, v)
  BY <1>1, <1>2 DEF WorkerInv
<1>4. i \in Committed(competentAuthority)
  BY <1>1, <1>3 DEF Fits, Locks, CommittedOf
<1>5. GoesOn(w, pc, o, u, v, s) /\ area' = area /\ activity' = activity
  BY <1>1 DEF LocksAuthority, Locked
<1>6. Moves(w) /\ TakesCommitted(w) /\ RowLocked(competentAuthority, competentAuthority', w, i)
  BY <1>2, <1>4, LockAuthorityMoves
<1>7. SameAsBefore(w)
  BY <1>5, SameRequestGoesOn DEF SameAsBefore
<1>8. Fits(w, pc, o, u, v)'
  BY <1>1, <1>3, <1>5, <1>6, <1>7, LockAuthorityFits
<1>9. pc \in StatementsOf(txn[w].request) /\ (s = 204 => Kind(w) = "delete")
  BY <1>1, <1>2 DEF Typed, RequestKept
<1> QED
  BY <1>2, <1>5, <1>6, <1>8, <1>9, FitsGoesOn

\* The UPDATE of the area locks a row.
LEMMA LockAreaKept ==
  ASSUME Typed, NEW w \in Workers, WorkerInv(w), txn[w].pc = "lock area",
         NEW i \in txn[w].targets, LocksArea(w, i),
         \A k \in Committed(activity) : activity[k].area \in Committed(area)
  PROVE  StepsWell(w)
<1>1. PICK pc, o, t, v, s, u :
        /\ pc = "lock area" /\ pc = txn[w].pc
        /\ o = txn[w].owner /\ t = txn[w].targets /\ v = txn[w].version /\ s = txn[w].status
        /\ u = t \ {i}
  OBVIOUS
<1>2. Started(w)
  BY DEF Started
<1>3. Fits(w, pc, o, t, v)
  BY <1>1, <1>2 DEF WorkerInv
<1>4. i \in Committed(area)
  BY <1>1, <1>3 DEF Fits, Locks, CommittedOf
<1>5. /\ GoesOn(w, pc, o, u, v, s) /\ competentAuthority' = competentAuthority
      /\ activity' = activity
  BY <1>1 DEF LocksArea, Locked
<1>6. Moves(w) /\ TakesCommitted(w) /\ RowLocked(area, area', w, i)
  BY <1>2, <1>4, LockAreaMoves
<1>7. \A k \in DOMAIN area : area'[k].competentAuthority = area[k].competentAuthority
  BY <1>6 DEF Moves
<1>8. SameAsBefore(w)
  BY <1>5, SameRequestGoesOn DEF SameAsBefore
<1>9. Kind(w) # "report"
  BY <1>2, NextStatement
<1>10. Fits(w, pc, o, u, v)'
  BY <1>1, <1>3, <1>5, <1>6, <1>7, <1>8, <1>9, LockAreaFits
<1>11. pc \in StatementsOf(txn[w].request) /\ (s = 204 => Kind(w) = "delete")
  BY <1>1, <1>2 DEF Typed, RequestKept
<1> QED
  BY <1>2, <1>5, <1>6, <1>10, <1>11, FitsGoesOn

\* Worker w has inserted a row.
RowInserted(old, new, w, row) ==
  /\ DOMAIN new = DOMAIN old \cup {Len(old) + 1} /\ Len(old) + 1 \notin DOMAIN old
  /\ new[Len(old) + 1] = row /\ \A i \in DOMAIN old : new[i] = old[i]
  /\ \A i \in DOMAIN old : i < Len(old) + 1
  /\ row.by = w /\ row.endedBy = "nobody"

\* It adds one row and leaves the others as they are.
LEMMA InsertRow ==
  ASSUME NEW Row, NEW old \in Seq(Row), NEW row \in Row,
         NEW w, w \notin {"committed", "aborted", "nobody"}, NEW t,
         row.by = w, row.endedBy = "nobody", row.endedAt = NotEnded, row.createdAt = t,
         NEW new, new = Append(old, row)
  PROVE  /\ new \in Seq(Row) /\ StepOf(old, new, w, t) /\ Unseen(old, new)
         /\ RowInserted(old, new, w, row)
<1>1. /\ new \in Seq(Row) /\ StepOf(old, new, w, t) /\ Unseen(old, new)
      /\ DOMAIN new = DOMAIN old \cup {Len(old) + 1} /\ Len(old) + 1 \notin DOMAIN old
      /\ new[Len(old) + 1] = row /\ \A i \in DOMAIN old : new[i] = old[i]
  BY AppendStep
<1>2. DOMAIN old = 1..Len(old) /\ Len(old) \in Nat
  OBVIOUS
<1>3. \A i \in DOMAIN old : i < Len(old) + 1
  BY <1>2
<1> QED
  BY <1>1, <1>3 DEF RowInserted

\* Nobody sees it: the versions are the same.
LEMMA InsertedVersions ==
  ASSUME NEW old, NEW new, NEW w, w \notin {"committed", "aborted", "nobody"}, NEW row,
         RowInserted(old, new, w, row), NEW x
  PROVE  /\ CommittedOf(new, x) = CommittedOf(old, x) /\ CurrentOf(new, x) = CurrentOf(old, x)
         /\ OlderThan(old, x, txn[w].time) => OlderThan(new, x, txn[w].time)
         /\ InUse(old, x) => InUse(new, x)
         /\ \A i \in CommittedOf(old, x) : i < Len(old) + 1
<1>1. CommittedOf(new, x) = CommittedOf(old, x)
  BY DEF RowInserted, CommittedOf, Committed
<1>2. CurrentOf(new, x) = CurrentOf(old, x)
  BY <1>1 DEF RowInserted, CurrentOf, CommittedOf, Committed
<1> QED
  BY <1>1, <1>2 DEF OlderThan, InUse, RowInserted, CommittedOf, Committed

\* What the INSERT of an authority does to the tables.
LEMMA InsertAuthorityMoves ==
  ASSUME Typed, NEW w \in Workers, Started(w), Ca(w) \in CompetentAuthorities, InsertsAuthority(w)
  PROVE  /\ Moves(w) /\ TakesCommitted(w)
         /\ RowInserted(competentAuthority, competentAuthority', w, NewAuthority(w))
<1> DEFINE n == txn[w].time
           row == NewAuthority(w)
<1>1. competentAuthority' = Append(competentAuthority, row) /\ UNCHANGED <<area, activity>>
  BY DEF InsertsAuthority
<1>2. /\ n \in Timestamps /\ competentAuthority \in Seq(AuthorityRow)
      /\ w \notin {"committed", "aborted", "nobody"} /\ MaxTime \in Nat
  BY WorkerTypes DEF Typed
<1>3. /\ row.by = w /\ row.endedBy = "nobody" /\ row.endedAt = NotEnded /\ row.createdAt = n
      /\ row \in AuthorityRow
  <2>1. 0 \in 0..MaxTime
    BY <1>2
  <2> QED
    BY <1>2, <2>1 DEF NewAuthority, AuthorityRow, Writers, Markers, NotEnded
<1> HIDE DEF n, row
<1>4. /\ competentAuthority' \in Seq(AuthorityRow)
      /\ StepOf(competentAuthority, competentAuthority', w, n)
      /\ Unseen(competentAuthority, competentAuthority')
      /\ RowInserted(competentAuthority, competentAuthority', w, row)
  <2>1. PICK new : new = competentAuthority'
    OBVIOUS
  <2>2. /\ new \in Seq(AuthorityRow) /\ StepOf(competentAuthority, new, w, n)
        /\ Unseen(competentAuthority, new) /\ RowInserted(competentAuthority, new, w, row)
    BY <1>1, <1>2, <1>3, <2>1, InsertRow
  <2> QED
    BY <2>1, <2>2
<1>5. Frame(w)
  BY FrameOfStatement DEF InsertsAuthority
<1>6. Moves(w)
  BY <1>1, <1>4, <1>5, UntouchedTables DEF Moves, n
<1>7. TakesCommitted(w)
  BY <1>1, <1>4 DEF TakesCommitted, RowInserted
<1> QED
  BY <1>4, <1>6, <1>7 DEF row

\* What the INSERT of an area does.
LEMMA InsertAreaMoves ==
  ASSUME Typed, NEW w \in Workers, Started(w), txn[w].version \in Nat \ {0}, InsertsArea(w)
  PROVE  Moves(w) /\ TakesCommitted(w) /\ RowInserted(area, area', w, NewArea(w))
<1> DEFINE n == txn[w].time
           row == NewArea(w)
<1>1. area' = Append(area, row) /\ UNCHANGED <<competentAuthority, activity>>
  BY DEF InsertsArea
<1>2. /\ n \in Timestamps /\ area \in Seq(AreaRow) /\ AreaIdOf(w) \in AllAreaIds
      /\ w \notin {"committed", "aborted", "nobody"} /\ MaxTime \in Nat
  BY WorkerTypes, RequestIds DEF Typed
<1>3. /\ row.by = w /\ row.endedBy = "nobody" /\ row.endedAt = NotEnded /\ row.createdAt = n
      /\ row \in AreaRow
  <2>1. 0 \in 0..MaxTime
    BY <1>2
  <2> QED
    BY <1>2, <2>1 DEF NewArea, AreaRow, Writers, Markers, NotEnded
<1> HIDE DEF n, row
<1>4. /\ area' \in Seq(AreaRow) /\ StepOf(area, area', w, n) /\ Unseen(area, area')
      /\ RowInserted(area, area', w, row)
  <2>1. PICK new : new = area'
    OBVIOUS
  <2>2. /\ new \in Seq(AreaRow) /\ StepOf(area, new, w, n)
        /\ Unseen(area, new) /\ RowInserted(area, new, w, row)
    BY <1>1, <1>2, <1>3, <2>1, InsertRow
  <2> QED
    BY <2>1, <2>2
<1>5. Frame(w)
  BY FrameOfStatement DEF InsertsArea
<1>6. \A i \in DOMAIN area : area'[i].competentAuthority = area[i].competentAuthority
  BY <1>4 DEF RowInserted
<1>7. Moves(w)
  BY <1>1, <1>4, <1>5, <1>6, UntouchedTables DEF Moves, n
<1>8. TakesCommitted(w)
  BY <1>1, <1>4 DEF TakesCommitted, RowInserted
<1> QED
  BY <1>4, <1>7, <1>8 DEF row

\* What the INSERT of an activity does.
LEMMA InsertReportMoves ==
  ASSUME Typed, NEW w \in Workers, Started(w), txn[w].version \in Nat \ {0}, InsertsReport(w)
  PROVE  Moves(w) /\ TakesCommitted(w) /\ RowInserted(activity, activity', w, NewReport(w))
<1> DEFINE n == txn[w].time
           row == NewReport(w)
<1>1. activity' = Append(activity, row) /\ UNCHANGED <<competentAuthority, area>>
  BY DEF InsertsReport
<1>2. /\ n \in Timestamps /\ activity \in Seq(ReportRow)
      /\ w \notin {"committed", "aborted", "nobody"} /\ MaxTime \in Nat
  BY WorkerTypes DEF Typed
<1>3. /\ row.by = w /\ row.endedBy = "nobody" /\ row.endedAt = NotEnded /\ row.createdAt = n
      /\ row \in ReportRow
  <2>1. 0 \in 0..MaxTime
    BY <1>2
  <2> QED
    BY <1>2, <2>1 DEF NewReport, ReportRow, Writers, Markers, NotEnded
<1> HIDE DEF n, row
<1>4. /\ activity' \in Seq(ReportRow) /\ StepOf(activity, activity', w, n)
      /\ Unseen(activity, activity') /\ RowInserted(activity, activity', w, row)
  <2>1. PICK new : new = activity'
    OBVIOUS
  <2>2. /\ new \in Seq(ReportRow) /\ StepOf(activity, new, w, n)
        /\ Unseen(activity, new) /\ RowInserted(activity, new, w, row)
    BY <1>1, <1>2, <1>3, <2>1, InsertRow
  <2> QED
    BY <2>1, <2>2
<1>5. Frame(w)
  BY FrameOfStatement DEF InsertsReport
<1>6. \A i \in DOMAIN activity : activity'[i].area = activity[i].area
  BY <1>4 DEF RowInserted
<1>7. Moves(w)
  BY <1>1, <1>4, <1>5, <1>6, UntouchedTables DEF Moves, n
<1>8. TakesCommitted(w)
  BY <1>1 DEF TakesCommitted
<1> QED
  BY <1>4, <1>7, <1>8 DEF row

\* Two timestamps one of which is less.
LEMMA LessDiffers ==
  ASSUME NEW m \in Nat, NEW n \in Nat, m < n
  PROVE  m # n
OBVIOUS

\* The version of the authority that an area is announced by.
LEMMA InsertAuthorityFits ==
  ASSUME Typed, Marked, NEW w \in Workers, Started(w), Kind(w) = "post",
         NEW pc \in {"any authority", "lock authority"}, NEW o, NEW t, NEW v,
         Fits(w, pc, o, t, v),
         pc = "any authority" => VisibleTo(w, competentAuthority, Ca(w)) = {},
         pc = "lock authority" => t = {},
         SameAsBefore(w), area' = area, activity' = activity,
         RowInserted(competentAuthority, competentAuthority', w, NewAuthority(w)),
         NEW next, next = AfterAuthority(w), NEW n, n = Len(competentAuthority) + 1
  PROVE  Fits(w, next, o, t, n)'
<1>1. /\ Locks(w, pc, t) /\ OwnRows(w, pc, v) /\ OnAuthority(w, pc, t, v) /\ OnArea(w, pc, o, t, v)
  BY DEF Fits
<1>2. /\ next \in {"insert", "find area"} /\ next \in WithAuthority
      /\ next = "insert" => txn[w].request.areaId = NoId
  BY DEF AfterAuthority, WithAuthority
<1>3. /\ w \notin {"committed", "aborted", "nobody"}
      /\ DOMAIN competentAuthority' = DOMAIN competentAuthority \cup {n}
      /\ competentAuthority'[n] = NewAuthority(w)
      /\ \A i \in DOMAIN competentAuthority : competentAuthority'[i] = competentAuthority[i]
  BY WorkerTypes DEF RowInserted
<1>4. /\ NewAuthority(w).fid = Ca(w) /\ NewAuthority(w).createdAt = txn[w].time
      /\ NewAuthority(w).by = w /\ NewAuthority(w).endedBy = "nobody"
  BY DEF NewAuthority
<1>5. /\ CommittedOf(competentAuthority', Ca(w)) = CommittedOf(competentAuthority, Ca(w))
      /\ CurrentOf(competentAuthority', Ca(w)) = CurrentOf(competentAuthority, Ca(w))
      /\ OlderThan(competentAuthority, Ca(w), txn[w].time)
           => OlderThan(competentAuthority', Ca(w), txn[w].time)
      /\ InUse(competentAuthority, Ca(w)) => InUse(competentAuthority', Ca(w))
      /\ \A i \in CommittedOf(competentAuthority, Ca(w)) : i < n
  BY <1>3, InsertedVersions
<1>6. /\ \A i \in DOMAIN competentAuthority : competentAuthority[i].by # w
      /\ \A i \in DOMAIN area : area[i].by # w /\ area[i].endedBy # w
      /\ \A i \in DOMAIN activity : activity[i].by # w
      /\ \A i \in DOMAIN competentAuthority :
           competentAuthority[i].endedBy = w => competentAuthority[i].fid = Ca(w)
  BY <1>1 DEF Locks, OwnRows, WithAuthority
<1>7. Locks(w, next, t)'
  <2>1. \A i \in DOMAIN competentAuthority' :
          competentAuthority'[i].endedBy = w => competentAuthority'[i].fid = Ca(w)
    BY <1>3, <1>4, <1>6
  <2> QED
    BY <1>2, <1>6, <2>1 DEF Locks, SameAsBefore
<1>8. OwnRows(w, next, n)'
  <2>1. \A i \in DOMAIN competentAuthority' : competentAuthority'[i].by = w =>
          /\ i = n /\ competentAuthority'[i].fid = Ca(w)
          /\ competentAuthority'[i].createdAt = txn[w].time
    BY <1>3, <1>4, <1>6
  <2>2. n \in DOMAIN competentAuthority' /\ competentAuthority'[n].by = w
    BY <1>3, <1>4
  <2> QED
    BY <1>2, <1>6, <2>1, <2>2 DEF OwnRows, SameAsBefore
<1>9. OnAuthority(w, next, t, n)'
  <2> SUFFICES ASSUME Ca(w) \in CompetentAuthorities \ overlapped
               PROVE  OnAuthority(w, next, t, n)'
    BY DEF OnAuthority, SameAsBefore
  <2>1. /\ OlderThan(competentAuthority, Ca(w), txn[w].time)
        /\ \A i \in CurrentOf(competentAuthority, Ca(w)) : competentAuthority[i].endedBy = w
        /\ InUse(competentAuthority, Ca(w))
    <3>1. CASE pc = "any authority"
      <4>1. CommittedOf(competentAuthority, Ca(w)) = {}
        BY <3>1, Finds
      <4> QED
        BY <1>1, <3>1, <4>1 DEF OnAuthority, InUse, CurrentOf
    <3>2. CASE pc = "lock authority"
      BY <1>1, <3>2 DEF OnAuthority
    <3> QED
      BY <3>1, <3>2
  <2>2. /\ OlderThan(competentAuthority', Ca(w), txn[w].time)
        /\ \A i \in CurrentOf(competentAuthority', Ca(w)) : competentAuthority'[i].endedBy = w
        /\ InUse(competentAuthority', Ca(w))
        /\ \A i \in CommittedOf(competentAuthority', Ca(w)) : i < n
    BY <1>3, <1>5, <2>1 DEF CurrentOf, CommittedOf, Committed
  <2> QED
    BY <1>2, <2>2 DEF OnAuthority, SameAsBefore, OlderThan, InUse, CurrentOf, CommittedOf, Committed
<1>10. OnArea(w, next, o, t, n)'
  <2> DEFINE x == AreaIdOf(w)
  <2> SUFFICES ASSUME x \notin overlapped
               PROVE  OnArea(w, next, o, t, n)'
    BY DEF OnArea, SameAsBefore
  <2>1. /\ OlderThan(area, x, txn[w].time)
        /\ \A i \in Committed(activity) :
             area[activity[i].area].fid = x => activity[i].createdAt < txn[w].time
    BY <1>1 DEF OnArea
  <2>2. next = "insert" => CommittedOf(area, x) = {}
    <3> SUFFICES ASSUME txn[w].request.areaId = NoId, NEW i \in CommittedOf(area, x)
                 PROVE  FALSE
      BY <1>2
    <3>1. x = txn[w].time /\ x \notin AreaIds /\ x \in Nat
      BY RequestIds, WorkerTypes
    <3>2. /\ i \in DOMAIN area /\ area[i].fid = x /\ area[i].createdAt < x
          /\ area[i].createdAt \in Nat
      BY <2>1, <3>1, RowTypes DEF CommittedOf, Committed, OlderThan
    <3>3. area[i].createdAt = x
      BY <3>1, <3>2 DEF Marked
    <3> QED
      BY <3>1, <3>2, <3>3, LessDiffers
  <2>3. next = "insert" => InUse(area, x) /\ CurrentOf(area, x) = {}
    BY <2>2 DEF InUse, CurrentOf
  <2> QED
    BY <1>2, <1>6, <2>1, <2>3 DEF OnArea, SameAsBefore, OlderThan, InUse, CurrentOf, CommittedOf,
                                 Committed
<1> QED
  BY <1>7, <1>8, <1>9, <1>10 DEF Fits

\* The version of the area.
LEMMA InsertAreaFits ==
  ASSUME Typed, NEW w \in Workers, Started(w), Kind(w) = "post",
         NEW o, NEW t, NEW v, Fits(w, "insert", o, t, v), v = txn[w].version,
         SameAsBefore(w), competentAuthority' = competentAuthority, activity' = activity,
         \A k \in Committed(activity) : activity[k].area \in Committed(area),
         RowInserted(area, area', w, NewArea(w))
  PROVE  Fits(w, "answered", o, t, v)'
<1> DEFINE n == Len(area) + 1
           x == AreaIdOf(w)
<1>1. /\ Locks(w, "insert", t) /\ OwnRows(w, "insert", v)
      /\ OnAuthority(w, "insert", t, v) /\ OnArea(w, "insert", o, t, v)
  BY DEF Fits
<1>2. /\ w \notin {"committed", "aborted", "nobody"}
      /\ DOMAIN area' = DOMAIN area \cup {n} /\ area'[n] = NewArea(w)
      /\ \A i \in DOMAIN area : area'[i] = area[i]
  BY WorkerTypes DEF RowInserted
<1>3. /\ NewArea(w).fid = x /\ NewArea(w).createdAt = txn[w].time
      /\ NewArea(w).by = w /\ NewArea(w).endedBy = "nobody"
      /\ NewArea(w).competentAuthority = v
  BY DEF NewArea
<1>4. /\ CommittedOf(area', x) = CommittedOf(area, x)
      /\ CurrentOf(area', x) = CurrentOf(area, x)
      /\ OlderThan(area, x, txn[w].time) => OlderThan(area', x, txn[w].time)
      /\ InUse(area, x) => InUse(area', x)
      /\ \A i \in CommittedOf(area, x) : i < n
  BY <1>2, InsertedVersions
<1>5. \A i \in DOMAIN area : area[i].by # w
  BY <1>1 DEF OwnRows
<1> HIDE DEF n
<1>6. Locks(w, "answered", t)'
  <2>1. \A i \in DOMAIN area' : area'[i].endedBy = w => area'[i].fid = x
    BY <1>1, <1>2, <1>3 DEF Locks
  <2> QED
    BY <1>1, <2>1 DEF Locks, SameAsBefore, WithAuthority
<1>7. OwnRows(w, "answered", v)'
  <2>1. \A i \in DOMAIN area' : area'[i].by = w =>
          /\ i = n /\ area'[i].fid = x /\ area'[i].createdAt = txn[w].time
          /\ area'[i].competentAuthority = v
    BY <1>2, <1>3, <1>5
  <2> QED
    BY <1>1, <2>1 DEF OwnRows, SameAsBefore, WithAuthority
<1>8. OnAuthority(w, "answered", t, v)'
  BY <1>1 DEF OnAuthority, SameAsBefore, WithAuthority, OlderThan, InUse, CurrentOf,
              CommittedOf, Committed
<1>9. OnArea(w, "answered", o, t, v)'
  <2> SUFFICES ASSUME x \notin overlapped
               PROVE  OnArea(w, "answered", o, t, v)'
    BY DEF OnArea, SameAsBefore
  <2>1. /\ OlderThan(area, x, txn[w].time)
        /\ \A i \in Committed(activity) :
             area[activity[i].area].fid = x => activity[i].createdAt < txn[w].time
        /\ \A i \in CurrentOf(area, x) : area[i].endedBy = w
        /\ InUse(area, x)
    BY <1>1 DEF OnArea
  <2>2. \A i \in Committed(activity) :
          area'[activity[i].area].fid = x => activity[i].createdAt < txn[w].time
    BY <1>2, <2>1 DEF Committed
  <2>3. \A i \in CurrentOf(area', x) : area'[i].endedBy = w
    BY <1>2, <1>4, <2>1 DEF CurrentOf, CommittedOf, Committed
  <2>4. \A k \in DOMAIN area' : area'[k].by = w => k = n
    BY <1>2, <1>5
  <2>5. /\ OlderThan(area', x, txn[w].time) /\ InUse(area', x)
        /\ \A i \in CommittedOf(area', x), k \in DOMAIN area' : area'[k].by = w => i < k
    BY <1>4, <2>1, <2>4
  <2> QED
    BY <2>2, <2>3, <2>5 DEF OnArea, SameAsBefore, OlderThan, InUse, CurrentOf, CommittedOf, Committed
<1> QED
  BY <1>6, <1>7, <1>8, <1>9 DEF Fits

\* The activity.
LEMMA InsertReportFits ==
  ASSUME Typed, NEW w \in Workers, Started(w), Kind(w) = "report",
         NEW o, NEW t, NEW v, Fits(w, "report", o, t, v), v = txn[w].version,
         SameAsBefore(w), competentAuthority' = competentAuthority, area' = area,
         RowInserted(activity, activity', w, NewReport(w))
  PROVE  Fits(w, "answered", o, t, v)'
<1> DEFINE n == Len(activity) + 1
<1>1. /\ Locks(w, "report", t) /\ OwnRows(w, "report", v)
      /\ OnAuthority(w, "report", t, v) /\ OnArea(w, "report", o, t, v)
  BY DEF Fits
<1>2. /\ w \notin {"committed", "aborted", "nobody"}
      /\ DOMAIN activity' = DOMAIN activity \cup {n} /\ activity'[n] = NewReport(w)
      /\ \A i \in DOMAIN activity : activity'[i] = activity[i]
  BY WorkerTypes DEF RowInserted
<1>3. /\ NewReport(w).createdAt = txn[w].time /\ NewReport(w).by = w /\ NewReport(w).area = v
  BY DEF NewReport
<1>4. /\ \A i \in DOMAIN competentAuthority : competentAuthority[i].by # w
      /\ \A i \in DOMAIN competentAuthority : competentAuthority[i].endedBy # w
      /\ \A i \in DOMAIN area : area[i].by # w /\ area[i].endedBy # w
      /\ \A i \in DOMAIN activity : activity[i].by # w
  BY <1>1 DEF Locks, OwnRows, WithAuthority
<1> HIDE DEF n
<1>5. Locks(w, "answered", t)'
  BY <1>4 DEF Locks
<1>6. OwnRows(w, "answered", v)'
  <2>1. \A i \in DOMAIN activity' : activity'[i].by = w =>
          activity'[i].createdAt = txn[w].time /\ activity'[i].area = v
    BY <1>2, <1>3, <1>4
  <2> QED
    BY <1>1, <1>4, <2>1 DEF OwnRows, SameAsBefore, CommittedOf, Committed
<1>7. OnAuthority(w, "answered", t, v)'
  BY <1>1 DEF OnAuthority, SameAsBefore, WithAuthority, OlderThan, InUse, CurrentOf,
              CommittedOf, Committed
<1>8. OnArea(w, "answered", o, t, v)'
  <2>1. \A i \in Committed(activity') : i \in Committed(activity) /\ activity'[i] = activity[i]
    BY <1>2, <1>3 DEF Committed
  <2>2. AreaIdOf(w) \notin overlapped => \A i \in Committed(activity') :
          area[activity'[i].area].fid = AreaIdOf(w) => activity'[i].createdAt < txn[w].time
    BY <1>1, <2>1 DEF OnArea
  <2> QED
    BY <1>1, <2>2 DEF OnArea, SameAsBefore, OlderThan, InUse, CurrentOf, CommittedOf, Committed
<1> QED
  BY <1>5, <1>6, <1>7, <1>8 DEF Fits

\* INSERT of the authority, ...
LEMMA InsertAuthorityKept ==
  ASSUME Typed, Marked, NEW w \in Workers, Started(w), WorkerInv(w), Kind(w) = "post",
         txn[w].pc \in {"any authority", "lock authority"},
         txn[w].pc = "any authority" => VisibleTo(w, competentAuthority, Ca(w)) = {},
         txn[w].pc = "lock authority" => txn[w].targets = {},
         InsertsAuthority(w)
  PROVE  StepsWell(w)
<1>1. PICK pc, o, t, v, s, next, n :
        /\ pc = txn[w].pc /\ o = txn[w].owner /\ t = txn[w].targets /\ v = txn[w].version
        /\ s = txn[w].status /\ next = AfterAuthority(w) /\ n = Len(competentAuthority) + 1
  OBVIOUS
<1>2. Fits(w, pc, o, t, v)
  BY <1>1 DEF WorkerInv
<1>3. GoesOn(w, next, o, t, n, s) /\ area' = area /\ activity' = activity
  BY <1>1 DEF InsertsAuthority
<1>4. Ca(w) \in CompetentAuthorities
  BY WorkerTypes, RequestTypes DEF Ca, Kind
<1>5. /\ Moves(w) /\ TakesCommitted(w)
      /\ RowInserted(competentAuthority, competentAuthority', w, NewAuthority(w))
  BY <1>4, InsertAuthorityMoves
<1>6. SameAsBefore(w)
  BY <1>3, SameRequestGoesOn DEF SameAsBefore
<1>7. /\ pc \in {"any authority", "lock authority"}
      /\ pc = "any authority" => VisibleTo(w, competentAuthority, Ca(w)) = {}
      /\ pc = "lock authority" => t = {}
  BY <1>1
<1>8. Fits(w, next, o, t, n)'
  BY <1>1, <1>2, <1>3, <1>5, <1>6, <1>7, InsertAuthorityFits
<1>9. next \in StatementsOf(txn[w].request) /\ (s = 204 => Kind(w) = "delete")
  BY <1>1, NextStatement DEF Typed, RequestKept
<1> QED
  BY <1>3, <1>5, <1>8, <1>9, FitsGoesOn

\* ... of the area ...
LEMMA InsertAreaKept ==
  ASSUME Typed, NEW w \in Workers, Started(w), WorkerInv(w), txn[w].pc = "insert",
         \A k \in Committed(activity) : activity[k].area \in Committed(area),
         InsertsArea(w)
  PROVE  StepsWell(w)
<1>1. PICK pc, next, o, t, v, s :
        /\ pc = "insert" /\ next = "answered" /\ o = txn[w].owner /\ t = txn[w].targets
        /\ v = txn[w].version /\ s = 201
  OBVIOUS
<1>2. Fits(w, pc, o, t, v) /\ Kind(w) = "post"
  BY <1>1, NextStatement DEF WorkerInv
<1>3. GoesOn(w, next, o, t, v, s) /\ competentAuthority' = competentAuthority /\ activity' = activity
  BY <1>1 DEF InsertsArea
<1>4. v \in Nat \ {0}
  <2>1. v \in DOMAIN competentAuthority
    BY <1>1, <1>2 DEF Fits, OwnRows, WithAuthority
  <2> QED
    BY <2>1, RowTypes
<1>5. Moves(w) /\ TakesCommitted(w) /\ RowInserted(area, area', w, NewArea(w))
  BY <1>1, <1>4, InsertAreaMoves
<1>6. SameAsBefore(w)
  BY <1>3, SameRequestGoesOn DEF SameAsBefore
<1>7. Fits(w, next, o, t, v)'
  BY <1>1, <1>2, <1>3, <1>5, <1>6, InsertAreaFits
<1>8. next \in StatementsOf(txn[w].request)
  BY <1>1, NextStatement
<1>9. s # 204
  BY <1>1
<1> QED
  BY <1>3, <1>5, <1>7, <1>8, <1>9, FitsGoesOn

\* ... and of the activity.
LEMMA InsertReportKept ==
  ASSUME Typed, NEW w \in Workers, Started(w), WorkerInv(w), txn[w].pc = "report",
         InsertsReport(w)
  PROVE  StepsWell(w)
<1>1. PICK pc, next, o, t, v, s :
        /\ pc = "report" /\ next = "answered" /\ o = txn[w].owner /\ t = txn[w].targets
        /\ v = txn[w].version /\ s = txn[w].status
  OBVIOUS
<1>2. Fits(w, pc, o, t, v) /\ Kind(w) = "report"
  BY <1>1, NextStatement DEF WorkerInv
<1>3. GoesOn(w, next, o, t, v, s) /\ competentAuthority' = competentAuthority /\ area' = area
  BY <1>1 DEF InsertsReport
<1>4. v \in Nat \ {0}
  <2>1. v \in DOMAIN area
    BY <1>1, <1>2 DEF Fits, OwnRows, CommittedOf, Committed
  <2> QED
    BY <2>1, RowTypes
<1>5. Moves(w) /\ TakesCommitted(w) /\ RowInserted(activity, activity', w, NewReport(w))
  BY <1>1, <1>4, InsertReportMoves
<1>6. SameAsBefore(w)
  BY <1>3, SameRequestGoesOn DEF SameAsBefore
<1>7. Fits(w, next, o, t, v)'
  BY <1>1, <1>2, <1>3, <1>5, <1>6, InsertReportFits
<1>8. next \in StatementsOf(txn[w].request) /\ (s = 204 => Kind(w) = "delete")
  BY <1>1, NextStatement DEF Typed, RequestKept
<1> QED
  BY <1>3, <1>5, <1>7, <1>8, FitsGoesOn

\* The end of a transaction leaves nothing.
LEMMA EndKept ==
  ASSUME Typed, NEW w \in Workers, IsRolledBack(w) \/ IsCommitted(w)
  PROVE  StepsWell(w)
<1>1. Moves(w)
  BY EndMoves
<1>2. Ends(w) /\ txn[w].time \in Timestamps /\ w \notin {"committed", "aborted", "nobody"}
  BY WorkerTypes DEF IsRolledBack, IsCommitted, Started
<1>3. ~Started(w)'
  BY <1>2 DEF Ends, Idle, Started
<1>4. RequestKept(w)'
  BY <1>3 DEF RequestKept
<1> DEFINE t == txn[w].time
<1>5. /\ competentAuthority \in Seq(AuthorityRow) /\ area \in Seq(AreaRow)
      /\ activity \in Seq(ReportRow) /\ t \in Timestamps
  BY <1>2 DEF Typed
<1> HIDE DEF t
<1>6. \A i \in DOMAIN competentAuthority' :
        competentAuthority'[i].by # w /\ competentAuthority'[i].endedBy # w
  <2>1. PICK new : new = competentAuthority'
    OBVIOUS
  <2>2. new = AllRolledBack(competentAuthority, w) \/ new = AllCommitted(competentAuthority, w, t)
    BY <2>1 DEF IsRolledBack, IsCommitted, t
  <2>3. /\ DOMAIN new = DOMAIN competentAuthority
        /\ \/ \A i \in DOMAIN competentAuthority :
                RowCommitted(competentAuthority[i], new[i], w, t)
           \/ \A i \in DOMAIN competentAuthority : RowRolledBack(competentAuthority[i], new[i], w)
    BY <1>5, <2>2, AuthorityRowsTakeMarks, EndedTable
  <2> QED
    BY <1>2, <2>1, <2>3, EndedHoldsNothing
<1>7. \A i \in DOMAIN area' : area'[i].by # w /\ area'[i].endedBy # w
  <2>1. PICK new : new = area'
    OBVIOUS
  <2>2. new = AllRolledBack(area, w) \/ new = AllCommitted(area, w, t)
    BY <2>1 DEF IsRolledBack, IsCommitted, t
  <2>3. /\ DOMAIN new = DOMAIN area
        /\ \/ \A i \in DOMAIN area : RowCommitted(area[i], new[i], w, t)
           \/ \A i \in DOMAIN area : RowRolledBack(area[i], new[i], w)
    BY <1>5, <2>2, AreaRowsTakeMarks, EndedTable
  <2> QED
    BY <1>2, <2>1, <2>3, EndedHoldsNothing
<1>8. \A i \in DOMAIN activity' : activity'[i].by # w
  <2>1. PICK new : new = activity'
    OBVIOUS
  <2>2. new = AllRolledBack(activity, w) \/ new = AllCommitted(activity, w, t)
    BY <2>1 DEF IsRolledBack, IsCommitted, t
  <2>3. /\ DOMAIN new = DOMAIN activity
        /\ \/ \A i \in DOMAIN activity : RowCommitted(activity[i], new[i], w, t)
           \/ \A i \in DOMAIN activity : RowRolledBack(activity[i], new[i], w)
    BY <1>5, <2>2, ReportRowsTakeMarks, EndedTable
  <2> QED
    BY <1>2, <2>1, <2>3, EndedHoldsNothing
<1>9. WorkerInv(w)'
  BY <1>3, <1>6, <1>7, <1>8 DEF WorkerInv, HoldsNothing
<1>10. TakesCommitted(w)
  BY <1>1, <1>6, <1>7 DEF TakesCommitted, Moves, StepOf
<1> QED
  BY <1>1, <1>4, <1>9, <1>10 DEF StepsWell

\* A request that is taken up has done nothing, and all it can see is older.
LEMMA StartKept ==
  ASSUME Typed, Past, NEW w \in Workers, WorkerInv(w), NEW request \in Requests,
         Starts(w, request)
  PROVE  StepsWell(w)
<1>1. PICK pc, o, t, v, n :
        /\ pc = txn'[w].pc /\ o = txn'[w].owner /\ t = txn'[w].targets /\ v = txn'[w].version
        /\ n = now + 1
  OBVIOUS
<1>2. /\ txn'[w].request = request /\ txn'[w].time = n /\ txn'[w].status = 0
      /\ now' = n /\ ~Started(w) /\ now < MaxTime
      /\ UNCHANGED tables
  BY <1>1 DEF Starts
<1>3. now \in Nat /\ MaxTime \in Nat /\ n \in Nat /\ now < n /\ n \in 1..n
  BY <1>1, WorkerTypes
<1>4. /\ pc \in {"find authority", "find own area", "find reported area", "end authority"}
      /\ pc = "end authority" => request.kind = "end authority"
      /\ pc \in StatementsOf(request)
  BY <1>1 DEF Starts, StatementsOf
<1>5. Kind(w)' = request.kind
  BY <1>2 DEF Kind
<1>6. Started(w)'
  BY <1>1, <1>4 DEF Started
<1>7. RequestKept(w)'
  <2>1. /\ txn'[w].request \in Requests /\ txn'[w].time \in 1..now'
        /\ txn'[w].pc \in StatementsOf(txn'[w].request)
    BY <1>1, <1>2, <1>3, <1>4
  <2>2. txn'[w].status # 204
    BY <1>2
  <2> QED
    BY <2>1, <2>2 DEF RequestKept
<1>8. Moves(w) /\ TakesCommitted(w)
  BY <1>2, FrameOfStart, QuietMoves DEF TakesCommitted, tables
<1>9. /\ competentAuthority' = competentAuthority /\ area' = area /\ activity' = activity
  BY <1>2 DEF tables
<1>10. /\ \A i \in DOMAIN competentAuthority :
            competentAuthority[i].by # w /\ competentAuthority[i].endedBy # w
       /\ \A i \in DOMAIN area : area[i].by # w /\ area[i].endedBy # w
       /\ \A i \in DOMAIN activity : activity[i].by # w
  BY <1>2 DEF WorkerInv, HoldsNothing
<1>11. /\ \A x : OlderThan(competentAuthority, x, n) /\ OlderThan(area, x, n)
       /\ \A i \in Committed(activity) : activity[i].createdAt < n
  <2>1. \A m \in Nat : m <= now => m < n
    BY <1>3
  <2>2. /\ \A i \in Committed(competentAuthority) :
             competentAuthority[i].createdAt < n /\ competentAuthority[i].endedAt < n
        /\ \A i \in Committed(area) : area[i].createdAt < n /\ area[i].endedAt < n
        /\ \A i \in Committed(activity) : activity[i].createdAt < n
    BY <2>1, RowTypes DEF Past, Committed
  <2> QED
    BY <2>2 DEF OlderThan, CommittedOf
<1>12. Locks(w, pc, t)'
  BY <1>4, <1>9, <1>10 DEF Locks
<1>13. OwnRows(w, pc, v)'
  BY <1>4, <1>9, <1>10 DEF OwnRows, WithAuthority
<1>14. OnAuthority(w, pc, t, v)'
  <2>1. OlderThan(competentAuthority, Ca(w), txn[w].time)'
    BY <1>2, <1>9, <1>11 DEF OlderThan, CommittedOf, Committed
  <2> QED
    BY <1>4, <1>5, <2>1 DEF OnAuthority, WithAuthority
<1>15. OnArea(w, pc, o, t, v)'
  <2>1. OlderThan(area, AreaIdOf(w), txn[w].time)'
    BY <1>2, <1>9, <1>11 DEF OlderThan, CommittedOf, Committed
  <2> QED
    BY <1>2, <1>4, <1>5, <1>9, <1>10, <1>11, <2>1 DEF OnArea, Committed
<1>16. WorkerInv(w)'
  BY <1>1, <1>6, <1>12, <1>13, <1>14, <1>15 DEF WorkerInv, Fits
<1> QED
  BY <1>7, <1>8, <1>16 DEF StepsWell

\* A SELECT that chooses the next statement.
LEMMA FollowsKept ==
  ASSUME Typed, NEW w \in Workers, Started(w), NEW pc \in StatementsOf(txn[w].request),
         Follows(w, pc), Fits(w, pc, txn[w].owner, txn[w].targets, txn[w].version)
  PROVE  StepsWell(w)
<1>1. PICK o, t, v, s :
        /\ o = txn[w].owner /\ t = txn[w].targets /\ v = txn[w].version /\ s = txn[w].status
  OBVIOUS
<1>2. Reads(w, pc, o, t, v, s) /\ Fits(w, pc, o, t, v)
  BY <1>1 DEF Follows
<1>3. s = 204 => Kind(w) = "delete"
  BY <1>1 DEF Typed, RequestKept
<1> QED
  BY <1>2, <1>3, ReadKept

\* The statements on the authority.
LEMMA AuthorityStepKept ==
  ASSUME Typed, Marked, NEW w \in Workers, WorkerInv(w),
         FindAuthority(w) \/ AnyAuthority(w) \/ EndAuthority(w) \/ LockAuthority(w)
  PROVE  StepsWell(w)
<1>1. Started(w)
  BY DEF FindAuthority, AnyAuthority, EndAuthority, LockAuthority, Started
<1>2. PICK pc, o, t, v, s :
        /\ pc = txn[w].pc /\ o = txn[w].owner /\ t = txn[w].targets /\ v = txn[w].version
        /\ s = txn[w].status
  OBVIOUS
<1>3. Fits(w, pc, o, t, v) /\ (s = 204 => Kind(w) = "delete")
  BY <1>1, <1>2 DEF WorkerInv, Typed, RequestKept
<1>4. CASE FindAuthority(w)
  <2>1. pc = "find authority" /\ {"any authority", "end authority"} \subseteq StatementsOf(txn[w].request)
    BY <1>1, <1>2, <1>4, FindAuthorityEffect, NextStatement
  <2>2. CASE CurrentTo(w, competentAuthority, Ca(w)) = {} /\ Follows(w, "any authority")
    <3>1. Fits(w, "any authority", o, t, v)
      BY <1>3, <2>1, <2>2, NoAuthorityFits
    <3> QED
      BY <1>1, <1>2, <2>1, <2>2, <3>1, FollowsKept
  <2>3. CASE CurrentTo(w, competentAuthority, Ca(w)) # {} /\ Follows(w, "end authority")
    <3>1. Fits(w, "end authority", o, t, v)
      BY <1>3, <2>1, <2>3, AuthorityFits
    <3> QED
      BY <1>1, <1>2, <2>1, <2>3, <3>1, FollowsKept
  <2> QED
    BY <1>4, <2>2, <2>3, FindAuthorityEffect, EndKept
<1>5. CASE AnyAuthority(w)
  <2>1. txn[w].pc = "any authority" /\ Kind(w) = "post"
    BY <1>1, <1>5, AnyAuthorityEffect, NextStatement
  <2>2. CASE VisibleTo(w, competentAuthority, Ca(w)) = {} /\ InsertsAuthority(w)
    BY <1>1, <2>1, <2>2, InsertAuthorityKept
  <2> QED
    BY <1>5, <2>2, AnyAuthorityEffect, EndKept
<1>6. CASE EndAuthority(w)
  <2>1. PICK next, u : next = "lock authority" /\ u = AuthorityTargets(w)
    OBVIOUS
  <2>2. pc = "end authority" /\ Reads(w, next, o, u, v, s)
    BY <1>2, <1>6, <2>1, EndAuthorityEffect
  <2>3. next \in StatementsOf(txn[w].request)
    BY <1>1, <1>2, <2>1, <2>2, NextStatement
  <2>4. Fits(w, next, o, u, v)
    BY <1>3, <2>1, <2>2, AuthorityTargetsFit
  <2> QED
    BY <1>1, <1>3, <2>2, <2>3, <2>4, ReadKept
<1>7. CASE LockAuthority(w)
  <2>1. txn[w].pc = "lock authority"
    BY <1>7, LockAuthorityEffect
  <2>2. ASSUME NEW i \in txn[w].targets, LocksAuthority(w, i)
        PROVE  StepsWell(w)
    BY <2>1, <2>2, LockAuthorityKept
  <2>3. CASE txn[w].targets = {} /\ Kind(w) = "post" /\ InsertsAuthority(w)
    BY <1>1, <2>1, <2>3, InsertAuthorityKept
  <2>4. CASE txn[w].targets = {} /\ Kind(w) = "end authority" /\ Follows(w, "answered")
    <3>1. "answered" \in StatementsOf(txn[w].request)
      BY <1>1, NextStatement
    <3>2. Fits(w, "answered", o, t, v)
      BY <1>2, <1>3, <2>1, <2>4, AuthorityEndedFits
    <3> QED
      BY <1>1, <1>2, <2>4, <3>1, <3>2, FollowsKept
  <2> QED
    BY <1>7, <2>2, <2>3, <2>4, LockAuthorityEffect
<1> QED
  BY <1>4, <1>5, <1>6, <1>7

\* The SELECT statements on the area.
LEMMA AreaReadKept ==
  ASSUME Typed, VersionsStacked, NEW w \in Workers, WorkerInv(w),
         FindArea(w) \/ AnyArea(w) \/ FindOwnArea(w) \/ FindReportedArea(w)
  PROVE  StepsWell(w)
<1>1. Started(w)
  BY DEF FindArea, AnyArea, FindOwnArea, FindReportedArea, Started
<1>2. PICK pc, o, t, v, s :
        /\ pc = txn[w].pc /\ o = txn[w].owner /\ t = txn[w].targets /\ v = txn[w].version
        /\ s = txn[w].status
  OBVIOUS
<1>3. Fits(w, pc, o, t, v) /\ (s = 204 => Kind(w) = "delete")
  BY <1>1, <1>2 DEF WorkerInv, Typed, RequestKept
<1>4. PICK x : x = txn[w].request.areaId
  OBVIOUS
<1>5. CASE FindArea(w)
  <2>1. /\ pc = "find area" /\ x # NoId
        /\ "any area" \in StatementsOf(txn[w].request)
        /\ "end area" \in StatementsOf(txn[w].request)
    BY <1>1, <1>2, <1>4, <1>5, FindAreaEffect, NextStatement
  <2>2. AreaIdOf(w) = x
    BY <1>4, <2>1, AreaAsked
  <2>3. CASE CurrentTo(w, area, x) = {} /\ Follows(w, "any area")
    <3>1. Fits(w, "any area", o, t, v)
      BY <1>3, <2>1, <2>2, <2>3, NoAreaFits
    <3> QED
      BY <1>1, <1>2, <2>1, <2>3, <3>1, FollowsKept
  <2>4. ASSUME Cardinality(CurrentTo(w, area, x)) <= 1, NEW i \in CurrentTo(w, area, x),
               Reads(w, "end area", area[i].competentAuthority, txn[w].targets,
                     txn[w].version, txn[w].status)
        PROVE  StepsWell(w)
    <3>1. PICK a, next : a = area[i].competentAuthority /\ next = "end area"
      OBVIOUS
    <3>2. Reads(w, next, a, t, v, s) /\ next \in StatementsOf(txn[w].request)
      BY <1>2, <2>1, <2>4, <3>1
    <3>3. Fits(w, next, a, t, v)
      BY <1>3, <2>1, <2>2, <2>4, <3>1, AreaFits
    <3> QED
      BY <1>1, <1>3, <3>2, <3>3, ReadKept
  <2> QED
    BY <1>4, <1>5, <2>3, <2>4, FindAreaEffect, EndKept
<1>6. CASE AnyArea(w)
  <2>1. /\ pc = "any area" /\ x # NoId /\ "insert" \in StatementsOf(txn[w].request)
    BY <1>1, <1>2, <1>4, <1>6, AnyAreaEffect, NextStatement
  <2>2. AreaIdOf(w) = x
    BY <1>4, <2>1, AreaAsked
  <2>3. CASE VisibleTo(w, area, x) = {} /\ Follows(w, "insert")
    <3>1. Fits(w, "insert", o, t, v)
      BY <1>3, <2>1, <2>2, <2>3, NewAreaFits
    <3> QED
      BY <1>1, <1>2, <2>1, <2>3, <3>1, FollowsKept
  <2> QED
    BY <1>4, <1>6, <2>3, AnyAreaEffect, EndKept
<1>7. CASE FindOwnArea(w)
  <2>1. /\ pc = "find own area" /\ x # NoId /\ "end area" \in StatementsOf(txn[w].request)
        /\ Kind(w) = "delete"
    BY <1>1, <1>2, <1>4, <1>7, FindOwnAreaEffect, NextStatement
  <2>2. AreaIdOf(w) = x
    BY <1>4, <2>1, AreaAsked
  <2>3. ASSUME NEW i \in CurrentTo(w, area, x),
               Reads(w, "end area", area[i].competentAuthority, txn[w].targets,
                     txn[w].version, txn[w].status)
        PROVE  StepsWell(w)
    <3>1. PICK a, next : a = area[i].competentAuthority /\ next = "end area"
      OBVIOUS
    <3>2. Reads(w, next, a, t, v, s) /\ next \in StatementsOf(txn[w].request)
      BY <1>2, <2>1, <2>3, <3>1
    <3>3. Fits(w, next, a, t, v)
      BY <1>1, <1>3, <2>1, <2>2, <2>3, <3>1, OwnAreaFits
    <3> QED
      BY <1>1, <1>3, <3>2, <3>3, ReadKept
  <2> QED
    BY <1>4, <1>7, <2>3, FindOwnAreaEffect, EndKept
<1>8. CASE FindReportedArea(w)
  <2>1. /\ pc = "find reported area" /\ x # NoId /\ "report" \in StatementsOf(txn[w].request)
        /\ Kind(w) = "report"
    BY <1>1, <1>2, <1>4, <1>8, FindReportedAreaEffect, NextStatement
  <2>2. AreaIdOf(w) = x
    BY <1>4, <2>1, AreaAsked
  <2>3. ASSUME NEW i \in CurrentTo(w, area, x),
               Reads(w, "report", txn[w].owner, txn[w].targets, i, txn[w].status)
        PROVE  StepsWell(w)
    <3>1. PICK next : next = "report"
      OBVIOUS
    <3>2. Reads(w, next, o, t, i, s) /\ next \in StatementsOf(txn[w].request)
      BY <1>2, <2>1, <2>3, <3>1
    <3>3. Fits(w, next, o, t, i)
      BY <1>3, <2>1, <2>2, <2>3, <3>1, ReportedAreaFits
    <3> QED
      BY <1>1, <1>3, <3>2, <3>3, ReadKept
  <2> QED
    BY <1>4, <1>8, <2>3, FindReportedAreaEffect, EndKept
<1> QED
  BY <1>5, <1>6, <1>7, <1>8

\* The statements that write an area, or an activity.
LEMMA AreaWriteKept ==
  ASSUME Typed, NEW w \in Workers, WorkerInv(w),
         \A k \in Committed(activity) : activity[k].area \in Committed(area),
         EndArea(w) \/ LockArea(w) \/ InsertArea(w) \/ Report(w)
  PROVE  StepsWell(w)
<1>1. Started(w)
  BY DEF EndArea, LockArea, InsertArea, Report, Started
<1>2. PICK pc, o, t, v, s :
        /\ pc = txn[w].pc /\ o = txn[w].owner /\ t = txn[w].targets /\ v = txn[w].version
        /\ s = txn[w].status
  OBVIOUS
<1>3. Fits(w, pc, o, t, v) /\ (s = 204 => Kind(w) = "delete")
  BY <1>1, <1>2 DEF WorkerInv, Typed, RequestKept
<1>4. CASE EndArea(w)
  <2>1. PICK next, u : next = "lock area" /\ u = AreaTargets(w)
    OBVIOUS
  <2>2. pc = "end area" /\ Reads(w, next, o, u, v, s)
    BY <1>2, <1>4, <2>1, EndAreaEffect
  <2>3. next \in StatementsOf(txn[w].request) /\ txn[w].request.areaId # NoId
    BY <1>1, <1>2, <2>1, <2>2, NextStatement
  <2>4. Fits(w, "end area", txn[w].owner, t, v)
    BY <1>2, <1>3, <2>2
  <2>5. Fits(w, next, o, u, v)
    BY <1>2, <2>1, <2>3, <2>4, AreaTargetsFit
  <2> QED
    BY <1>1, <1>3, <2>2, <2>3, <2>5, ReadKept
<1>5. CASE LockArea(w)
  <2>1. txn[w].pc = "lock area"
    BY <1>5, LockAreaEffect
  <2>2. ASSUME NEW i \in txn[w].targets, LocksArea(w, i)
        PROVE  StepsWell(w)
    BY <2>1, <2>2, LockAreaKept
  <2>3. CASE txn[w].targets = {} /\ Kind(w) = "post" /\ Follows(w, "insert")
    <3>1. "insert" \in StatementsOf(txn[w].request)
      BY <1>1, <2>3, NextStatement
    <3>2. Fits(w, "lock area", o, {}, v)
      BY <1>2, <1>3, <2>1, <2>3
    <3>3. Fits(w, "insert", o, {}, v)
      BY <2>3, <3>2, AreaEndedFits
    <3> QED
      BY <1>1, <1>2, <2>3, <3>1, <3>3, FollowsKept
  <2>4. CASE /\ txn[w].targets = {} /\ Kind(w) = "delete"
             /\ Reads(w, "answered", txn[w].owner, txn[w].targets, txn[w].version, 204)
    <3>1. PICK next, r : next = "answered" /\ r = 204
      OBVIOUS
    <3>2. next \in StatementsOf(txn[w].request)
      BY <1>1, <3>1, NextStatement
    <3>3. Fits(w, "lock area", o, {}, v)
      BY <1>2, <1>3, <2>1, <2>4
    <3>4. Fits(w, next, o, t, v)
      BY <1>2, <2>4, <3>1, <3>3, AreaEndedFits
    <3>5. Reads(w, next, o, t, v, r)
      BY <1>2, <2>4, <3>1
    <3> QED
      BY <1>1, <2>4, <3>2, <3>4, <3>5, ReadKept
  <2> QED
    BY <1>5, <2>2, <2>3, <2>4, LockAreaEffect
<1>6. CASE InsertArea(w)
  BY <1>1, <1>6, InsertAreaEffect, InsertAreaKept
<1>7. CASE Report(w)
  BY <1>1, <1>7, ReportEffect, InsertReportKept
<1> QED
  BY <1>4, <1>5, <1>6, <1>7

\* Every step of a worker.
LEMMA StepKept ==
  ASSUME Typed, Marked, Past, VersionsStacked, NEW w \in Workers, WorkerInv(w),
         \A k \in Committed(activity) : activity[k].area \in Committed(area),
         StepBy(w)
  PROVE  StepsWell(w)
<1>1. ASSUME NEW request \in Requests, Start(w, request)
      PROVE  StepsWell(w)
  BY <1>1, StartEffect, StartKept
<1>2. CASE FindAuthority(w) \/ AnyAuthority(w) \/ EndAuthority(w) \/ LockAuthority(w)
  BY <1>2, AuthorityStepKept
<1>3. CASE FindArea(w) \/ AnyArea(w) \/ FindOwnArea(w) \/ FindReportedArea(w)
  BY <1>3, AreaReadKept
<1>4. CASE EndArea(w) \/ LockArea(w) \/ InsertArea(w) \/ Report(w)
  BY <1>4, AreaWriteKept
<1>5. CASE Commit(w)
  BY <1>5, CommitEffect, EndKept
<1>6. CASE Crash(w)
  <2>1. Started(w) /\ RollBack(w, NoReply)
    BY <1>6 DEF Crash, Started
  <2> QED
    BY <2>1, RollBackEffect, EndKept
<1> QED
  BY <1>1, <1>2, <1>3, <1>4, <1>5, <1>6 DEF StepBy, Step

-----------------------------------------------------------------------------
(***************************************************************************)
(* The invariant of all                                                    *)
(***************************************************************************)

\* A step takes up a request, goes on with one, or ends one.
Proceeds(w) ==
  \/ Ends(w)
  \/ txn'[w].time = txn[w].time /\ txn'[w].request = txn[w].request /\ Started(w)

\* A statement of a request goes on with it, ...
LEMMA ProceedsIfGoesOn ==
  ASSUME NEW w, Started(w), NEW pc, NEW owner, NEW targets, NEW version, NEW status,
         GoesOn(w, pc, owner, targets, version, status)
  PROVE  Proceeds(w)
BY DEF GoesOn, Updated, Proceeds

\* ... also one that only reads, ...
LEMMA ProceedsIfReads ==
  ASSUME NEW w, Started(w), NEW pc, NEW owner, NEW targets, NEW version, NEW status,
         Reads(w, pc, owner, targets, version, status)
  PROVE  Proceeds(w)
BY ProceedsIfGoesOn DEF Reads

\* ... so that every step but the first goes on with a request or ends it.
LEMMA StepProceeds ==
  ASSUME Typed, NEW w \in Workers, Step(w) \/ Crash(w)
  PROVE  Proceeds(w)
<1>1. Started(w)
  BY DEF Step, Crash, Started, FindAuthority, AnyAuthority, EndAuthority, LockAuthority, FindArea,
         AnyArea, FindOwnArea, EndArea, LockArea, InsertArea, FindReportedArea, Report, Commit
<1>2. PICK o, t, v, s :
        /\ o = txn[w].owner /\ t = txn[w].targets /\ v = txn[w].version /\ s = txn[w].status
  OBVIOUS
<1>3. ASSUME IsRolledBack(w) \/ IsCommitted(w)
      PROVE  Proceeds(w)
  BY <1>3 DEF Proceeds, IsRolledBack, IsCommitted
<1>4. ASSUME NEW pc, Follows(w, pc)
      PROVE  Proceeds(w)
  <2>1. Reads(w, pc, o, t, v, s)
    BY <1>2, <1>4 DEF Follows
  <2> QED
    BY <1>1, <2>1, ProceedsIfReads
<1>5. ASSUME NEW i, Locked(w, i)
      PROVE  Proceeds(w)
  <2>1. PICK pc, u : pc = txn[w].pc /\ u = txn[w].targets \ {i}
    OBVIOUS
  <2>2. GoesOn(w, pc, o, u, v, s)
    BY <1>2, <1>5, <2>1 DEF Locked
  <2> QED
    BY <1>1, <2>2, ProceedsIfGoesOn
<1>6. ASSUME InsertsAuthority(w)
      PROVE  Proceeds(w)
  <2>1. PICK pc, n : pc = AfterAuthority(w) /\ n = Len(competentAuthority) + 1
    OBVIOUS
  <2>2. GoesOn(w, pc, o, t, n, s)
    BY <1>2, <1>6, <2>1 DEF InsertsAuthority
  <2> QED
    BY <1>1, <2>2, ProceedsIfGoesOn
<1>7. ASSUME NEW pc, NEW a, Reads(w, pc, a, txn[w].targets, txn[w].version, txn[w].status)
      PROVE  Proceeds(w)
  <2>1. Reads(w, pc, a, t, v, s)
    BY <1>2, <1>7
  <2> QED
    BY <1>1, <2>1, ProceedsIfReads
<1>8. CASE FindAuthority(w)
  BY <1>3, <1>4, <1>8, FindAuthorityEffect
<1>9. CASE AnyAuthority(w)
  BY <1>3, <1>6, <1>9, AnyAuthorityEffect
<1>10. CASE EndAuthority(w)
  <2>1. PICK u, pc : u = AuthorityTargets(w) /\ pc = "lock authority"
    OBVIOUS
  <2>2. Reads(w, pc, o, u, v, s)
    BY <1>2, <1>10, <2>1, EndAuthorityEffect
  <2> QED
    BY <1>1, <2>2, ProceedsIfReads
<1>11. CASE LockAuthority(w)
  <2>1. ASSUME NEW i \in txn[w].targets, LocksAuthority(w, i)
        PROVE  Proceeds(w)
    BY <1>5, <2>1 DEF LocksAuthority
  <2> QED
    BY <1>4, <1>6, <1>11, <2>1, LockAuthorityEffect
<1>12. CASE FindArea(w)
  BY <1>3, <1>4, <1>7, <1>12, FindAreaEffect
<1>13. CASE AnyArea(w)
  BY <1>3, <1>4, <1>13, AnyAreaEffect
<1>14. CASE FindOwnArea(w)
  BY <1>3, <1>7, <1>14, FindOwnAreaEffect
<1>15. CASE EndArea(w)
  <2>1. PICK u, pc : u = AreaTargets(w) /\ pc = "lock area"
    OBVIOUS
  <2>2. Reads(w, pc, o, u, v, s)
    BY <1>2, <1>15, <2>1, EndAreaEffect
  <2> QED
    BY <1>1, <2>2, ProceedsIfReads
<1>16. CASE LockArea(w)
  <2>1. ASSUME NEW i \in txn[w].targets, LocksArea(w, i)
        PROVE  Proceeds(w)
    BY <1>5, <2>1 DEF LocksArea
  <2>2. ASSUME Reads(w, "answered", txn[w].owner, txn[w].targets, txn[w].version, 204)
        PROVE  Proceeds(w)
    <3>1. PICK pc, r : pc = "answered" /\ r = 204
      OBVIOUS
    <3>2. Reads(w, pc, o, t, v, r)
      BY <1>2, <2>2, <3>1
    <3> QED
      BY <1>1, <3>2, ProceedsIfReads
  <2> QED
    BY <1>4, <1>16, <2>1, <2>2, LockAreaEffect
<1>17. CASE InsertArea(w)
  <2>1. PICK pc, r : pc = "answered" /\ r = 201
    OBVIOUS
  <2>2. GoesOn(w, pc, o, t, v, r)
    BY <1>2, <1>17, <2>1, InsertAreaEffect DEF InsertsArea
  <2> QED
    BY <1>1, <2>2, ProceedsIfGoesOn
<1>18. CASE FindReportedArea(w)
  <2>1. ASSUME NEW i \in CurrentTo(w, area, txn[w].request.areaId),
               Reads(w, "report", txn[w].owner, txn[w].targets, i, txn[w].status)
        PROVE  Proceeds(w)
    <3>1. PICK pc : pc = "report"
      OBVIOUS
    <3>2. Reads(w, pc, o, t, i, s)
      BY <1>2, <2>1, <3>1
    <3> QED
      BY <1>1, <3>2, ProceedsIfReads
  <2> QED
    BY <1>3, <1>18, <2>1, FindReportedAreaEffect
<1>19. CASE Report(w)
  <2>1. PICK pc : pc = "answered"
    OBVIOUS
  <2>2. GoesOn(w, pc, o, t, v, s)
    BY <1>2, <1>19, <2>1, ReportEffect DEF InsertsReport
  <2> QED
    BY <1>1, <2>2, ProceedsIfGoesOn
<1>20. CASE Commit(w)
  BY <1>3, <1>20, CommitEffect
<1>21. CASE Crash(w)
  BY <1>1, <1>3, <1>21, RollBackEffect DEF Crash
<1> QED
  BY <1>8, <1>9, <1>10, <1>11, <1>12, <1>13, <1>14, <1>15, <1>16, <1>17, <1>18, <1>19, <1>20, <1>21
     DEF Step

\* What requests name at the same time is noted.
LEMMA OverlapsKept ==
  ASSUME Typed, OverlapsNoted, NEW w \in Workers, StepBy(w), Moves(w)
  PROVE  OverlapsNoted'
<1>1. (\A v \in Workers \ {w} : Untouched(v)) /\ overlapped \subseteq overlapped'
  BY DEF Moves, Frame
<1>2. ASSUME NEW u \in Workers \ {w}, NEW v \in Workers \ {w}, u # v, Started(u)', Started(v)'
      PROVE  /\ txn'[u].time # txn'[v].time
             /\ Named(txn'[u].request) \cap Named(txn'[v].request) \subseteq overlapped'
  BY <1>1, <1>2, SameRequest DEF OverlapsNoted
<1>3. ASSUME NEW v \in Workers \ {w}, Started(w)', Started(v)'
      PROVE  /\ txn'[v].time # txn'[w].time
             /\ Named(txn'[v].request) \cap Named(txn'[w].request) \subseteq overlapped'
  <2>1. Started(v) /\ txn'[v].time = txn[v].time /\ txn'[v].request = txn[v].request
    BY <1>1, <1>3, SameRequest
  <2>2. ASSUME NEW request \in Requests, Start(w, request)
        PROVE  /\ txn'[v].time # txn'[w].time
               /\ Named(txn'[v].request) \cap Named(txn'[w].request) \subseteq overlapped'
    <3>1. Starts(w, request)
      BY <2>2, StartEffect
    <3>2. /\ txn'[w].request = request /\ txn'[w].time = now + 1
          /\ Named(txn[v].request) \cap Named(request) \subseteq overlapped'
      BY <2>1, <3>1 DEF Starts
    <3>3. now \in Nat /\ txn[v].time \in Nat /\ txn[v].time <= now
      BY <2>1, WorkerTypes
    <3>4. txn[v].time # now + 1
      BY <3>3
    <3> QED
      BY <2>1, <3>2, <3>4
  <2>3. CASE Step(w) \/ Crash(w)
    <3>1. Proceeds(w)
      BY <2>3, StepProceeds
    <3>2. ~Ends(w)
      BY <1>3 DEF Ends, Idle, Started
    <3>3. txn'[w].time = txn[w].time /\ txn'[w].request = txn[w].request /\ Started(w)
      BY <3>1, <3>2 DEF Proceeds
    <3> QED
      BY <1>1, <2>1, <3>3 DEF OverlapsNoted
  <2> QED
    BY <2>2, <2>3 DEF StepBy
<1>4. ASSUME NEW u \in Workers, NEW v \in Workers, u # v, Started(u)', Started(v)'
      PROVE  /\ txn'[u].time # txn'[v].time
             /\ Named(txn'[u].request) \cap Named(txn'[v].request) \subseteq overlapped'
  <2>1. CASE u = w
    BY <1>3, <1>4, <2>1
  <2>2. CASE v = w
    BY <1>3, <1>4, <2>2
  <2>3. CASE u # w /\ v # w
    BY <1>2, <1>4, <2>3
  <2> QED
    BY <2>1, <2>2, <2>3
<1> QED
  BY <1>4 DEF OverlapsNoted, Started

\* Rows that are still marked as they should be: until the commit ...
LEMMA MarksKept ==
  ASSUME NEW W, W \cap {"committed", "aborted", "nobody"} = {}, NEW old, NEW new,
         NEW w \in W, NEW t, StepOf(old, new, w, t), Unseen(old, new), RowsMarked(old, W),
         \A i \in DOMAIN old :
            old[i].endedBy # w /\ new[i].endedBy = w => old[i].by = "committed"
  PROVE  RowsMarked(new, W)
<1>1. w \notin {"committed", "aborted", "nobody"}
  OBVIOUS
<1>2. ASSUME NEW i \in DOMAIN old
      PROVE  /\ new[i].endedBy # "nobody" => new[i].by = "committed" /\ IsCurrent(new[i])
             /\ new[i].by \in W => IsCurrent(new[i])
  <2>1. new[i].endedAt = old[i].endedAt /\ (new[i].by = "committed" <=> old[i].by = "committed")
    BY DEF Unseen
  <2>2. new[i].by \in W => old[i].by \in W
    BY DEF StepOf
  <2>3. new[i].endedBy # "nobody" => old[i].by = "committed" /\ IsCurrent(old[i])
    BY <1>1 DEF StepOf, RowsMarked
  <2>4. old[i].by \in W => IsCurrent(old[i])
    BY DEF RowsMarked
  <2> QED
    BY <2>1, <2>2, <2>3, <2>4 DEF IsCurrent
<1>3. ASSUME NEW i \in DOMAIN new \ DOMAIN old
      PROVE  new[i].endedBy = "nobody" /\ IsCurrent(new[i])
  BY DEF StepOf, IsCurrent
<1> QED
  BY <1>2, <1>3 DEF RowsMarked

\* ... and after it.
LEMMA MarksCommitted ==
  ASSUME NEW W, W \cap {"committed", "aborted", "nobody"} = {}, NEW old, NEW new,
         NEW w \in W, NEW t, DOMAIN new = DOMAIN old,
         \A i \in DOMAIN old : RowCommitted(old[i], new[i], w, t), RowsMarked(old, W)
  PROVE  RowsMarked(new, W)
<1> SUFFICES ASSUME NEW i \in DOMAIN old
             PROVE  /\ new[i].endedBy # "nobody" => new[i].by = "committed" /\ IsCurrent(new[i])
                    /\ new[i].by \in W => IsCurrent(new[i])
  BY DEF RowsMarked
<1>1. w \notin {"committed", "aborted", "nobody"} /\ "committed" \notin W
  OBVIOUS
<1>2. /\ old[i].endedBy # "nobody" => old[i].by = "committed" /\ IsCurrent(old[i])
      /\ old[i].by \in W => IsCurrent(old[i])
  BY DEF RowsMarked
<1>3. /\ new[i].by = IF old[i].by = w THEN "committed" ELSE old[i].by
      /\ new[i].endedAt = IF old[i].endedBy = w THEN t ELSE old[i].endedAt
      /\ new[i].endedBy = IF old[i].endedBy = w THEN "nobody" ELSE old[i].endedBy
  BY DEF RowCommitted
<1> QED
  BY <1>1, <1>2, <1>3 DEF IsCurrent

\* What a commit does to the tables.
LEMMA CommitRows ==
  ASSUME Typed, NEW w \in Workers, IsCommitted(w)
  PROVE  /\ DOMAIN competentAuthority' = DOMAIN competentAuthority
         /\ DOMAIN area' = DOMAIN area /\ DOMAIN activity' = DOMAIN activity
         /\ \A i \in DOMAIN competentAuthority :
              RowCommitted(competentAuthority[i], competentAuthority'[i], w, txn[w].time)
         /\ \A i \in DOMAIN area : RowCommitted(area[i], area'[i], w, txn[w].time)
         /\ \A i \in DOMAIN activity : RowCommitted(activity[i], activity'[i], w, txn[w].time)
<1> DEFINE t == txn[w].time
<1>1. /\ competentAuthority \in Seq(AuthorityRow) /\ area \in Seq(AreaRow)
      /\ activity \in Seq(ReportRow) /\ t \in Timestamps
  BY WorkerTypes DEF IsCommitted, Started, Typed
<1>2. /\ competentAuthority' = AllCommitted(competentAuthority, w, t)
      /\ area' = AllCommitted(area, w, t) /\ activity' = AllCommitted(activity, w, t)
  BY DEF IsCommitted
<1> HIDE DEF t
<1>3. /\ DOMAIN competentAuthority' = DOMAIN competentAuthority
      /\ \A i \in DOMAIN competentAuthority :
           RowCommitted(competentAuthority[i], competentAuthority'[i], w, t)
  <2>1. PICK new : new = AllCommitted(competentAuthority, w, t)
    OBVIOUS
  <2>2. /\ DOMAIN new = DOMAIN competentAuthority
        /\ \A i \in DOMAIN competentAuthority : RowCommitted(competentAuthority[i], new[i], w, t)
    BY <1>1, <2>1, AuthorityRowsTakeMarks, EndedTable
  <2> QED
    BY <1>2, <2>1, <2>2
<1>4. /\ DOMAIN area' = DOMAIN area
      /\ \A i \in DOMAIN area : RowCommitted(area[i], area'[i], w, t)
  <2>1. PICK new : new = AllCommitted(area, w, t)
    OBVIOUS
  <2>2. /\ DOMAIN new = DOMAIN area
        /\ \A i \in DOMAIN area : RowCommitted(area[i], new[i], w, t)
    BY <1>1, <2>1, AreaRowsTakeMarks, EndedTable
  <2> QED
    BY <1>2, <2>1, <2>2
<1>5. /\ DOMAIN activity' = DOMAIN activity
      /\ \A i \in DOMAIN activity : RowCommitted(activity[i], activity'[i], w, t)
  <2>1. PICK new : new = AllCommitted(activity, w, t)
    OBVIOUS
  <2>2. /\ DOMAIN new = DOMAIN activity
        /\ \A i \in DOMAIN activity : RowCommitted(activity[i], new[i], w, t)
    BY <1>1, <2>1, ReportRowsTakeMarks, EndedTable
  <2> QED
    BY <1>2, <2>1, <2>2
<1> QED
  BY <1>3, <1>4, <1>5 DEF t

\* Rows stay marked, and a generated area id stays the timestamp of its row.
LEMMA MarkedKept ==
  ASSUME Typed, Marked, NEW w \in Workers, StepsWell(w)
  PROVE  Marked'
<1>1. Moves(w) /\ TakesCommitted(w) /\ RequestKept(w)' /\ WorkerInv(w)'
  BY DEF StepsWell
<1>2. /\ Workers \cap {"committed", "aborted", "nobody"} = {}
      /\ w \notin {"committed", "aborted", "nobody"}
  BY AreaTransactionConstantsAssumption, WorkerTypes
<1>3. /\ StepOf(competentAuthority, competentAuthority', w, txn[w].time)
      /\ StepOf(area, area', w, txn[w].time)
  BY <1>1 DEF Moves
<1>4. RowsMarked(competentAuthority, Workers) /\ RowsMarked(area, Workers)
  BY DEF Marked
<1>5. RowsMarked(competentAuthority', Workers) /\ RowsMarked(area', Workers)
  <2>1. CASE Unseen(competentAuthority, competentAuthority') /\ Unseen(area, area')
    <3>1. RowsMarked(competentAuthority', Workers)
      BY <1>1, <1>2, <1>3, <1>4, <2>1, MarksKept DEF TakesCommitted
    <3>2. RowsMarked(area', Workers)
      BY <1>1, <1>2, <1>3, <1>4, <2>1, MarksKept DEF TakesCommitted
    <3> QED
      BY <3>1, <3>2
  <2>2. CASE IsCommitted(w)
    <3>1. RowsMarked(competentAuthority', Workers)
      BY <1>2, <1>4, <2>2, CommitRows, MarksCommitted
    <3>2. RowsMarked(area', Workers)
      BY <1>2, <1>4, <2>2, CommitRows, MarksCommitted
    <3> QED
      BY <3>1, <3>2
  <2> QED
    BY <1>1, <2>1, <2>2 DEF Moves
<1>6. ASSUME NEW i \in DOMAIN area', area'[i].fid \notin AreaIds
      PROVE  area'[i].fid = area'[i].createdAt
  <2>1. CASE i \in DOMAIN area
    BY <1>3, <1>6, <2>1 DEF Marked, StepOf
  <2>2. CASE i \notin DOMAIN area
    <3>1. area'[i].by = w
      BY <1>3, <2>2 DEF StepOf
    <3>2. Started(w)'
      BY <1>1, <3>1 DEF WorkerInv, HoldsNothing
    <3>3. area'[i].fid = AreaIdOf(w)' /\ area'[i].createdAt = txn'[w].time
      BY <1>1, <3>1, <3>2 DEF WorkerInv, Fits, OwnRows
    <3>4. txn'[w].request.areaId \in AreaIds \cup {NoId}
      <4>1. txn'[w].request \in Requests
        BY <1>1, <3>2 DEF RequestKept
      <4> QED
        BY <4>1, RequestTypes
    <3> QED
      BY <1>6, <3>3, <3>4 DEF AreaIdOf
  <2> QED
    BY <2>1, <2>2
<1> QED
  BY <1>5, <1>6 DEF Marked

\* A row that becomes visible is one that the commit of w makes so.
LEMMA BecomesVisible ==
  ASSUME Typed, NEW w \in Workers, Moves(w), WorkerInv(w)
  PROVE  /\ \A i \in Committed(competentAuthority') \ Committed(competentAuthority) :
              i \in DOMAIN competentAuthority /\ competentAuthority[i].by = w /\ IsCommitted(w)
         /\ \A i \in Committed(area') \ Committed(area) :
              i \in DOMAIN area /\ area[i].by = w /\ IsCommitted(w)
         /\ \A i \in Committed(activity') \ Committed(activity) :
              i \in DOMAIN activity /\ activity[i].by = w /\ IsCommitted(w)
         /\ IsCommitted(w) => Started(w) /\ Fits(w, "answered", txn[w].owner, txn[w].targets,
                                                 txn[w].version)
<1>1. w \notin {"committed", "aborted", "nobody"}
  BY WorkerTypes
<1>2. /\ StepOf(competentAuthority, competentAuthority', w, txn[w].time)
      /\ StepOf(area, area', w, txn[w].time) /\ StepOf(activity, activity', w, txn[w].time)
      /\ \/ /\ Unseen(competentAuthority, competentAuthority')
            /\ Unseen(area, area') /\ Unseen(activity, activity')
         \/ IsCommitted(w)
  BY DEF Moves
<1>3. \A i \in Committed(competentAuthority') \ Committed(competentAuthority) :
        i \in DOMAIN competentAuthority /\ competentAuthority[i].by = w /\ IsCommitted(w)
  BY <1>1, <1>2, StepKeepsCommitted
<1>4. \A i \in Committed(area') \ Committed(area) :
        i \in DOMAIN area /\ area[i].by = w /\ IsCommitted(w)
  BY <1>1, <1>2, StepKeepsCommitted
<1>5. \A i \in Committed(activity') \ Committed(activity) :
        i \in DOMAIN activity /\ activity[i].by = w /\ IsCommitted(w)
  BY <1>1, <1>2, StepKeepsCommitted
<1>6. IsCommitted(w) => Started(w) /\ Fits(w, "answered", txn[w].owner, txn[w].targets,
                                           txn[w].version)
  BY DEF IsCommitted, Started, WorkerInv
<1> QED
  BY <1>3, <1>4, <1>5, <1>6

\* The end of a visible row is as it was, or the timestamp of a commit that had
\* locked it.
LEMMA EndsStamped ==
  ASSUME NEW old, NEW new, NEW w, NEW t, StepOf(old, new, w, t), NEW i \in DOMAIN old
  PROVE  /\ new[i].createdAt = old[i].createdAt /\ new[i].fid = old[i].fid
         /\ new[i].endedAt = old[i].endedAt \/ (old[i].endedBy = w /\ new[i].endedAt = t)
BY DEF StepOf

\* Nothing visible is younger than the latest transaction.
LEMMA PastKept ==
  ASSUME Typed, Marked, Past, NEW w \in Workers, Moves(w), WorkerInv(w)
  PROVE  Past'
<1>1. /\ StepOf(competentAuthority, competentAuthority', w, txn[w].time)
      /\ StepOf(area, area', w, txn[w].time) /\ StepOf(activity, activity', w, txn[w].time)
      /\ now \in Nat /\ now' \in Nat /\ now <= now'
  BY WorkerTypes DEF Moves, Frame
<1>2. /\ w \notin {"committed", "aborted", "nobody"}
      /\ Started(w) => txn[w].time \in Nat /\ txn[w].time <= now
  BY WorkerTypes
<1>3. \A m \in Nat : m <= now => m <= now'
  BY <1>1
<1>4. ~Started(w) => /\ \A i \in DOMAIN competentAuthority :
                          competentAuthority[i].by # w /\ competentAuthority[i].endedBy # w
                     /\ \A i \in DOMAIN area : area[i].by # w /\ area[i].endedBy # w
                     /\ \A i \in DOMAIN activity : activity[i].by # w
  BY DEF WorkerInv, HoldsNothing
<1>5. Started(w) => OwnRows(w, txn[w].pc, txn[w].version)
  BY DEF WorkerInv, Fits
<1>6. /\ RowsMarked(competentAuthority, Workers) /\ RowsMarked(area, Workers) /\ 0 <= now
  BY <1>1 DEF Marked
<1>7. ASSUME NEW i \in Committed(competentAuthority')
      PROVE  competentAuthority'[i].createdAt <= now' /\ competentAuthority'[i].endedAt <= now'
  <2>1. i \in DOMAIN competentAuthority /\ (i \in Committed(competentAuthority) \/ competentAuthority[i].by = w)
    BY <1>1, <1>2, StepKeepsCommitted
  <2>2. competentAuthority[i].createdAt \in Nat /\ competentAuthority[i].endedAt \in Nat
    BY <2>1, RowTypes
  <2>3. competentAuthority[i].createdAt <= now /\ competentAuthority[i].endedAt <= now
    <3>1. CASE i \in Committed(competentAuthority)
      BY <3>1 DEF Past
    <3>2. CASE competentAuthority[i].by = w
      <4>1. competentAuthority[i].createdAt = txn[w].time /\ txn[w].time <= now
        BY <1>2, <1>4, <1>5, <2>1, <3>2 DEF OwnRows
      <4>2. competentAuthority[i].endedAt = 0
        BY <1>6, <2>1, <3>2 DEF RowsMarked, IsCurrent, NotEnded
      <4> QED
        BY <1>6, <4>1, <4>2
    <3> QED
      BY <2>1, <3>1, <3>2
  <2>4. competentAuthority[i].endedBy = w => txn[w].time \in Nat /\ txn[w].time <= now
    BY <1>2, <1>4, <2>1
  <2> QED
    BY <1>1, <1>3, <2>1, <2>2, <2>3, <2>4, EndsStamped
<1>8. ASSUME NEW i \in Committed(area')
      PROVE  area'[i].createdAt <= now' /\ area'[i].endedAt <= now'
  <2>1. i \in DOMAIN area /\ (i \in Committed(area) \/ area[i].by = w)
    BY <1>1, <1>2, StepKeepsCommitted
  <2>2. area[i].createdAt \in Nat /\ area[i].endedAt \in Nat
    BY <2>1, RowTypes
  <2>3. area[i].createdAt <= now /\ area[i].endedAt <= now
    <3>1. CASE i \in Committed(area)
      BY <3>1 DEF Past
    <3>2. CASE area[i].by = w
      <4>1. area[i].createdAt = txn[w].time /\ txn[w].time <= now
        BY <1>2, <1>4, <1>5, <2>1, <3>2 DEF OwnRows
      <4>2. area[i].endedAt = 0
        BY <1>6, <2>1, <3>2 DEF RowsMarked, IsCurrent, NotEnded
      <4> QED
        BY <1>6, <4>1, <4>2
    <3> QED
      BY <2>1, <3>1, <3>2
  <2>4. area[i].endedBy = w => txn[w].time \in Nat /\ txn[w].time <= now
    BY <1>2, <1>4, <2>1
  <2> QED
    BY <1>1, <1>3, <2>1, <2>2, <2>3, <2>4, EndsStamped
<1>9. ASSUME NEW i \in Committed(activity')
      PROVE  activity'[i].createdAt <= now'
  <2>1. i \in DOMAIN activity /\ (i \in Committed(activity) \/ activity[i].by = w)
    BY <1>1, <1>2, StepKeepsCommitted
  <2>2. activity[i].createdAt \in Nat /\ activity'[i].createdAt = activity[i].createdAt
    BY <1>1, <2>1, RowTypes, EndsStamped
  <2>3. activity[i].createdAt <= now
    BY <1>2, <1>4, <1>5, <2>1 DEF OwnRows, Past
  <2> QED
    BY <1>3, <2>2, <2>3
<1> QED
  BY <1>7, <1>8, <1>9 DEF Past

\* An area becomes visible together with the version that announced it.
LEMMA AnnouncedKept ==
  ASSUME Typed, AnnouncedTogether, NEW w \in Workers, Moves(w), WorkerInv(w)
  PROVE  AnnouncedTogether'
<1>1. /\ StepOf(competentAuthority, competentAuthority', w, txn[w].time)
      /\ StepOf(area, area', w, txn[w].time)
      /\ \A i \in DOMAIN area : area'[i].competentAuthority = area[i].competentAuthority
      /\ w \notin {"committed", "aborted", "nobody"}
  BY WorkerTypes DEF Moves
<1> SUFFICES ASSUME NEW i \in Committed(area')
             PROVE  LET a == area'[i].competentAuthority
                    IN  /\ a \in Committed(competentAuthority')
                        /\ competentAuthority'[a].createdAt = area'[i].createdAt
  BY DEF AnnouncedTogether
<1>2. i \in DOMAIN area /\ (i \in Committed(area) \/ area[i].by = w)
  BY <1>1, StepKeepsCommitted
<1>3. PICK a : a = area[i].competentAuthority
  OBVIOUS
<1>4. area'[i].competentAuthority = a /\ area'[i].createdAt = area[i].createdAt
  BY <1>1, <1>2, <1>3, EndsStamped
<1>5. CASE i \in Committed(area)
  <2>1. a \in Committed(competentAuthority) /\ competentAuthority[a].createdAt = area[i].createdAt
    BY <1>3, <1>5 DEF AnnouncedTogether
  <2>2. a \in DOMAIN competentAuthority /\ a \in Committed(competentAuthority')
    BY <1>1, <2>1, StepKeepsCommitted DEF Committed
  <2> QED
    BY <1>1, <1>4, <2>1, <2>2, EndsStamped
<1>6. CASE i \notin Committed(area)
  <2>1. area[i].by = w /\ IsCommitted(w)
    BY <1>2, <1>6, BecomesVisible
  <2>2. OwnRows(w, "answered", txn[w].version)
    BY <2>1, BecomesVisible DEF Fits
  <2>3. /\ Kind(w) = "post" /\ area[i].createdAt = txn[w].time /\ a = txn[w].version
    BY <1>2, <1>3, <2>1, <2>2 DEF OwnRows
  <2>4. a \in DOMAIN competentAuthority /\ competentAuthority[a].by = w
    BY <2>2, <2>3 DEF OwnRows, WithAuthority
  <2>5. competentAuthority[a].createdAt = txn[w].time
    BY <2>2, <2>4 DEF OwnRows
  <2>6. competentAuthority'[a].by = "committed" /\ a \in DOMAIN competentAuthority'
    BY <2>1, <2>4, CommitRows DEF RowCommitted
  <2> QED
    BY <1>1, <1>4, <2>3, <2>4, <2>5, <2>6, EndsStamped DEF Committed
<1> QED
  BY <1>5, <1>6

\* Versions are stacked as long as nothing is committed, ...
LEMMA UnseenStacks ==
  ASSUME NEW old, NEW new, NEW w, w \notin {"committed", "aborted", "nobody"}, NEW t,
         StepOf(old, new, w, t), Unseen(old, new), NEW ids, CommittedStacked(old, ids)
  PROVE  CommittedStacked(new, ids)
<1>1. Committed(new) = Committed(old)
  BY StepKeepsCommitted
<1>2. \A i \in Committed(old) : /\ new[i].fid = old[i].fid /\ new[i].createdAt = old[i].createdAt
                                /\ new[i].endedAt = old[i].endedAt
  BY DEF Committed, StepOf, Unseen
<1> QED
  BY <1>1, <1>2 DEF CommittedStacked, IsCurrent

\* ... and after a commit, if the new version follows what was committed.
LEMMA CommitStacks ==
  ASSUME NEW W, NEW old, NEW new, NEW w \in W, NEW t \in Nat \ {0},
         DOMAIN new = DOMAIN old, \A i \in DOMAIN old : RowCommitted(old[i], new[i], w, t),
         w \notin {"committed", "aborted", "nobody"}, RowsMarked(old, W),
         \A i \in DOMAIN old : i \in Nat /\ old[i].endedAt \in Nat,
         NEW ids, CommittedStacked(old, ids), NEW x,
         \A j \in DOMAIN old : old[j].by = w => old[j].fid = x /\ old[j].createdAt = t,
         \A j, k \in DOMAIN old : old[j].by = w /\ old[k].by = w => j = k,
         \A i \in CommittedOf(old, x), j \in DOMAIN old :
            x \in ids /\ old[j].by = w
              => /\ i < j /\ old[i].endedAt < t
                 /\ IsCurrent(old[i]) => old[i].endedBy = w
  PROVE  CommittedStacked(new, ids)
<1> SUFFICES ASSUME NEW i \in Committed(new), NEW j \in Committed(new), i < j,
                    new[i].fid = new[j].fid, new[i].fid \in ids
             PROVE  ~IsCurrent(new[i]) /\ new[i].endedAt <= new[j].createdAt
  BY DEF CommittedStacked
<1>1. /\ i \in DOMAIN old /\ j \in DOMAIN old /\ i \in Nat /\ j \in Nat
      /\ i \in Committed(old) \/ old[i].by = w
      /\ j \in Committed(old) \/ old[j].by = w
      /\ old[i].fid = old[j].fid /\ old[i].fid \in ids
      /\ new[j].createdAt = old[j].createdAt /\ old[i].endedAt \in Nat
      /\ new[i].endedAt = IF old[i].endedBy = w THEN t ELSE old[i].endedAt
  BY DEF Committed, RowCommitted
<1>2. CASE i \in Committed(old) /\ j \in Committed(old)
  <2>1. ~IsCurrent(old[i]) /\ old[i].endedAt <= old[j].createdAt
    BY <1>1, <1>2 DEF CommittedStacked
  <2>2. old[i].endedBy # w
    BY <1>1, <2>1 DEF RowsMarked
  <2> QED
    BY <1>1, <2>1, <2>2 DEF IsCurrent
<1>3. CASE i \in Committed(old) /\ old[j].by = w
  <2>1. i \in CommittedOf(old, x) /\ x \in ids /\ old[j].createdAt = t
    BY <1>1, <1>3 DEF CommittedOf
  <2>2. old[i].endedAt < t /\ (IsCurrent(old[i]) => old[i].endedBy = w)
    BY <1>1, <1>3, <2>1
  <2> QED
    BY <1>1, <2>1, <2>2 DEF IsCurrent, NotEnded
<1>4. CASE old[i].by = w /\ j \in Committed(old)
  <2>1. j \in CommittedOf(old, x) /\ x \in ids
    BY <1>1, <1>4 DEF CommittedOf
  <2>2. j < i
    BY <1>1, <1>4, <2>1
  <2> QED
    BY <1>1, <2>2
<1>5. CASE old[i].by = w /\ old[j].by = w
  <2>1. i = j
    BY <1>1, <1>5
  <2> QED
    BY <1>1, <2>1
<1> QED
  BY <1>1, <1>2, <1>3, <1>4, <1>5

\* A commit stacks the versions of the authority of w and of its area.
LEMMA CommitStacksBoth ==
  ASSUME Typed, Marked, VersionsStacked, NEW w \in Workers, WorkerInv(w), IsCommitted(w)
  PROVE  VersionsStacked'
<1>1. PICK t, c, x :
        t = txn[w].time /\ c = Ca(w) /\ x = AreaIdOf(w)
  OBVIOUS
<1>2. /\ Fits(w, "answered", txn[w].owner, txn[w].targets, txn[w].version)
      /\ Started(w) /\ overlapped' = overlapped
  BY DEF IsCommitted, Started, WorkerInv, Ends
<1>3. /\ t \in Nat \ {0} /\ w \notin {"committed", "aborted", "nobody"}
      /\ RowsMarked(competentAuthority, Workers) /\ RowsMarked(area, Workers)
      /\ txn[w].request \in Requests
  BY <1>1, <1>2, WorkerTypes DEF Marked, Timestamps
<1>4. /\ OwnRows(w, "answered", txn[w].version)
      /\ OnAuthority(w, "answered", txn[w].targets, txn[w].version)
      /\ OnArea(w, "answered", txn[w].owner, txn[w].targets, txn[w].version)
  BY <1>2 DEF Fits
<1>5. CommittedStacked(competentAuthority', CompetentAuthorities \ overlapped)
  <2>1. PICK new : new = competentAuthority'
    OBVIOUS
  <2>2. /\ DOMAIN new = DOMAIN competentAuthority
        /\ \A i \in DOMAIN competentAuthority : RowCommitted(competentAuthority[i], new[i], w, t)
    BY <1>1, <2>1, CommitRows
  <2>3. \A j \in DOMAIN competentAuthority :
          competentAuthority[j].by = w
            => /\ competentAuthority[j].fid = c /\ competentAuthority[j].createdAt = t
               /\ j = txn[w].version /\ Kind(w) = "post"
    BY <1>1, <1>4 DEF OwnRows
  <2>4. \A i \in CommittedOf(competentAuthority, c), j \in DOMAIN competentAuthority :
          c \in CompetentAuthorities \ overlapped /\ competentAuthority[j].by = w
            => /\ i < j /\ competentAuthority[i].endedAt < t
               /\ IsCurrent(competentAuthority[i]) => competentAuthority[i].endedBy = w
    BY <1>1, <1>4, <2>3 DEF OnAuthority, OlderThan, CurrentOf, WithAuthority
  <2>5. \A j, k \in DOMAIN competentAuthority :
          competentAuthority[j].by = w /\ competentAuthority[k].by = w => j = k
    BY <2>3
  <2>6. /\ \A i \in DOMAIN competentAuthority : i \in Nat /\ competentAuthority[i].endedAt \in Nat
        /\ CommittedStacked(competentAuthority, CompetentAuthorities \ overlapped)
    BY RowTypes DEF VersionsStacked
  <2>7. CommittedStacked(new, CompetentAuthorities \ overlapped)
    BY <1>3, <2>2, <2>3, <2>4, <2>5, <2>6, CommitStacks
  <2> QED
    BY <2>1, <2>7
<1>6. CommittedStacked(area', AllAreaIds \ overlapped)
  <2>1. PICK new : new = area'
    OBVIOUS
  <2>2. /\ DOMAIN new = DOMAIN area
        /\ \A i \in DOMAIN area : RowCommitted(area[i], new[i], w, t)
    BY <1>1, <2>1, CommitRows
  <2>3. \A j \in DOMAIN area :
          area[j].by = w => area[j].fid = x /\ area[j].createdAt = t /\ Kind(w) = "post"
    BY <1>1, <1>4 DEF OwnRows
  <2>4. \A i \in CommittedOf(area, x), j \in DOMAIN area :
          x \in AllAreaIds \ overlapped /\ area[j].by = w
            => /\ i < j /\ area[i].endedAt < t
               /\ IsCurrent(area[i]) => area[i].endedBy = w
    BY <1>1, <1>4, <2>3 DEF OnArea, OlderThan, CurrentOf
  <2>5. \A j, k \in DOMAIN area : area[j].by = w /\ area[k].by = w => j = k
    BY <1>4 DEF OwnRows
  <2>6. /\ \A i \in DOMAIN area : i \in Nat /\ area[i].endedAt \in Nat
        /\ CommittedStacked(area, AllAreaIds \ overlapped)
    BY RowTypes DEF VersionsStacked
  <2>7. CommittedStacked(new, AllAreaIds \ overlapped)
    BY <1>3, <2>2, <2>3, <2>4, <2>5, <2>6, CommitStacks
  <2> QED
    BY <2>1, <2>7
<1> QED
  BY <1>2, <1>5, <1>6 DEF VersionsStacked

\* Every step keeps the versions stacked.
LEMMA StackedKept ==
  ASSUME Typed, Marked, VersionsStacked, NEW w \in Workers, WorkerInv(w), Moves(w)
  PROVE  VersionsStacked'
<1>1. CASE IsCommitted(w)
  BY <1>1, CommitStacksBoth
<1>2. CASE Unseen(competentAuthority, competentAuthority') /\ Unseen(area, area')
  <2>1. /\ StepOf(competentAuthority, competentAuthority', w, txn[w].time)
        /\ StepOf(area, area', w, txn[w].time)
        /\ w \notin {"committed", "aborted", "nobody"} /\ overlapped \subseteq overlapped'
    BY WorkerTypes DEF Moves, Frame
  <2>2. /\ CommittedStacked(competentAuthority', CompetentAuthorities \ overlapped)
        /\ CommittedStacked(area', AllAreaIds \ overlapped)
    BY <1>2, <2>1, UnseenStacks DEF VersionsStacked
  <2> QED
    BY <2>1, <2>2 DEF VersionsStacked, CommittedStacked
<1> QED
  BY <1>1, <1>2 DEF Moves

\* A version stays in force at a time before the commit that ends it.
LEMMA InForceAfter ==
  ASSUME NEW old, NEW new, NEW w, NEW t, StepOf(old, new, w, t), NEW a \in DOMAIN old,
         NEW time, InForceAt(old[a], time), old[a].endedBy = w => time < t
  PROVE  InForceAt(new[a], time)
<1>1. /\ new[a].createdAt = old[a].createdAt
      /\ new[a].endedAt = old[a].endedAt \/ (old[a].endedBy = w /\ new[a].endedAt = t)
  BY EndsStamped
<1> QED
  BY <1>1 DEF InForceAt, IsCurrent

\* The version that announced an area is in force at that time.
LEMMA AuthorityInForceKept ==
  ASSUME Typed, Marked, AnnouncedTogether, AnnouncedTogether', ReferencesInForce,
         NEW w \in Workers, WorkerInv(w), Moves(w), NEW i \in Committed(area'),
         competentAuthority'[area'[i].competentAuthority].fid \notin overlapped'
  PROVE  InForceAt(competentAuthority'[area'[i].competentAuthority], area'[i].createdAt)
<1>1. PICK a, t, c, n :
        a = area'[i].competentAuthority /\ t = txn[w].time /\ c = Ca(w) /\ n = area'[i].createdAt
  OBVIOUS
<1>2. /\ StepOf(competentAuthority, competentAuthority', w, t) /\ StepOf(area, area', w, t)
      /\ w \notin {"committed", "aborted", "nobody"} /\ overlapped \subseteq overlapped'
      /\ \A k \in DOMAIN area : area'[k].competentAuthority = area[k].competentAuthority
  BY <1>1, WorkerTypes DEF Moves, Frame
<1>3. a \in Committed(competentAuthority') /\ competentAuthority'[a].createdAt = n
  BY <1>1 DEF AnnouncedTogether
<1>4. /\ a \in DOMAIN competentAuthority /\ i \in DOMAIN area
      /\ i \in Committed(area) \/ area[i].by = w
  BY <1>2, <1>3, StepKeepsCommitted
<1>5. /\ competentAuthority'[a].fid = competentAuthority[a].fid
      /\ competentAuthority[a].fid \in CompetentAuthorities \ overlapped
      /\ competentAuthority[a].createdAt = n /\ area[i].createdAt = n
      /\ area[i].competentAuthority = a /\ n \in Nat
  BY <1>1, <1>2, <1>3, <1>4, RowTypes, EndsStamped
<1>6. CASE i \in Committed(area)
  <2>1. InForceAt(competentAuthority[a], n) /\ a \in Committed(competentAuthority)
    BY <1>5, <1>6 DEF ReferencesInForce, AnnouncedTogether
  <2>2. ASSUME competentAuthority[a].endedBy = w
        PROVE  n < t
    <3>1. Started(w)
      BY <1>4, <2>2 DEF WorkerInv, HoldsNothing
    <3>2. Fits(w, txn[w].pc, txn[w].owner, txn[w].targets, txn[w].version)
      BY <3>1 DEF WorkerInv
    <3>3. competentAuthority[a].fid = c
      BY <1>1, <1>4, <2>2, <3>2 DEF Fits, Locks
    <3>4. OlderThan(competentAuthority, c, t)
      BY <1>1, <1>5, <3>2, <3>3 DEF Fits, OnAuthority
    <3> QED
      BY <1>5, <2>1, <3>3, <3>4 DEF OlderThan, CommittedOf
  <2>3. InForceAt(competentAuthority'[a], n)
    BY <1>2, <1>4, <2>1, <2>2, InForceAfter
  <2> QED
    BY <1>1, <2>3
<1>7. CASE i \notin Committed(area)
  <2>1. area[i].by = w /\ IsCommitted(w)
    BY <1>4, <1>7, BecomesVisible
  <2>2. OwnRows(w, "answered", txn[w].version)
    BY <2>1, BecomesVisible DEF Fits
  <2>3. Kind(w) = "post" /\ a = txn[w].version
    BY <1>4, <1>5, <2>1, <2>2 DEF OwnRows
  <2>4. competentAuthority[a].by = w
    BY <2>2, <2>3 DEF OwnRows, WithAuthority
  <2>5. IsCurrent(competentAuthority[a]) /\ competentAuthority[a].endedBy # w
    BY <1>2, <1>4, <2>4 DEF Marked, RowsMarked
  <2>6. InForceAt(competentAuthority[a], n)
    BY <1>5, <2>5 DEF InForceAt
  <2>7. InForceAt(competentAuthority'[a], n)
    BY <1>2, <1>4, <2>5, <2>6, InForceAfter
  <2> QED
    BY <1>1, <2>7
<1> QED
  BY <1>6, <1>7

\* An activity refers to a visible area, ...
LEMMA ReportsKept ==
  ASSUME Typed, ReferencesInForce, NEW w \in Workers, WorkerInv(w), Moves(w),
         NEW i \in Committed(activity')
  PROVE  activity'[i].area = activity[i].area /\ activity[i].area \in Committed(area)
<1>1. /\ StepOf(activity, activity', w, txn[w].time)
      /\ w \notin {"committed", "aborted", "nobody"}
      /\ \A k \in DOMAIN activity : activity'[k].area = activity[k].area
  BY WorkerTypes DEF Moves
<1>2. /\ i \in DOMAIN activity /\ activity'[i].area = activity[i].area
      /\ i \in Committed(activity) \/ activity[i].by = w
  BY <1>1, StepKeepsCommitted
<1>3. CASE i \in Committed(activity)
  BY <1>2, <1>3 DEF ReferencesInForce
<1>4. CASE i \notin Committed(activity)
  <2>1. activity[i].by = w /\ IsCommitted(w)
    BY <1>2, <1>4, BecomesVisible
  <2>2. OwnRows(w, "answered", txn[w].version)
    BY <2>1, BecomesVisible DEF Fits
  <2>3. Kind(w) = "report" /\ activity[i].area = txn[w].version
    BY <1>2, <2>1, <2>2 DEF OwnRows
  <2> QED
    BY <1>2, <2>2, <2>3 DEF OwnRows, CommittedOf
<1> QED
  BY <1>3, <1>4

\* ... which was in force.
LEMMA AreaInForceKept ==
  ASSUME Typed, ReferencesInForce, NEW w \in Workers, WorkerInv(w), Moves(w),
         NEW i \in Committed(activity'), area'[activity'[i].area].fid \notin overlapped'
  PROVE  InForceAt(area'[activity'[i].area], activity'[i].createdAt)
<1>1. PICK a, t, x, n :
        a = activity[i].area /\ t = txn[w].time /\ x = AreaIdOf(w) /\ n = activity[i].createdAt
  OBVIOUS
<1>2. /\ StepOf(area, area', w, t) /\ StepOf(activity, activity', w, t)
      /\ w \notin {"committed", "aborted", "nobody"} /\ overlapped \subseteq overlapped'
  BY <1>1, WorkerTypes DEF Moves, Frame
<1>3. a \in Committed(area) /\ activity'[i].area = a
  BY <1>1, ReportsKept
<1>4. /\ a \in DOMAIN area /\ i \in DOMAIN activity
      /\ i \in Committed(activity) \/ activity[i].by = w
  BY <1>2, <1>3, StepKeepsCommitted DEF Committed
<1>5. area'[a].fid = area[a].fid /\ area[a].fid \notin overlapped /\ activity'[i].createdAt = n
  BY <1>1, <1>2, <1>3, <1>4, EndsStamped
<1>6. CASE i \in Committed(activity)
  <2>1. InForceAt(area[a], n)
    BY <1>1, <1>5, <1>6 DEF ReferencesInForce
  <2>2. ASSUME area[a].endedBy = w
        PROVE  n < t
    <3>1. Started(w)
      BY <1>4, <2>2 DEF WorkerInv, HoldsNothing
    <3>2. Fits(w, txn[w].pc, txn[w].owner, txn[w].targets, txn[w].version)
      BY <3>1 DEF WorkerInv
    <3>3. area[a].fid = x
      BY <1>1, <1>4, <2>2, <3>2 DEF Fits, Locks
    <3> QED
      BY <1>1, <1>5, <1>6, <3>2, <3>3 DEF Fits, OnArea
  <2>3. InForceAt(area'[a], n)
    BY <1>2, <1>4, <2>1, <2>2, InForceAfter
  <2> QED
    BY <1>3, <1>5, <2>3
<1>7. CASE i \notin Committed(activity)
  <2>1. activity[i].by = w /\ IsCommitted(w)
    BY <1>4, <1>7, BecomesVisible
  <2>2. Fits(w, "answered", txn[w].owner, txn[w].targets, txn[w].version)
    BY <2>1, BecomesVisible
  <2>3. Kind(w) = "report" /\ a = txn[w].version /\ n = t
    BY <1>1, <1>4, <2>1, <2>2 DEF Fits, OwnRows
  <2>4. a \in CommittedOf(area, x)
    BY <1>1, <2>2, <2>3 DEF Fits, OwnRows
  <2>5. x \notin overlapped
    BY <1>5, <2>4 DEF CommittedOf
  <2>6. OlderThan(area, x, t) /\ IsCurrent(area[a])
    BY <1>1, <2>2, <2>3, <2>5 DEF Fits, OnArea
  <2>7. area[a].endedBy # w
    BY <1>4, <2>2, <2>3 DEF Fits, Locks
  <2>8. area[a].createdAt \in Nat /\ t \in Nat /\ area[a].createdAt < t
    BY <1>1, <1>4, <2>1, <2>4, <2>6, BecomesVisible, RowTypes, WorkerTypes DEF OlderThan
  <2>9. InForceAt(area[a], n)
    BY <2>3, <2>6, <2>8 DEF InForceAt
  <2>10. InForceAt(area'[a], n)
    BY <1>2, <1>4, <2>7, <2>9, InForceAfter
  <2> QED
    BY <1>3, <1>5, <2>10
<1> QED
  BY <1>6, <1>7

\* Every step keeps the references in force.
LEMMA ReferencesKept ==
  ASSUME Typed, Marked, AnnouncedTogether, ReferencesInForce,
         NEW w \in Workers, WorkerInv(w), Moves(w)
  PROVE  ReferencesInForce'
<1>1. AnnouncedTogether'
  BY AnnouncedKept
<1>2. ASSUME NEW i \in Committed(area')
      PROVE  LET a == area'[i].competentAuthority
             IN  /\ a \in Committed(competentAuthority')
                 /\ \/ competentAuthority'[a].fid \in overlapped'
                    \/ InForceAt(competentAuthority'[a], area'[i].createdAt)
  BY <1>1, AuthorityInForceKept DEF AnnouncedTogether
<1>3. ASSUME NEW i \in Committed(activity')
      PROVE  LET a == activity'[i].area
             IN  /\ a \in Committed(area')
                 /\ \/ area'[a].fid \in overlapped'
                    \/ InForceAt(area'[a], activity'[i].createdAt)
  <2>1. activity'[i].area \in Committed(area')
    <3>1. StepOf(area, area', w, txn[w].time) /\ w \notin {"committed", "aborted", "nobody"}
      BY WorkerTypes DEF Moves
    <3> QED
      BY <3>1, ReportsKept, StepKeepsCommitted
  <2> QED
    BY <2>1, AreaInForceKept
<1> QED
  BY <1>2, <1>3 DEF ReferencesInForce

-----------------------------------------------------------------------------
(***************************************************************************)
(* The invariant is inductive                                              *)
(***************************************************************************)

\* It holds of the empty database.
LEMMA AreaTransactionsInit ==
  ASSUME Init
  PROVE  AreaTransactionsInv
<1>1. \A w \in Workers : ~Started(w)
  BY DEF Init, Idle, Started
<1>2. Typed
  <2>1. MaxTime \in Nat
    BY AreaTransactionConstantsAssumption
  <2>2. txn \in [Workers -> Transaction]
    BY IdleType DEF Init
  <2> QED
    BY <1>1, <2>1, <2>2 DEF Init, Typed, RequestKept
<1>3. \A w \in Workers : WorkerInv(w)
  BY <1>1 DEF Init, WorkerInv, HoldsNothing
<1>4. OverlapsNoted /\ Marked /\ Past /\ AnnouncedTogether
  BY <1>1 DEF Init, OverlapsNoted, Marked, RowsMarked, Past, AnnouncedTogether, Committed
<1>5. VersionsStacked /\ ReferencesInForce
  BY DEF Init, VersionsStacked, CommittedStacked, ReferencesInForce, Committed
<1> QED
  BY <1>2, <1>3, <1>4, <1>5 DEF AreaTransactionsInv

\* It looks at the variables only.
LEMMA AreaTransactionsStutter ==
  ASSUME AreaTransactionsInv, UNCHANGED vars
  PROVE  AreaTransactionsInv'
<1>1. UNCHANGED <<competentAuthority, area, activity, now, txn, finished, overlapped>>
  BY DEF vars, tables
<1>2. Typed'
  BY <1>1 DEF AreaTransactionsInv, Typed, RequestKept, Started, Kind
<1>3. OverlapsNoted' /\ Marked'
  BY <1>1 DEF AreaTransactionsInv, OverlapsNoted, Started, Marked, RowsMarked
<1>4. Past' /\ AnnouncedTogether'
  BY <1>1 DEF AreaTransactionsInv, Past, AnnouncedTogether, Committed
<1>5. VersionsStacked' /\ ReferencesInForce'
  BY <1>1 DEF AreaTransactionsInv, VersionsStacked, ReferencesInForce
<1>6. ASSUME NEW w \in Workers
      PROVE  WorkerInv(w)'
  <2>1. /\ Kind(w)' = Kind(w) /\ Ca(w)' = Ca(w) /\ AreaIdOf(w)' = AreaIdOf(w)
        /\ (Started(w)' <=> Started(w)) /\ WorkerInv(w)
    BY <1>1 DEF AreaTransactionsInv, Kind, Ca, AreaIdOf, Started
  <2>2. CASE ~Started(w)
    BY <1>1, <2>1, <2>2 DEF WorkerInv, HoldsNothing
  <2>3. CASE Started(w)
    <3>1. PICK pc, o, t, v :
            pc = txn[w].pc /\ o = txn[w].owner /\ t = txn[w].targets /\ v = txn[w].version
      OBVIOUS
    <3>2. Fits(w, pc, o, t, v)
      BY <2>1, <2>3, <3>1 DEF WorkerInv
    <3>3. Locks(w, pc, t)' /\ OwnRows(w, pc, v)'
      BY <1>1, <2>1, <3>2 DEF Fits, Locks, OwnRows
    <3>4. OnAuthority(w, pc, t, v)' /\ OnArea(w, pc, o, t, v)'
      BY <1>1, <2>1, <3>2 DEF Fits, OnAuthority, OnArea
    <3> QED
      BY <1>1, <2>1, <2>3, <3>1, <3>3, <3>4 DEF WorkerInv, Fits
  <2> QED
    BY <2>2, <2>3
<1> QED
  BY <1>2, <1>3, <1>4, <1>5, <1>6 DEF AreaTransactionsInv

\* A step is the step of a worker, and keeps what the invariant says of it.
LEMMA NextStepsWell ==
  ASSUME AreaTransactionsInv, Next
  PROVE  \E w \in Workers : StepBy(w) /\ StepsWell(w)
<1>1. PICK w \in Workers : StepBy(w)
  BY DEF Next, StepBy
<1>2. /\ Typed /\ Marked /\ Past /\ VersionsStacked /\ WorkerInv(w)
      /\ \A k \in Committed(activity) : activity[k].area \in Committed(area)
  BY DEF AreaTransactionsInv, ReferencesInForce
<1>3. StepsWell(w)
  BY <1>1, <1>2, StepKept
<1> QED
  BY <1>1, <1>3

\* Every step keeps it.
LEMMA AreaTransactionsStep ==
  ASSUME AreaTransactionsInv, Next
  PROVE  AreaTransactionsInv'
<1>1. PICK w \in Workers : StepBy(w) /\ StepsWell(w)
  BY NextStepsWell
<1>2. /\ Typed /\ OverlapsNoted /\ Marked /\ Past /\ AnnouncedTogether
      /\ \A v \in Workers : WorkerInv(v)
      /\ VersionsStacked /\ ReferencesInForce
      /\ \A k \in Committed(activity) : activity[k].area \in Committed(area)
  BY DEF AreaTransactionsInv, ReferencesInForce
<1>3. Moves(w) /\ RequestKept(w)' /\ WorkerInv(w)' /\ WorkerInv(w)
  BY <1>1, <1>2 DEF StepsWell
<1>4. \A v \in Workers \ {w} : RequestKept(v)' /\ WorkerInv(v)'
  BY <1>2, <1>3, OthersKeep
<1>5. Typed'
  BY <1>3, <1>4 DEF Moves, Frame, Typed
<1>6. OverlapsNoted' /\ Marked'
  BY <1>1, <1>2, <1>3, OverlapsKept, MarkedKept
<1>7. Past' /\ AnnouncedTogether'
  BY <1>2, <1>3, PastKept, AnnouncedKept
<1>8. VersionsStacked' /\ ReferencesInForce'
  BY <1>2, <1>3, StackedKept, ReferencesKept
<1> QED
  BY <1>3, <1>4, <1>5, <1>6, <1>7, <1>8 DEF AreaTransactionsInv

\* The invariant of all interleavings.
THEOREM AreaTransactionsInvariant == Spec => []AreaTransactionsInv
<1>1. Init => AreaTransactionsInv
  BY AreaTransactionsInit
<1>2. AreaTransactionsInv /\ [Next]_vars => AreaTransactionsInv'
  BY AreaTransactionsStep, AreaTransactionsStutter
<1> QED
  BY <1>1, <1>2, PTL DEF Spec

-----------------------------------------------------------------------------
(***************************************************************************)
(* The properties                                                          *)
(***************************************************************************)

\* Whatever the requests of other authorities do meanwhile, the committed
\* versions of an authority and of an area follow each other.
THEOREM AreaVersionsStacked == Spec => []VersionsStacked
<1>1. AreaTransactionsInv => VersionsStacked
  BY DEF AreaTransactionsInv
<1> QED
  BY <1>1, AreaTransactionsInvariant, PTL

\* A committed area or activity refers to a committed version that was in force
\* when it was stored.
THEOREM AreaReferencesInForce == Spec => []ReferencesInForce
<1>1. AreaTransactionsInv => ReferencesInForce
  BY DEF AreaTransactionsInv
<1> QED
  BY <1>1, AreaTransactionsInvariant, PTL

\* A functional id that was ended stays so unless its new version is committed
\* by a request that found it in use.
LEMMA StaysEnded ==
  ASSUME NEW W, NEW old, NEW new, NEW w \in W, w \notin {"committed", "aborted", "nobody"},
         NEW t, StepOf(old, new, w, t), RowsMarked(old, W), NEW ids,
         \A i \in Committed(new) \ Committed(old) :
            old[i].fid \in ids => InUse(old, old[i].fid)
  PROVE  CommittedStaysEnded(old, new, ids)
<1> SUFFICES ASSUME NEW x \in ids, Committed(old) \cap Versions(old, x) # {},
                    CommittedCurrent(old, x) = {}, NEW i \in CommittedCurrent(new, x)
             PROVE  FALSE
  BY DEF CommittedStaysEnded
<1>1. i \in Committed(new) /\ new[i].fid = x /\ IsCurrent(new[i])
  BY DEF CommittedCurrent, Versions
<1>2. i \in DOMAIN old /\ old[i].fid = x
  <2>1. i \in DOMAIN old
    BY <1>1, StepKeepsCommitted
  <2> QED
    BY <1>1, <2>1, EndsStamped
<1>3. CommittedOf(old, x) # {} /\ CurrentOf(old, x) = {}
  BY DEF CommittedOf, CurrentOf, CommittedCurrent, Versions, Committed
<1>4. i \in Committed(old)
  BY <1>1, <1>2, <1>3 DEF InUse
<1>5. ~IsCurrent(old[i])
  BY <1>2, <1>3, <1>4 DEF CurrentOf, CommittedOf
<1>6. old[i].endedBy # w
  BY <1>2, <1>5 DEF RowsMarked
<1> QED
  BY <1>1, <1>2, <1>5, <1>6, EndsStamped DEF IsCurrent

\* No step gives an id a current version that was ended for good.
LEMMA StepStaysEnded ==
  ASSUME Typed, Marked, NEW w \in Workers, WorkerInv(w), Moves(w)
  PROVE  /\ CommittedStaysEnded(area, area', AreaIds \ overlapped)
         /\ CommittedStaysEnded(competentAuthority, competentAuthority',
                                CompetentAuthorities \ overlapped)
<1>1. /\ StepOf(competentAuthority, competentAuthority', w, txn[w].time)
      /\ StepOf(area, area', w, txn[w].time)
      /\ w \notin {"committed", "aborted", "nobody"}
      /\ RowsMarked(competentAuthority, Workers) /\ RowsMarked(area, Workers)
  BY WorkerTypes DEF Moves, Marked
<1>2. ASSUME NEW i \in Committed(competentAuthority') \ Committed(competentAuthority),
             competentAuthority[i].fid \in CompetentAuthorities \ overlapped
      PROVE  InUse(competentAuthority, competentAuthority[i].fid)
  <2>1. i \in DOMAIN competentAuthority /\ competentAuthority[i].by = w /\ IsCommitted(w)
    BY BecomesVisible
  <2>2. Fits(w, "answered", txn[w].owner, txn[w].targets, txn[w].version)
    BY <2>1, BecomesVisible
  <2>3. Kind(w) = "post" /\ competentAuthority[i].fid = Ca(w)
    BY <2>1, <2>2 DEF Fits, OwnRows
  <2> QED
    BY <1>2, <2>2, <2>3 DEF Fits, OnAuthority, WithAuthority
<1>3. ASSUME NEW i \in Committed(area') \ Committed(area),
             area[i].fid \in AreaIds \ overlapped
      PROVE  InUse(area, area[i].fid)
  <2>1. i \in DOMAIN area /\ area[i].by = w /\ IsCommitted(w)
    BY BecomesVisible
  <2>2. Fits(w, "answered", txn[w].owner, txn[w].targets, txn[w].version)
    BY <2>1, BecomesVisible
  <2>3. Kind(w) = "post" /\ area[i].fid = AreaIdOf(w)
    BY <2>1, <2>2 DEF Fits, OwnRows
  <2> QED
    BY <1>3, <2>2, <2>3 DEF Fits, OnArea
<1>4. CommittedStaysEnded(area, area', AreaIds \ overlapped)
  BY <1>1, <1>3, StaysEnded
<1>5. CommittedStaysEnded(competentAuthority, competentAuthority', CompetentAuthorities \ overlapped)
  BY <1>1, <1>2, StaysEnded
<1> QED
  BY <1>4, <1>5

\* The commit of a DELETE leaves no current version.
LEMMA DeletedAtCommit ==
  ASSUME Typed, Marked, NEW w \in Workers, WorkerInv(w), IsCommitted(w), Kind(w) = "delete",
         txn[w].request.areaId \notin overlapped
  PROVE  CommittedCurrent(area', txn[w].request.areaId) = {}
<1>1. PICK t, x : t = txn[w].time /\ x = txn[w].request.areaId
  OBVIOUS
<1>2. Started(w) /\ Fits(w, "answered", txn[w].owner, txn[w].targets, txn[w].version)
  BY DEF IsCommitted, Started, WorkerInv
<1>3. x = AreaIdOf(w) /\ t \in Timestamps
  BY <1>1, <1>2, RequestIds, WorkerTypes
<1>4. \A i \in CurrentOf(area, x) : area[i].endedBy = w
  BY <1>1, <1>2, <1>3 DEF Fits, OnArea
<1>5. t # NotEnded
  BY <1>3 DEF Timestamps, NotEnded
<1> SUFFICES ASSUME NEW i \in CommittedCurrent(area', x)
             PROVE  FALSE
  BY <1>1
<1>6. i \in DOMAIN area' /\ area'[i].by = "committed" /\ area'[i].fid = x /\ IsCurrent(area'[i])
  BY DEF CommittedCurrent, Versions, Committed
<1>7. i \in DOMAIN area /\ RowCommitted(area[i], area'[i], w, t)
  BY <1>1, <1>6, CommitRows
<1>8. area[i].by # w
  BY <1>2, <1>7 DEF Fits, OwnRows
<1>9. i \in CommittedOf(area, x)
  BY <1>6, <1>7, <1>8 DEF RowCommitted, CommittedOf, Committed
<1>10. area[i].endedBy # w /\ IsCurrent(area[i])
  BY <1>5, <1>6, <1>7 DEF RowCommitted, IsCurrent
<1> QED
  BY <1>4, <1>9, <1>10 DEF CurrentOf

\* DELETE keeps its word: once it has committed the area has no current
\* version, and no request gives it one again.
THEOREM AreaDeletionHolds == Spec => DeletionHolds
<1>1. ASSUME AreaTransactionsInv, Next
      PROVE  /\ \A w \in Workers :
                  (/\ txn[w].pc = "answered" /\ txn[w].status = 204
                   /\ txn'[w].pc = "idle" /\ finished'.reply.status = 204)
                    => \/ txn[w].request.areaId \in overlapped
                       \/ CommittedCurrent(area', txn[w].request.areaId) = {}
             /\ CommittedStaysEnded(area, area', AreaIds \ overlapped)
             /\ CommittedStaysEnded(competentAuthority, competentAuthority',
                                    CompetentAuthorities \ overlapped)
  <2>1. PICK w \in Workers : StepBy(w) /\ StepsWell(w)
    BY <1>1, NextStepsWell
  <2>2. Typed /\ Marked /\ WorkerInv(w) /\ Moves(w)
    BY <1>1, <2>1 DEF AreaTransactionsInv, StepsWell
  <2>3. ASSUME NEW v \in Workers, txn[v].pc = "answered", txn[v].status = 204,
               txn'[v].pc = "idle", finished'.reply.status = 204,
               txn[v].request.areaId \notin overlapped
        PROVE  CommittedCurrent(area', txn[v].request.areaId) = {}
    <3>1. v = w
      BY <2>2, <2>3 DEF Moves, Frame, Untouched
    <3>2. ~Crash(w)
      BY <2>3 DEF Crash, RollBack, NoReply
    <3>3. Commit(w)
      BY <2>1, <2>3, <3>1, <3>2
         DEF StepBy, Start, Begin, Step, FindAuthority, AnyAuthority, EndAuthority, LockAuthority,
             FindArea, AnyArea, FindOwnArea, EndArea, LockArea, InsertArea, FindReportedArea, Report
    <3>4. IsCommitted(w)
      BY <2>2, <3>3, CommitEffect
    <3>5. Kind(w) = "delete"
      BY <2>2, <2>3, <3>1 DEF Typed, RequestKept, Started
    <3> QED
      BY <2>2, <2>3, <3>1, <3>4, <3>5, DeletedAtCommit
  <2> QED
    BY <2>2, <2>3, StepStaysEnded
<1>2. ASSUME UNCHANGED vars
      PROVE  UNCHANGED <<competentAuthority, area, activity, now, txn, finished, overlapped>>
  BY <1>2 DEF vars, tables
<1>3. AreaTransactionsInv /\ [Next]_vars =>
        [/\ \A w \in Workers :
                  (/\ txn[w].pc = "answered" /\ txn[w].status = 204
                   /\ txn'[w].pc = "idle" /\ finished'.reply.status = 204)
                    => \/ txn[w].request.areaId \in overlapped
                       \/ CommittedCurrent(area', txn[w].request.areaId) = {}
         /\ CommittedStaysEnded(area, area', AreaIds \ overlapped)
         /\ CommittedStaysEnded(competentAuthority, competentAuthority',
                                CompetentAuthorities \ overlapped)]_vars
  BY <1>1
<1> QED
  BY <1>3, AreaTransactionsInvariant, PTL DEF Spec, DeletionHolds

-----------------------------------------------------------------------------
(***************************************************************************)
(* A request that is served alone                                          *)
(***************************************************************************)

\* Nobody else is served meanwhile.
AloneIsAlone ==
  \A w \in Workers : Started(w) /\ txn[w].alone => \A v \in Workers \ {w} : ~Started(v)

\* The step of w is seen only in its own transaction record.
KeepsAlone(w) ==
  /\ txn'[w] = Idle \/ txn'[w].alone = txn[w].alone
  /\ \A v \in Workers \ {w} : txn'[v] = txn[v]

\* The fields a statement sets leave the note of who was served alone.
LEMMA FieldsKeepAlone ==
  ASSUME NEW r \in Transaction, NEW pc, NEW owner, NEW targets, NEW version, NEW status
  PROVE  /\ [r EXCEPT !.pc = pc].alone = r.alone
         /\ [r EXCEPT !.targets = targets].alone = r.alone
         /\ [r EXCEPT !.pc = pc, !.owner = owner].alone = r.alone
         /\ [r EXCEPT !.pc = pc, !.targets = targets].alone = r.alone
         /\ [r EXCEPT !.pc = pc, !.version = version].alone = r.alone
         /\ [r EXCEPT !.pc = pc, !.status = status].alone = r.alone
BY DEF Transaction

\* So do the statements and the end of the request.
LEMMA StepKeepsAlone ==
  ASSUME Typed, NEW w \in Workers, Step(w) \/ Crash(w)
  PROVE  Started(w) /\ KeepsAlone(w)
<1>1. txn \in [Workers -> Transaction] /\ txn[w] \in Transaction
  BY DEF Typed
<1>2. Started(w)
  BY DEF Step, Crash, Started, FindAuthority, AnyAuthority, EndAuthority, LockAuthority, FindArea,
         AnyArea, FindOwnArea, EndArea, LockArea, InsertArea, FindReportedArea, Report, Commit
<1>3. ASSUME NEW reply, RollBack(w, reply)
      PROVE  KeepsAlone(w)
  BY <1>3 DEF RollBack, KeepsAlone
<1>4. ASSUME NEW pc, Continue(w, pc)
      PROVE  KeepsAlone(w)
  <2>1. txn' = [txn EXCEPT ![w] = [txn[w] EXCEPT !.pc = pc]]
    BY <1>4 DEF Continue
  <2> QED
    BY <1>1, <2>1, FieldsKeepAlone DEF KeepsAlone
<1>5. ASSUME NEW pc, NEW targets, txn' = [txn EXCEPT ![w].pc = pc, ![w].targets = targets]
      PROVE  KeepsAlone(w)
  <2>1. txn' = [txn EXCEPT ![w] = [txn[w] EXCEPT !.pc = pc, !.targets = targets]]
    BY <1>1, <1>5
  <2> QED
    BY <1>1, <2>1, FieldsKeepAlone DEF KeepsAlone
<1>6. ASSUME NEW targets, txn' = [txn EXCEPT ![w].targets = targets]
      PROVE  KeepsAlone(w)
  <2>1. txn' = [txn EXCEPT ![w] = [txn[w] EXCEPT !.targets = targets]]
    BY <1>1, <1>6
  <2> QED
    BY <1>1, <2>1, FieldsKeepAlone DEF KeepsAlone
<1>7. ASSUME NEW pc, NEW version, txn' = [txn EXCEPT ![w].pc = pc, ![w].version = version]
      PROVE  KeepsAlone(w)
  <2>1. txn' = [txn EXCEPT ![w] = [txn[w] EXCEPT !.pc = pc, !.version = version]]
    BY <1>1, <1>7
  <2> QED
    BY <1>1, <2>1, FieldsKeepAlone DEF KeepsAlone
<1>8. ASSUME NEW pc, NEW owner, txn' = [txn EXCEPT ![w].pc = pc, ![w].owner = owner]
      PROVE  KeepsAlone(w)
  <2>1. txn' = [txn EXCEPT ![w] = [txn[w] EXCEPT !.pc = pc, !.owner = owner]]
    BY <1>1, <1>8
  <2> QED
    BY <1>1, <2>1, FieldsKeepAlone DEF KeepsAlone
<1>9. ASSUME NEW pc, NEW status, txn' = [txn EXCEPT ![w].pc = pc, ![w].status = status]
      PROVE  KeepsAlone(w)
  <2>1. txn' = [txn EXCEPT ![w] = [txn[w] EXCEPT !.pc = pc, !.status = status]]
    BY <1>1, <1>9
  <2> QED
    BY <1>1, <2>1, FieldsKeepAlone DEF KeepsAlone
<1>10. ASSUME InsertAuthority(w)
       PROVE  KeepsAlone(w)
  BY <1>7, <1>10 DEF InsertAuthority
<1>11. CASE FindAuthority(w) \/ AnyAuthority(w) \/ EndAuthority(w)
  BY <1>2, <1>3, <1>4, <1>5, <1>10, <1>11 DEF FindAuthority, AnyAuthority, EndAuthority, Refuse
<1>12. CASE LockAuthority(w)
  BY <1>2, <1>4, <1>6, <1>10, <1>12 DEF LockAuthority
<1>13. CASE FindArea(w) \/ AnyArea(w)
  BY <1>2, <1>3, <1>4, <1>8, <1>13 DEF FindArea, AnyArea, Refuse
<1>14. CASE FindOwnArea(w) \/ EndArea(w)
  BY <1>2, <1>3, <1>5, <1>8, <1>14 DEF FindOwnArea, EndArea, Refuse
<1>15. CASE LockArea(w)
  BY <1>2, <1>4, <1>6, <1>9, <1>15 DEF LockArea
<1>16. CASE InsertArea(w) \/ Report(w)
  BY <1>2, <1>4, <1>9, <1>16 DEF InsertArea, Report
<1>17. CASE FindReportedArea(w)
  BY <1>2, <1>3, <1>7, <1>17 DEF FindReportedArea
<1>18. CASE Commit(w)
  BY <1>1, <1>2, <1>18 DEF Commit, KeepsAlone
<1>19. CASE Crash(w)
  BY <1>2, <1>3, <1>19 DEF Crash
<1> QED
  BY <1>2, <1>11, <1>12, <1>13, <1>14, <1>15, <1>16, <1>17, <1>18, <1>19 DEF Step

\* A request that is taken up notes whether others are served, and they note it.
LEMMA StartNotesAlone ==
  ASSUME Typed, NEW w \in Workers, NEW request \in Requests, Start(w, request)
  PROVE  /\ ~Started(w)
         /\ txn'[w].alone => \A v \in Workers \ {w} : ~Started(v)
         /\ \A v \in Workers \ {w} : txn'[v].alone <=> txn[v].alone /\ ~Started(v)
<1>1. PICK pc : Begin(w, request, pc)
  BY DEF Start
<1> DEFINE r == [Idle EXCEPT !.pc = pc, !.request = request, !.time = now', !.alone = Busy(w) = {}]
           other(v) == [txn[v] EXCEPT !.alone = txn[v].alone /\ v \notin Busy(w)]
<1>2. /\ txn' = [v \in Workers |-> IF v = w THEN r ELSE other(v)] /\ ~Started(w)
  BY <1>1 DEF Begin, Started
<1>3. r.alone = (Busy(w) = {})
  BY DEF Idle
<1>4. \A v \in Workers : txn[v] \in Transaction
  BY DEF Typed
<1>5. \A v \in Workers : other(v).alone = (txn[v].alone /\ v \notin Busy(w))
  BY <1>4 DEF Transaction
<1> HIDE DEF r, other
<1>6. txn'[w] = r /\ \A v \in Workers \ {w} : txn'[v] = other(v)
  BY <1>2
<1>7. \A v \in Workers \ {w} : v \in Busy(w) <=> Started(v)
  BY DEF Busy, Started
<1>8. txn'[w].alone => \A v \in Workers \ {w} : ~Started(v)
  BY <1>3, <1>6, <1>7
<1>9. \A v \in Workers \ {w} : txn'[v].alone <=> txn[v].alone /\ ~Started(v)
  BY <1>5, <1>6, <1>7
<1> QED
  BY <1>2, <1>8, <1>9

\* Whenever w takes a step, no other request is served alone.
LEMMA AloneKept ==
  ASSUME Typed, AloneIsAlone, NEW w \in Workers, StepBy(w), Frame(w)
  PROVE  /\ AloneIsAlone'
         /\ \A v \in Workers \ {w} : Started(v)' => ~txn'[v].alone
         /\ Step(w) \/ Crash(w) => Started(w) /\ (txn'[w] = Idle \/ txn'[w].alone = txn[w].alone)
<1>1. \A v \in Workers \ {w} : Started(v)' <=> Started(v)
  BY DEF Frame, Untouched, Started
<1>2. ASSUME Step(w) \/ Crash(w)
      PROVE  /\ Started(w) /\ (txn'[w] = Idle \/ txn'[w].alone = txn[w].alone)
             /\ \A v \in Workers \ {w} : txn'[v] = txn[v]
  BY <1>2, StepKeepsAlone DEF KeepsAlone
<1>3. ASSUME NEW request \in Requests, Start(w, request)
      PROVE  /\ txn'[w].alone => \A v \in Workers \ {w} : ~Started(v)
             /\ \A v \in Workers \ {w} : Started(v) => ~txn'[v].alone
  BY <1>3, StartNotesAlone
<1>4. ASSUME NEW v \in Workers \ {w}, Started(v)'
      PROVE  ~txn'[v].alone
  <2>1. Started(v)
    BY <1>1, <1>4
  <2>2. CASE Step(w) \/ Crash(w)
    <3>1. Started(w) /\ txn'[v] = txn[v]
      BY <1>2, <2>2
    <3>2. ~txn[v].alone
      BY <2>1, <3>1 DEF AloneIsAlone
    <3> QED
      BY <3>1, <3>2
  <2> QED
    BY <1>3, <2>1, <2>2 DEF StepBy
<1>5. ASSUME Started(w)', txn'[w].alone, NEW v \in Workers \ {w}
      PROVE  ~Started(v)
  <2>1. CASE Step(w) \/ Crash(w)
    <3>1. txn'[w] # Idle
      BY <1>5 DEF Started, Idle
    <3>2. Started(w) /\ txn[w].alone
      BY <1>2, <1>5, <2>1, <3>1
    <3> QED
      BY <3>2 DEF AloneIsAlone
  <2> QED
    BY <1>3, <1>5, <2>1 DEF StepBy
<1>6. AloneIsAlone'
  BY <1>1, <1>4, <1>5 DEF AloneIsAlone
<1> QED
  BY <1>2, <1>4, <1>6

-----------------------------------------------------------------------------
\* The status of the answer of a request.
StatusAt(w, pc) ==
  IF pc # "answered" THEN 0
  ELSE IF Kind(w) = "post" THEN 201
  ELSE IF Kind(w) = "delete" THEN 204
  ELSE 0

\* A request that is served alone writes nothing that its step of AreaService
\* does not, ...
WritesItsOwn(w) ==
  /\ \A i \in DOMAIN competentAuthority :
       competentAuthority[i].endedBy = w => Kind(w) \in {"post", "end authority"}
  /\ \A i \in DOMAIN area : area[i].endedBy = w => Kind(w) \in {"post", "delete"}
  /\ \A i \in Committed(competentAuthority), k \in DOMAIN competentAuthority :
       competentAuthority[k].by = w => i < k
  /\ \A i \in Committed(area), k \in DOMAIN area : area[k].by = w => i < k

\* ... and when it has answered, all that this step does.
WritesAll(w, pc) ==
  /\ Kind(w) = "post" /\ pc = "answered" => \E k \in DOMAIN area : area[k].by = w
  /\ Kind(w) = "end authority" =>
       /\ CurrentOf(competentAuthority, Ca(w)) # {}
       /\ pc = "answered" =>
            \A i \in CurrentOf(competentAuthority, Ca(w)) : competentAuthority[i].endedBy = w
  /\ Kind(w) = "delete" /\ pc \in {"end area", "lock area", "answered"} =>
       \E i \in CurrentOf(area, AreaIdOf(w)) :
          competentAuthority[area[i].competentAuthority].fid = Ca(w)

Amounts(w, pc, status) ==
  status = StatusAt(w, pc) /\ WritesItsOwn(w) /\ WritesAll(w, pc)

ServedAlone(w) == Started(w) /\ txn[w].alone /\ overlapped = {}

\* The rows an unfinished transaction adds lie above what is committed.
LEMMA AboveCommitted ==
  ASSUME NEW Row, NEW old \in Seq(Row), NEW new \in Seq(Row), NEW w,
         w \notin {"committed", "aborted", "nobody"}, NEW t,
         StepOf(old, new, w, t), Unseen(old, new),
         \A i \in Committed(old), k \in DOMAIN old : old[k].by = w => i < k
  PROVE  \A i \in Committed(new), k \in DOMAIN new : new[k].by = w => i < k
<1> SUFFICES ASSUME NEW i \in Committed(new), NEW k \in DOMAIN new, new[k].by = w
             PROVE  i < k
  OBVIOUS
<1>1. i \in Committed(old)
  BY StepKeepsCommitted
<1>2. CASE k \in DOMAIN old
  <2>1. old[k].by = w
    BY <1>2 DEF StepOf
  <2> QED
    BY <1>1, <1>2, <2>1
<1>3. CASE k \notin DOMAIN old
  <2>1. DOMAIN old = 1..Len(old) /\ DOMAIN new = 1..Len(new) /\ Len(old) \in Nat /\ Len(new) \in Nat
    OBVIOUS
  <2>2. i \in 1..Len(old) /\ k \in 1..Len(new) /\ k \notin 1..Len(old)
    BY <1>1, <1>3, <2>1 DEF Committed
  <2> QED
    BY <2>1, <2>2
<1> QED
  BY <1>2, <1>3

\* The others see the versions they saw before.
LEMMA UnfinishedVersions ==
  ASSUME Typed, NEW w \in Workers, Moves(w), ~IsCommitted(w)
  PROVE  \A x : /\ CurrentOf(competentAuthority', x) = CurrentOf(competentAuthority, x)
                /\ CurrentOf(area', x) = CurrentOf(area, x)
<1> SUFFICES ASSUME NEW x
             PROVE  /\ CurrentOf(competentAuthority', x) = CurrentOf(competentAuthority, x)
                    /\ CurrentOf(area', x) = CurrentOf(area, x)
  OBVIOUS
<1>1. PICK time, authorities, areas :
        time = txn[w].time /\ authorities = competentAuthority' /\ areas = area'
  OBVIOUS
<1>2. /\ StepOf(competentAuthority, authorities, w, time) /\ Unseen(competentAuthority, authorities)
      /\ StepOf(area, areas, w, time) /\ Unseen(area, areas)
      /\ w \notin {"committed", "aborted", "nobody"}
  BY <1>1, WorkerTypes DEF Moves
<1>3. CurrentOf(authorities, x) = CurrentOf(competentAuthority, x)
  BY <1>2, SameVersions
<1>4. CurrentOf(areas, x) = CurrentOf(area, x)
  BY <1>2, SameVersions
<1> QED
  BY <1>1, <1>3, <1>4

\* A statement that goes on keeps this, if it writes what it should.
LEMMA AmountsKept ==
  ASSUME Typed, AnnouncedTogether, NEW w \in Workers, Moves(w), ~IsCommitted(w),
         NEW pc, NEW o, NEW t, NEW v, NEW s, GoesOn(w, pc, o, t, v, s),
         WritesItsOwn(w), s = StatusAt(w, pc), WritesAll(w, txn[w].pc),
         \A i \in DOMAIN competentAuthority :
            competentAuthority[i].endedBy # w /\ competentAuthority'[i].endedBy = w
              => Kind(w) \in {"post", "end authority"},
         \A i \in DOMAIN area :
            area[i].endedBy # w /\ area'[i].endedBy = w => Kind(w) \in {"post", "delete"},
         Kind(w) = "post" /\ pc = "answered" => \E k \in DOMAIN area' : area'[k].by = w,
         Kind(w) = "end authority" /\ pc = "answered" =>
            \A i \in CurrentOf(competentAuthority, Ca(w)) : competentAuthority'[i].endedBy = w,
         Kind(w) = "delete" /\ pc \in {"end area", "lock area", "answered"} =>
            \E i \in CurrentOf(area, AreaIdOf(w)) :
               competentAuthority[area[i].competentAuthority].fid = Ca(w)
  PROVE  Amounts(w, pc, s)'
<1>1. Kind(w)' = Kind(w) /\ Ca(w)' = Ca(w) /\ AreaIdOf(w)' = AreaIdOf(w)
  BY SameRequestGoesOn
<1>2. PICK time : time = txn[w].time
  OBVIOUS
<1>3. /\ StepOf(competentAuthority, competentAuthority', w, time)
      /\ StepOf(area, area', w, time)
      /\ Unseen(competentAuthority, competentAuthority') /\ Unseen(area, area')
      /\ competentAuthority' \in Seq(AuthorityRow) /\ area' \in Seq(AreaRow)
      /\ \A i \in DOMAIN area : area'[i].competentAuthority = area[i].competentAuthority
      /\ competentAuthority \in Seq(AuthorityRow) /\ area \in Seq(AreaRow)
      /\ w \notin {"committed", "aborted", "nobody"}
  BY <1>2, WorkerTypes DEF Moves, Typed
<1>4. PICK authorities, areas : authorities = competentAuthority' /\ areas = area'
  OBVIOUS
<1>5. /\ \A i \in Committed(authorities), k \in DOMAIN authorities : authorities[k].by = w => i < k
      /\ \A i \in Committed(areas), k \in DOMAIN areas : areas[k].by = w => i < k
  BY <1>3, <1>4, AboveCommitted DEF WritesItsOwn
<1>6. /\ \A i \in DOMAIN authorities :
           authorities[i].endedBy = w => Kind(w) \in {"post", "end authority"}
      /\ \A i \in DOMAIN areas : areas[i].endedBy = w => Kind(w) \in {"post", "delete"}
  <2>1. /\ \A k \in DOMAIN authorities \ DOMAIN competentAuthority : authorities[k].endedBy # w
        /\ \A k \in DOMAIN areas \ DOMAIN area : areas[k].endedBy # w
    BY <1>3, <1>4 DEF StepOf
  <2> QED
    BY <1>4, <2>1 DEF WritesItsOwn
<1>7. WritesItsOwn(w)'
  BY <1>1, <1>4, <1>5, <1>6 DEF WritesItsOwn
<1>8. \A x : /\ CurrentOf(authorities, x) = CurrentOf(competentAuthority, x)
             /\ CurrentOf(areas, x) = CurrentOf(area, x)
  BY <1>4, UnfinishedVersions
<1>9. \A i \in CurrentOf(area, AreaIdOf(w)) :
        authorities[areas[i].competentAuthority].fid = competentAuthority[area[i].competentAuthority].fid
  <2> SUFFICES ASSUME NEW i \in CurrentOf(area, AreaIdOf(w))
               PROVE  authorities[areas[i].competentAuthority].fid
                        = competentAuthority[area[i].competentAuthority].fid
    OBVIOUS
  <2>1. i \in Committed(area) /\ i \in DOMAIN area
    BY DEF CurrentOf, CommittedOf, Committed
  <2>2. area[i].competentAuthority \in DOMAIN competentAuthority
    BY <2>1 DEF AnnouncedTogether, Committed
  <2>3. areas[i].competentAuthority = area[i].competentAuthority
    BY <1>3, <1>4, <2>1
  <2>4. \A k \in DOMAIN competentAuthority : authorities[k].fid = competentAuthority[k].fid
    BY <1>3, <1>4 DEF StepOf
  <2> QED
    BY <2>2, <2>3, <2>4
<1>10. WritesAll(w, pc)'
  <2>1. Kind(w) = "post" /\ pc = "answered" => \E k \in DOMAIN areas : areas[k].by = w
    BY <1>4
  <2>2. Kind(w) = "end authority" =>
          /\ CurrentOf(authorities, Ca(w)) # {}
          /\ pc = "answered" => \A i \in CurrentOf(authorities, Ca(w)) : authorities[i].endedBy = w
    BY <1>4, <1>8 DEF WritesAll
  <2>3. Kind(w) = "delete" /\ pc \in {"end area", "lock area", "answered"} =>
          \E i \in CurrentOf(areas, AreaIdOf(w)) :
             authorities[areas[i].competentAuthority].fid = Ca(w)
    BY <1>8, <1>9
  <2> QED
    BY <1>1, <1>4, <2>1, <2>2, <2>3 DEF WritesAll
<1>11. s = StatusAt(w, pc)'
  BY <1>1 DEF StatusAt
<1> QED
  BY <1>7, <1>10, <1>11 DEF Amounts

AmountsNext(w) == Ends(w) \/ Amounts(w, txn[w].pc, txn[w].status)'

\* The request as it goes on.
LEMMA AmountsGoesOn ==
  ASSUME NEW w, NEW pc, NEW o, NEW t, NEW v, NEW s, GoesOn(w, pc, o, t, v, s), Amounts(w, pc, s)'
  PROVE  AmountsNext(w)
<1>1. txn'[w].pc = pc /\ txn'[w].status = s
  BY SameRequestGoesOn
<1> QED
  BY <1>1 DEF AmountsNext, Amounts, StatusAt, WritesAll

\* It has not ended.
LEMMA GoesOnEndsNot ==
  ASSUME NEW w, NEW pc, pc # "idle", NEW o, NEW t, NEW v, NEW s, GoesOn(w, pc, o, t, v, s)
  PROVE  ~IsCommitted(w) /\ ~IsRolledBack(w)
BY SameRequestGoesOn DEF IsCommitted, IsRolledBack, Ends, Idle

\* A statement that only reads.
LEMMA AmountsRead ==
  ASSUME Typed, AnnouncedTogether, NEW w \in Workers, Moves(w),
         NEW pc, pc # "idle", NEW o, NEW t, NEW v, NEW s, Reads(w, pc, o, t, v, s),
         WritesItsOwn(w), s = StatusAt(w, pc), WritesAll(w, txn[w].pc),
         ~(Kind(w) = "post" /\ pc = "answered"),
         Kind(w) = "end authority" /\ pc = "answered" =>
            \A i \in CurrentOf(competentAuthority, Ca(w)) : competentAuthority[i].endedBy = w,
         Kind(w) = "delete" /\ pc \in {"end area", "lock area", "answered"} =>
            \E i \in CurrentOf(area, AreaIdOf(w)) :
               competentAuthority[area[i].competentAuthority].fid = Ca(w)
  PROVE  AmountsNext(w)
<1>1. GoesOn(w, pc, o, t, v, s) /\ competentAuthority' = competentAuthority /\ area' = area
  BY DEF Reads, tables
<1>2. ~IsCommitted(w)
  BY <1>1, GoesOnEndsNot
<1>3. Amounts(w, pc, s)'
  BY <1>1, <1>2, AmountsKept
<1> QED
  BY <1>1, <1>3, AmountsGoesOn

\* The statements up to the version of the authority.
LEMMA AuthorityAmounts ==
  ASSUME Typed, AnnouncedTogether, NEW w \in Workers, Started(w), WorkerInv(w), Moves(w),
         overlapped = {}, Amounts(w, txn[w].pc, txn[w].status),
         FindAuthority(w) \/ AnyAuthority(w) \/ EndAuthority(w) \/ LockAuthority(w)
  PROVE  AmountsNext(w)
<1>1. PICK o, t, v, s :
        /\ o = txn[w].owner /\ t = txn[w].targets /\ v = txn[w].version /\ s = txn[w].status
  OBVIOUS
<1>2. txn[w].pc \in {"find authority", "any authority", "end authority", "lock authority"}
  BY DEF FindAuthority, AnyAuthority, EndAuthority, LockAuthority
<1>3. Kind(w) \in {"post", "end authority"}
  <2>1. txn[w].pc \in StatementsOf(txn[w].request) /\ txn[w].request \in Requests
    BY WorkerTypes
  <2>2. txn[w].request.kind \in {"post", "delete", "report", "end authority"}
    BY <2>1, RequestTypes
  <2> QED
    BY <1>2, <2>1, <2>2 DEF StatementsOf, Kind
<1>4. WritesItsOwn(w) /\ WritesAll(w, txn[w].pc) /\ s = 0
  BY <1>1, <1>2 DEF Amounts, StatusAt
<1>5. ASSUME NEW pc \in {"any authority", "end authority"}, Follows(w, pc)
      PROVE  AmountsNext(w)
  <2>1. Reads(w, pc, o, t, v, s) /\ s = StatusAt(w, pc) /\ pc # "idle" /\ pc # "answered"
    BY <1>1, <1>4, <1>5 DEF Follows, StatusAt
  <2> QED
    BY <1>3, <1>4, <2>1, AmountsRead
<1>6. ASSUME Kind(w) = "post", InsertsAuthority(w)
      PROVE  AmountsNext(w)
  <2>1. PICK pc, n : pc = AfterAuthority(w) /\ n = Len(competentAuthority) + 1
    OBVIOUS
  <2>2. GoesOn(w, pc, o, t, n, s) /\ area' = area
    BY <1>1, <1>6, <2>1 DEF InsertsAuthority
  <2>3. pc \in {"insert", "find area"}
    BY <2>1 DEF AfterAuthority
  <2>4. s = StatusAt(w, pc) /\ pc # "idle" /\ pc # "answered"
    BY <1>4, <2>3 DEF StatusAt
  <2>5. ~IsCommitted(w)
    BY <2>2, <2>4, GoesOnEndsNot
  <2>6. Amounts(w, pc, s)'
    BY <1>4, <1>6, <2>2, <2>4, <2>5, AmountsKept
  <2> QED
    BY <2>2, <2>6, AmountsGoesOn
<1>7. CASE FindAuthority(w)
  BY <1>5, <1>7, FindAuthorityEffect DEF AmountsNext, IsRolledBack
<1>8. CASE AnyAuthority(w)
  <2>1. Kind(w) = "post"
    BY <1>8, AnyAuthorityEffect, NextStatement
  <2> QED
    BY <1>6, <1>8, <2>1, AnyAuthorityEffect DEF AmountsNext, IsRolledBack
<1>9. CASE EndAuthority(w)
  <2>1. PICK u, pc : u = AuthorityTargets(w) /\ pc = "lock authority"
    OBVIOUS
  <2>2. Reads(w, pc, o, u, v, s)
    BY <1>1, <1>9, <2>1, EndAuthorityEffect
  <2>3. s = StatusAt(w, pc) /\ pc # "idle" /\ pc # "answered"
    BY <1>4, <2>1 DEF StatusAt
  <2> QED
    BY <1>3, <1>4, <2>2, <2>3, AmountsRead
<1>10. CASE LockAuthority(w)
  <2>1. txn[w].pc = "lock authority"
    BY <1>10 DEF LockAuthority
  <2>2. ASSUME NEW i \in txn[w].targets, LocksAuthority(w, i)
        PROVE  AmountsNext(w)
    <3>1. PICK u, pc : u = txn[w].targets \ {i} /\ pc = txn[w].pc
      OBVIOUS
    <3>2. GoesOn(w, pc, o, u, v, s) /\ area' = area
      BY <1>1, <2>2, <3>1 DEF LocksAuthority, Locked
    <3>3. s = StatusAt(w, pc) /\ pc # "idle" /\ pc # "answered"
      BY <1>4, <2>1, <3>1 DEF StatusAt
    <3>4. ~IsCommitted(w)
      BY <3>2, <3>3, GoesOnEndsNot
    <3>5. Amounts(w, pc, s)'
      BY <1>3, <1>4, <3>2, <3>3, <3>4, AmountsKept
    <3> QED
      BY <3>2, <3>5, AmountsGoesOn
  <2>3. ASSUME txn[w].targets = {}, Kind(w) = "end authority", Follows(w, "answered")
        PROVE  AmountsNext(w)
    <3>1. PICK pc : pc = "answered"
      OBVIOUS
    <3>2. Reads(w, pc, o, t, v, s) /\ s = StatusAt(w, pc) /\ pc # "idle"
      BY <1>1, <1>4, <2>3, <3>1 DEF Follows, StatusAt
    <3>3. Ca(w) \in CompetentAuthorities \ overlapped
      <4>1. txn[w].request \in Requests
        BY WorkerTypes
      <4> QED
        BY <2>3, <4>1, RequestTypes DEF Ca, Kind
    <3>4. \A i \in CurrentOf(competentAuthority, Ca(w)) : competentAuthority[i].endedBy = w
      BY <2>1, <2>3, <3>3 DEF WorkerInv, Fits, OnAuthority
    <3> QED
      BY <1>4, <2>3, <3>2, <3>4, AmountsRead
  <2> QED
    BY <1>6, <1>10, <2>2, <2>3, LockAuthorityEffect
<1> QED
  BY <1>7, <1>8, <1>9, <1>10

\* DELETE goes on with an area that its authority owns.
LEMMA OwnAreaFound ==
  ASSUME Typed, NEW w \in Workers, WorkerInv(w), FindOwnArea(w), txn'[w].pc # "idle"
  PROVE  \E i \in CurrentOf(area, AreaIdOf(w)) :
            competentAuthority[area[i].competentAuthority].fid = Ca(w)
<1>1. txn[w].pc = "find own area" /\ Started(w)
  BY DEF FindOwnArea, Started
<1>2. PICK i \in CurrentTo(w, area, txn[w].request.areaId) :
        competentAuthority[area[i].competentAuthority].fid = Ca(w)
  <2>1. ~RollBack(w, [status |-> 404, fid |-> txn[w].request.areaId])
    BY DEF RollBack, Idle, Typed
  <2>2. ~RollBack(w, [status |-> 500, fid |-> txn[w].request.areaId])
    BY DEF RollBack, Idle, Typed
  <2> QED
    BY <2>1, <2>2 DEF FindOwnArea, Refuse, Ca
<1>3. Kind(w) = "delete" /\ AreaIdOf(w) = txn[w].request.areaId
  BY <1>1, NextStatement, AreaAsked
<1>4. area[i].by # w
  <2>1. i \in DOMAIN area
    BY Finds
  <2> QED
    BY <1>1, <1>3, <2>1 DEF WorkerInv, Fits, OwnRows
<1> QED
  BY <1>2, <1>3, <1>4, Finds

\* The statements about the area that only read.
LEMMA AreaReadAmounts ==
  ASSUME Typed, AnnouncedTogether, NEW w \in Workers, Started(w), WorkerInv(w), Moves(w),
         overlapped = {}, Amounts(w, txn[w].pc, txn[w].status),
         FindArea(w) \/ AnyArea(w) \/ FindOwnArea(w) \/ EndArea(w) \/ FindReportedArea(w)
  PROVE  AmountsNext(w)
<1>1. PICK o, t, v, s :
        /\ o = txn[w].owner /\ t = txn[w].targets /\ v = txn[w].version /\ s = txn[w].status
  OBVIOUS
<1>2. txn[w].pc \in {"find area", "any area", "find own area", "end area", "find reported area"}
  BY DEF FindArea, AnyArea, FindOwnArea, EndArea, FindReportedArea
<1>3. WritesItsOwn(w) /\ WritesAll(w, txn[w].pc) /\ s = 0
  BY <1>1, <1>2 DEF Amounts, StatusAt
<1>4. ASSUME NEW pc \in {"any area", "insert", "end area", "lock area", "report"},
             NEW a, NEW u, NEW n, Reads(w, pc, a, u, n, s),
             Kind(w) = "delete" =>
               \E i \in CurrentOf(area, AreaIdOf(w)) :
                  competentAuthority[area[i].competentAuthority].fid = Ca(w)
      PROVE  AmountsNext(w)
  <2>1. s = StatusAt(w, pc) /\ pc # "idle" /\ pc # "answered"
    BY <1>3, <1>4 DEF StatusAt
  <2> QED
    BY <1>3, <1>4, <2>1, AmountsRead
<1>5. CASE FindArea(w)
  <2>1. Kind(w) = "post"
    BY <1>5, FindAreaEffect, NextStatement
  <2>2. ASSUME Follows(w, "any area")
        PROVE  AmountsNext(w)
    BY <1>1, <1>4, <2>1, <2>2 DEF Follows
  <2>3. ASSUME NEW i \in CurrentTo(w, area, txn[w].request.areaId),
               Reads(w, "end area", area[i].competentAuthority, txn[w].targets,
                     txn[w].version, txn[w].status)
        PROVE  AmountsNext(w)
    <3>1. PICK a : a = area[i].competentAuthority
      OBVIOUS
    <3>2. Reads(w, "end area", a, t, v, s)
      BY <1>1, <2>3, <3>1
    <3> QED
      BY <1>4, <2>1, <3>2
  <2> QED
    BY <1>5, <2>2, <2>3, FindAreaEffect DEF AmountsNext, IsRolledBack
<1>6. CASE AnyArea(w)
  <2>1. Kind(w) = "post"
    BY <1>6, AnyAreaEffect, NextStatement
  <2>2. ASSUME Follows(w, "insert")
        PROVE  AmountsNext(w)
    BY <1>1, <1>4, <2>1, <2>2 DEF Follows
  <2> QED
    BY <1>6, <2>2, AnyAreaEffect DEF AmountsNext, IsRolledBack
<1>7. CASE FindOwnArea(w)
  <2>1. ASSUME NEW i \in CurrentTo(w, area, txn[w].request.areaId),
               Reads(w, "end area", area[i].competentAuthority, txn[w].targets,
                     txn[w].version, txn[w].status)
        PROVE  AmountsNext(w)
    <3>1. PICK a, pc : a = area[i].competentAuthority /\ pc = "end area"
      OBVIOUS
    <3>2. Reads(w, pc, a, t, v, s)
      BY <1>1, <2>1, <3>1
    <3>3. txn'[w].pc # "idle"
      <4>1. GoesOn(w, pc, a, t, v, s)
        BY <3>2 DEF Reads
      <4>2. txn'[w].pc = pc
        BY <4>1 DEF GoesOn, Updated
      <4> QED
        BY <3>1, <4>2
    <3>4. \E k \in CurrentOf(area, AreaIdOf(w)) :
             competentAuthority[area[k].competentAuthority].fid = Ca(w)
      BY <1>7, <3>3, OwnAreaFound
    <3> QED
      BY <1>4, <3>1, <3>2, <3>4
  <2> QED
    BY <1>7, <2>1, FindOwnAreaEffect DEF AmountsNext, IsRolledBack
<1>8. CASE EndArea(w)
  <2>1. PICK u, pc : u = AreaTargets(w) /\ pc = "lock area"
    OBVIOUS
  <2>2. Reads(w, pc, o, u, v, s) /\ txn[w].pc = "end area"
    BY <1>1, <1>8, <2>1, EndAreaEffect
  <2>3. Kind(w) = "delete" =>
          \E i \in CurrentOf(area, AreaIdOf(w)) :
             competentAuthority[area[i].competentAuthority].fid = Ca(w)
    BY <1>3, <2>2 DEF WritesAll
  <2> QED
    BY <1>4, <2>1, <2>2, <2>3
<1>9. CASE FindReportedArea(w)
  <2>1. Kind(w) = "report"
    BY <1>9, FindReportedAreaEffect, NextStatement
  <2>2. ASSUME NEW i \in CurrentTo(w, area, txn[w].request.areaId),
               Reads(w, "report", txn[w].owner, txn[w].targets, i, txn[w].status)
        PROVE  AmountsNext(w)
    BY <1>1, <1>4, <2>1, <2>2
  <2> QED
    BY <1>9, <2>2, FindReportedAreaEffect DEF AmountsNext, IsRolledBack
<1> QED
  BY <1>5, <1>6, <1>7, <1>8, <1>9

\* The statements that write an area or an activity.
LEMMA AreaWriteAmounts ==
  ASSUME Typed, AnnouncedTogether, NEW w \in Workers, Started(w), WorkerInv(w), Moves(w),
         overlapped = {}, Amounts(w, txn[w].pc, txn[w].status),
         LockArea(w) \/ InsertArea(w) \/ Report(w)
  PROVE  AmountsNext(w)
<1>1. PICK o, t, v, s :
        /\ o = txn[w].owner /\ t = txn[w].targets /\ v = txn[w].version /\ s = txn[w].status
  OBVIOUS
<1>2. txn[w].pc \in {"lock area", "insert", "report"}
  BY DEF LockArea, InsertArea, Report
<1>3. WritesItsOwn(w) /\ WritesAll(w, txn[w].pc) /\ s = 0
  BY <1>1, <1>2 DEF Amounts, StatusAt
<1>4. CASE LockArea(w)
  <2>1. txn[w].pc = "lock area" /\ Kind(w) \in {"post", "delete"}
    BY <1>4, LockAreaEffect, NextStatement
  <2>2. Kind(w) = "delete" =>
          \E i \in CurrentOf(area, AreaIdOf(w)) :
             competentAuthority[area[i].competentAuthority].fid = Ca(w)
    BY <1>3, <2>1 DEF WritesAll
  <2>3. ASSUME NEW i \in txn[w].targets, LocksArea(w, i)
        PROVE  AmountsNext(w)
    <3>1. PICK u, pc : u = txn[w].targets \ {i} /\ pc = txn[w].pc
      OBVIOUS
    <3>2. GoesOn(w, pc, o, u, v, s) /\ competentAuthority' = competentAuthority
      BY <1>1, <2>3, <3>1 DEF LocksArea, Locked
    <3>3. s = StatusAt(w, pc) /\ pc # "idle" /\ pc # "answered"
      BY <1>3, <2>1, <3>1 DEF StatusAt
    <3>4. ~IsCommitted(w)
      BY <3>2, <3>3, GoesOnEndsNot
    <3>5. Amounts(w, pc, s)'
      BY <1>3, <2>1, <2>2, <3>2, <3>3, <3>4, AmountsKept
    <3> QED
      BY <3>2, <3>5, AmountsGoesOn
  <2>4. ASSUME Kind(w) = "post", Follows(w, "insert")
        PROVE  AmountsNext(w)
    <3>1. PICK pc : pc = "insert"
      OBVIOUS
    <3>2. Reads(w, pc, o, t, v, s) /\ s = StatusAt(w, pc) /\ pc # "idle" /\ pc # "answered"
      BY <1>1, <1>3, <2>4, <3>1 DEF Follows, StatusAt
    <3> QED
      BY <1>3, <2>4, <3>2, AmountsRead
  <2>5. ASSUME Kind(w) = "delete",
               Reads(w, "answered", txn[w].owner, txn[w].targets, txn[w].version, 204)
        PROVE  AmountsNext(w)
    <3>1. PICK pc, r : pc = "answered" /\ r = 204
      OBVIOUS
    <3>2. Reads(w, pc, o, t, v, r)
      BY <1>1, <2>5, <3>1
    <3>3. r = StatusAt(w, pc) /\ pc # "idle"
      BY <2>5, <3>1 DEF StatusAt
    <3> QED
      BY <1>3, <2>2, <2>5, <3>2, <3>3, AmountsRead
  <2> QED
    BY <1>4, <2>3, <2>4, <2>5, LockAreaEffect
<1>5. CASE InsertArea(w)
  <2>1. Kind(w) = "post" /\ InsertsArea(w)
    BY <1>5, InsertAreaEffect, NextStatement
  <2>2. PICK pc, r : pc = "answered" /\ r = 201
    OBVIOUS
  <2>3. GoesOn(w, pc, o, t, v, r) /\ competentAuthority' = competentAuthority
    BY <1>1, <2>1, <2>2 DEF InsertsArea
  <2>4. r = StatusAt(w, pc) /\ pc # "idle"
    BY <2>1, <2>2 DEF StatusAt
  <2>5. ~IsCommitted(w)
    BY <2>3, <2>4, GoesOnEndsNot
  <2>6. \E k \in DOMAIN area' : area'[k].by = w
    <3>1. PICK new : new = area'
      OBVIOUS
    <3>2. new = Append(area, NewArea(w)) /\ area \in Seq(AreaRow)
      BY <2>1, <3>1 DEF InsertsArea, Typed
    <3>3. Len(area) + 1 \in DOMAIN new /\ new[Len(area) + 1] = NewArea(w)
      BY <3>2
    <3> QED
      BY <3>1, <3>3 DEF NewArea
  <2>7. Amounts(w, pc, r)'
    BY <1>3, <2>1, <2>3, <2>4, <2>5, <2>6, AmountsKept
  <2> QED
    BY <2>3, <2>7, AmountsGoesOn
<1>6. CASE Report(w)
  <2>1. Kind(w) = "report" /\ InsertsReport(w)
    BY <1>6, ReportEffect, NextStatement
  <2>2. PICK pc : pc = "answered"
    OBVIOUS
  <2>3. GoesOn(w, pc, o, t, v, s) /\ competentAuthority' = competentAuthority /\ area' = area
    BY <1>1, <2>1, <2>2 DEF InsertsReport
  <2>4. s = StatusAt(w, pc) /\ pc # "idle"
    BY <1>3, <2>1, <2>2 DEF StatusAt
  <2>5. ~IsCommitted(w)
    BY <2>3, <2>4, GoesOnEndsNot
  <2>6. Amounts(w, pc, s)'
    BY <1>3, <2>1, <2>3, <2>4, <2>5, AmountsKept
  <2> QED
    BY <2>3, <2>6, AmountsGoesOn
<1> QED
  BY <1>4, <1>5, <1>6

\* A request that is taken up has written nothing yet.
LEMMA StartAmounts ==
  ASSUME Typed, NEW w \in Workers, WorkerInv(w), NEW request \in Requests, Start(w, request)
  PROVE  Amounts(w, txn[w].pc, txn[w].status)'
<1>1. Starts(w, request)
  BY StartEffect
<1>2. /\ competentAuthority' = competentAuthority /\ area' = area
      /\ txn'[w].request = request /\ txn'[w].status = 0
      /\ txn'[w].pc \in {"find authority", "find own area", "find reported area", "end authority"}
      /\ HoldsNothing(w)
  BY <1>1 DEF Starts, tables, WorkerInv
<1>3. WritesItsOwn(w)'
  BY <1>2 DEF WritesItsOwn, HoldsNothing
<1>4. request.kind = "end authority" => CurrentOf(competentAuthority, request.ca) # {}
  <2> SUFFICES ASSUME request.kind = "end authority"
               PROVE  CurrentOf(competentAuthority, request.ca) # {}
    OBVIOUS
  <2>1. PICK i \in CurrentTo(w, competentAuthority, request.ca) : TRUE
    BY DEF Start
  <2>2. i \in DOMAIN competentAuthority
    BY <2>1, Finds
  <2> QED
    BY <1>2, <2>1, <2>2, Finds DEF HoldsNothing
<1>5. WritesAll(w, txn[w].pc)'
  <2>1. Kind(w)' = request.kind /\ Ca(w)' = request.ca
    BY <1>2 DEF Kind, Ca
  <2>2. txn'[w].pc \notin {"answered", "end area", "lock area"}
    BY <1>2
  <2>3. CurrentOf(competentAuthority, Ca(w))' = CurrentOf(competentAuthority, request.ca)
    BY <1>2, <2>1
  <2> QED
    BY <1>4, <2>1, <2>2, <2>3 DEF WritesAll
<1> QED
  BY <1>2, <1>3, <1>5 DEF Amounts, StatusAt

\* Of a request that is served alone in a history without overlaps.
Serially ==
  /\ AloneIsAlone
  /\ \A w \in Workers : ServedAlone(w) => Amounts(w, txn[w].pc, txn[w].status)

\* It holds of the empty database, ...
LEMMA SeriallyInit ==
  ASSUME Init
  PROVE  Serially
<1>1. \A w \in Workers : ~Started(w)
  BY DEF Init, Idle, Started
<1> QED
  BY <1>1 DEF Serially, AloneIsAlone, ServedAlone

\* ... looks at the variables only, ...
LEMMA SeriallyStutter ==
  ASSUME Serially, UNCHANGED vars
  PROVE  Serially'
<1>1. UNCHANGED <<competentAuthority, area, activity, now, txn, finished, overlapped>>
  BY DEF vars, tables
<1>2. AloneIsAlone'
  BY <1>1 DEF Serially, AloneIsAlone, Started
<1>3. ASSUME NEW w \in Workers, ServedAlone(w)'
      PROVE  Amounts(w, txn[w].pc, txn[w].status)'
  <2>1. /\ Kind(w)' = Kind(w) /\ Ca(w)' = Ca(w) /\ AreaIdOf(w)' = AreaIdOf(w)
    BY <1>1 DEF Kind, Ca, AreaIdOf
  <2>2. ServedAlone(w)
    BY <1>1, <1>3 DEF ServedAlone, Started
  <2>3. Amounts(w, txn[w].pc, txn[w].status)
    BY <2>2 DEF Serially
  <2>4. WritesItsOwn(w)'
    BY <1>1, <2>1, <2>3 DEF Amounts, WritesItsOwn
  <2>5. WritesAll(w, txn[w].pc)'
    BY <1>1, <2>1, <2>3 DEF Amounts, WritesAll
  <2> QED
    BY <1>1, <2>1, <2>3, <2>4, <2>5 DEF Amounts, StatusAt
<1> QED
  BY <1>2, <1>3 DEF Serially

\* ... and every step keeps it.
LEMMA SeriallyStep ==
  ASSUME AreaTransactionsInv, Serially, Next
  PROVE  Serially'
<1>1. PICK w \in Workers : StepBy(w) /\ StepsWell(w)
  BY NextStepsWell
<1>2. /\ Typed /\ AnnouncedTogether /\ WorkerInv(w) /\ Moves(w) /\ Frame(w)
      /\ overlapped \subseteq overlapped'
  BY <1>1 DEF AreaTransactionsInv, StepsWell, Moves, Frame
<1>3. /\ AloneIsAlone'
      /\ \A v \in Workers \ {w} : Started(v)' => ~txn'[v].alone
      /\ Step(w) \/ Crash(w) => Started(w) /\ (txn'[w] = Idle \/ txn'[w].alone = txn[w].alone)
  BY <1>1, <1>2, AloneKept DEF Serially
<1>4. ASSUME ServedAlone(w)'
      PROVE  Amounts(w, txn[w].pc, txn[w].status)'
  <2>1. ASSUME NEW request \in Requests, Start(w, request)
        PROVE  Amounts(w, txn[w].pc, txn[w].status)'
    BY <1>2, <2>1, StartAmounts
  <2>2. CASE Step(w) \/ Crash(w)
    <3>1. txn'[w] # Idle
      BY <1>4 DEF ServedAlone, Started, Idle
    <3>2. Started(w) /\ ServedAlone(w) /\ overlapped = {}
      BY <1>2, <1>3, <1>4, <2>2, <3>1 DEF ServedAlone
    <3>3. Amounts(w, txn[w].pc, txn[w].status)
      BY <3>2 DEF Serially
    <3>4. ~Ends(w)
      BY <3>1 DEF Ends
    <3>5. ~Commit(w) /\ ~Crash(w)
      <4>1. Commit(w) => Ends(w)
        BY <1>2, CommitEffect DEF IsCommitted
      <4>2. Crash(w) => Ends(w)
        BY <1>2, <3>2, RollBackEffect DEF Crash, IsRolledBack
      <4> QED
        BY <3>4, <4>1, <4>2
    <3>6. AmountsNext(w)
      <4>1. CASE FindAuthority(w) \/ AnyAuthority(w) \/ EndAuthority(w) \/ LockAuthority(w)
        BY <1>2, <3>2, <3>3, <4>1, AuthorityAmounts
      <4>2. CASE FindArea(w) \/ AnyArea(w) \/ FindOwnArea(w) \/ EndArea(w) \/ FindReportedArea(w)
        BY <1>2, <3>2, <3>3, <4>2, AreaReadAmounts
      <4>3. CASE LockArea(w) \/ InsertArea(w) \/ Report(w)
        BY <1>2, <3>2, <3>3, <4>3, AreaWriteAmounts
      <4> QED
        BY <2>2, <3>5, <4>1, <4>2, <4>3 DEF Step
    <3> QED
      BY <3>4, <3>6 DEF AmountsNext
  <2> QED
    BY <1>1, <2>1, <2>2 DEF StepBy
<1>5. ASSUME NEW v \in Workers, ServedAlone(v)'
      PROVE  Amounts(v, txn[v].pc, txn[v].status)'
  <2>1. v = w
    BY <1>3, <1>5 DEF ServedAlone
  <2> QED
    BY <1>4, <1>5, <2>1
<1> QED
  BY <1>3, <1>5 DEF Serially

-----------------------------------------------------------------------------
(***************************************************************************)
(* The committed tables, with their technical ids closed up                *)
(***************************************************************************)

\* The rows of the serial specification are the committed ones.
LEMMA ClosedTables ==
  ASSUME Typed
  PROVE  /\ ClosesUp(competentAuthority, CommittedAuthorities)
         /\ ClosesUp(area, CommittedAreas)
         /\ CommittedAuthorities = [n \in Places(competentAuthority) |-> CommittedAuthorities[n]]
         /\ CommittedAreas = [n \in Places(area) |-> CommittedAreas[n]]
         /\ \A i \in Committed(competentAuthority) :
              CommittedAuthorities[Place(competentAuthority, i)] = AsAuthority(competentAuthority[i])
         /\ \A i \in Committed(area) : CommittedAreas[Place(area, i)] = AsArea(area[i])
<1>1. competentAuthority \in Seq(AuthorityRow) /\ area \in Seq(AreaRow)
  BY DEF Typed
<1>2. ASSUME NEW i \in Committed(competentAuthority)
      PROVE  CommittedAuthorities[Place(competentAuthority, i)] = AsAuthority(competentAuthority[i])
  <2>1. /\ Place(competentAuthority, i) \in Places(competentAuthority)
        /\ RowAt(competentAuthority, Place(competentAuthority, i)) = competentAuthority[i]
    BY <1>1, PlacesInOrder, RowsInPlace
  <2> QED
    BY <2>1 DEF CommittedAuthorities
<1>3. ASSUME NEW i \in Committed(area)
      PROVE  CommittedAreas[Place(area, i)] = AsArea(area[i])
  <2>1. /\ Place(area, i) \in Places(area) /\ RowAt(area, Place(area, i)) = area[i]
    BY <1>1, PlacesInOrder, RowsInPlace
  <2> QED
    BY <2>1 DEF CommittedAreas
<1>4. /\ CommittedAuthorities = [n \in Places(competentAuthority) |-> CommittedAuthorities[n]]
      /\ CommittedAreas = [n \in Places(area) |-> CommittedAreas[n]]
  BY DEF CommittedAuthorities, CommittedAreas
<1>5. /\ DOMAIN CommittedAuthorities = Places(competentAuthority)
      /\ DOMAIN CommittedAreas = Places(area)
  BY DEF CommittedAuthorities, CommittedAreas
<1>6. /\ \A row : AsAuthority(row).fid = row.fid /\ AsAuthority(row).endedAt = row.endedAt
      /\ \A row : AsArea(row).fid = row.fid /\ AsArea(row).endedAt = row.endedAt
  BY DEF AsAuthority, AsArea
<1>7. ClosesUp(competentAuthority, CommittedAuthorities)
  BY <1>2, <1>5, <1>6 DEF ClosesUp
<1>8. ClosesUp(area, CommittedAreas)
  BY <1>3, <1>5, <1>6 DEF ClosesUp
<1> QED
  BY <1>2, <1>3, <1>4, <1>7, <1>8

\* The same after a step.
LEMMA ClosedTablesNext ==
  ASSUME Typed'
  PROVE  /\ CommittedAuthorities' = [n \in Places(competentAuthority') |-> CommittedAuthorities'[n]]
         /\ CommittedAreas' = [n \in Places(area') |-> CommittedAreas'[n]]
         /\ \A i \in Committed(competentAuthority') :
              CommittedAuthorities'[Place(competentAuthority', i)] = AsAuthority(competentAuthority'[i])
         /\ \A i \in Committed(area') :
              CommittedAreas'[Place(area', i)] =
                [fid |-> area'[i].fid,
                 competentAuthority |-> Place(competentAuthority', area'[i].competentAuthority),
                 createdAt |-> area'[i].createdAt, endedAt |-> area'[i].endedAt]
<1>1. PICK authorities, areas : authorities = competentAuthority' /\ areas = area'
  OBVIOUS
<1>2. authorities \in Seq(AuthorityRow) /\ areas \in Seq(AreaRow)
  BY <1>1 DEF Typed
<1>3. /\ CommittedAuthorities' = [n \in Places(authorities) |-> AsAuthority(RowAt(authorities, n))]
      /\ CommittedAreas' =
           [n \in Places(areas) |->
              [fid |-> RowAt(areas, n).fid,
               competentAuthority |-> Place(authorities, RowAt(areas, n).competentAuthority),
               createdAt |-> RowAt(areas, n).createdAt, endedAt |-> RowAt(areas, n).endedAt]]
  BY <1>1 DEF CommittedAuthorities, CommittedAreas, AsAuthority, AsArea
<1>4. ASSUME NEW i \in Committed(authorities)
      PROVE  Place(authorities, i) \in Places(authorities)
             /\ RowAt(authorities, Place(authorities, i)) = authorities[i]
  BY <1>2, PlacesInOrder, RowsInPlace
<1>5. ASSUME NEW i \in Committed(areas)
      PROVE  Place(areas, i) \in Places(areas) /\ RowAt(areas, Place(areas, i)) = areas[i]
  BY <1>2, PlacesInOrder, RowsInPlace
<1>6. CommittedAuthorities' = [n \in Places(authorities) |-> CommittedAuthorities'[n]]
  BY <1>3
<1>7. CommittedAreas' = [n \in Places(areas) |-> CommittedAreas'[n]]
  BY <1>3
<1>8. \A i \in Committed(authorities) :
        CommittedAuthorities'[Place(authorities, i)] = AsAuthority(authorities[i])
  BY <1>3, <1>4
<1>9. \A i \in Committed(areas) :
        CommittedAreas'[Place(areas, i)] =
          [fid |-> areas[i].fid,
           competentAuthority |-> Place(authorities, areas[i].competentAuthority),
           createdAt |-> areas[i].createdAt, endedAt |-> areas[i].endedAt]
  BY <1>3, <1>5
<1> QED
  BY <1>1, <1>6, <1>7, <1>8, <1>9

\* A statement, and a rollback, are not seen in them.
LEMMA NothingSeen ==
  ASSUME Typed, Typed', NEW w \in Workers, Moves(w),
         Unseen(competentAuthority, competentAuthority'), Unseen(area, area')
  PROVE  CommittedAuthorities' = CommittedAuthorities /\ CommittedAreas' = CommittedAreas
<1>1. PICK time, authorities, areas :
        time = txn[w].time /\ authorities = competentAuthority' /\ areas = area'
  OBVIOUS
<1>2. /\ StepOf(competentAuthority, authorities, w, time) /\ Unseen(competentAuthority, authorities)
      /\ StepOf(area, areas, w, time) /\ Unseen(area, areas)
      /\ w \notin {"committed", "aborted", "nobody"}
      /\ \A i \in DOMAIN area : areas[i].competentAuthority = area[i].competentAuthority
  BY <1>1, WorkerTypes DEF Moves
<1>3. Committed(authorities) = Committed(competentAuthority)
  BY <1>2, StepKeepsCommitted
<1>4. Committed(areas) = Committed(area)
  BY <1>2, StepKeepsCommitted
<1>5. /\ Places(authorities) = Places(competentAuthority)
      /\ \A i : Place(authorities, i) = Place(competentAuthority, i)
  BY <1>3, PlacesKept
<1>6. Places(areas) = Places(area) /\ \A i : Place(areas, i) = Place(area, i)
  BY <1>4, PlacesKept
<1>7. /\ CommittedAuthorities' = [n \in Places(competentAuthority) |-> CommittedAuthorities'[n]]
      /\ CommittedAreas' = [n \in Places(area) |-> CommittedAreas'[n]]
      /\ \A i \in Committed(competentAuthority) :
           CommittedAuthorities'[Place(competentAuthority, i)] = AsAuthority(authorities[i])
      /\ \A i \in Committed(area) :
           CommittedAreas'[Place(area, i)] =
             [fid |-> areas[i].fid,
              competentAuthority |-> Place(competentAuthority, areas[i].competentAuthority),
              createdAt |-> areas[i].createdAt, endedAt |-> areas[i].endedAt]
  BY <1>1, <1>3, <1>4, <1>5, <1>6, ClosedTablesNext
<1>8. /\ CommittedAuthorities = [n \in Places(competentAuthority) |-> CommittedAuthorities[n]]
      /\ CommittedAreas = [n \in Places(area) |-> CommittedAreas[n]]
      /\ \A i \in Committed(competentAuthority) :
           CommittedAuthorities[Place(competentAuthority, i)] = AsAuthority(competentAuthority[i])
      /\ \A i \in Committed(area) : CommittedAreas[Place(area, i)] = AsArea(area[i])
  BY ClosedTables
<1>9. \A i \in Committed(competentAuthority) :
        AsAuthority(authorities[i]) = AsAuthority(competentAuthority[i])
  BY <1>2 DEF StepOf, Unseen, Committed, AsAuthority
<1>10. \A i \in Committed(area) :
         [fid |-> areas[i].fid,
          competentAuthority |-> Place(competentAuthority, areas[i].competentAuthority),
          createdAt |-> areas[i].createdAt, endedAt |-> areas[i].endedAt] = AsArea(area[i])
  BY <1>2 DEF StepOf, Unseen, Committed, AsArea
<1>11. ASSUME NEW n \in Places(competentAuthority)
       PROVE  CommittedAuthorities'[n] = CommittedAuthorities[n]
  <2>1. PICK i \in Committed(competentAuthority) : Place(competentAuthority, i) = n
    BY RowsInPlace DEF Typed
  <2> QED
    BY <1>7, <1>8, <1>9, <2>1
<1>12. ASSUME NEW n \in Places(area)
       PROVE  CommittedAreas'[n] = CommittedAreas[n]
  <2>1. PICK i \in Committed(area) : Place(area, i) = n
    BY RowsInPlace DEF Typed
  <2> QED
    BY <1>7, <1>8, <1>10, <2>1
<1>13. CommittedAuthorities' = CommittedAuthorities
  BY <1>7, <1>8, <1>11
<1>14. CommittedAreas' = CommittedAreas
  BY <1>7, <1>8, <1>12
<1> QED
  BY <1>13, <1>14

\* A rollback.
LEMMA RollBackUnseen ==
  ASSUME Typed, NEW w \in Workers, IsRolledBack(w)
  PROVE  /\ Moves(w)
         /\ Unseen(competentAuthority, competentAuthority') /\ Unseen(area, area')
<1>1. /\ txn[w].time \in Timestamps /\ w \notin {"committed", "aborted", "nobody"}
      /\ competentAuthority \in Seq(AuthorityRow) /\ area \in Seq(AreaRow)
  BY WorkerTypes DEF IsRolledBack, Typed
<1>2. Unseen(competentAuthority, AllRolledBack(competentAuthority, w))
  BY <1>1, AuthorityRowsTakeMarks, EndStep
<1>3. Unseen(area, AllRolledBack(area, w))
  BY <1>1, AreaRowsTakeMarks, EndStep
<1> QED
  BY <1>2, <1>3, EndMoves DEF IsRolledBack

\* A commit: the rows the request has ended are stamped, ...
LEMMA CommittedTables ==
  ASSUME AreaTransactionsInv, Typed', NEW w \in Workers, IsCommitted(w)
  PROVE  LET t == txn[w].time
         IN  /\ \A i \in Committed(competentAuthority) :
                  AsAuthority(competentAuthority'[i]) =
                    IF competentAuthority[i].endedBy = w
                      THEN [AsAuthority(competentAuthority[i]) EXCEPT !.endedAt = t]
                      ELSE AsAuthority(competentAuthority[i])
             /\ \A i \in Committed(area) :
                  AsArea(area'[i]) =
                    IF area[i].endedBy = w THEN [AsArea(area[i]) EXCEPT !.endedAt = t]
                      ELSE AsArea(area[i])
             /\ Committed(competentAuthority') =
                  Committed(competentAuthority)
                    \cup {i \in DOMAIN competentAuthority : competentAuthority[i].by = w}
             /\ Committed(area') = Committed(area) \cup {i \in DOMAIN area : area[i].by = w}
<1>1. PICK t : t = txn[w].time
  OBVIOUS
<1>2. /\ DOMAIN competentAuthority' = DOMAIN competentAuthority
      /\ DOMAIN area' = DOMAIN area
      /\ \A i \in DOMAIN competentAuthority :
           RowCommitted(competentAuthority[i], competentAuthority'[i], w, t)
      /\ \A i \in DOMAIN area : RowCommitted(area[i], area'[i], w, t)
      /\ w \notin {"committed", "aborted", "nobody"}
  BY <1>1, CommitRows, WorkerTypes DEF AreaTransactionsInv
<1>3. \A i \in DOMAIN area : area'[i].competentAuthority = area[i].competentAuthority
  BY EndMoves DEF AreaTransactionsInv, Moves
<1>4. ASSUME NEW i \in Committed(competentAuthority)
      PROVE  AsAuthority(competentAuthority'[i]) =
               IF competentAuthority[i].endedBy = w
                 THEN [AsAuthority(competentAuthority[i]) EXCEPT !.endedAt = t]
                 ELSE AsAuthority(competentAuthority[i])
  BY <1>2 DEF RowCommitted, Committed, AsAuthority
<1>5. ASSUME NEW i \in Committed(area)
      PROVE  AsArea(area'[i]) =
               IF area[i].endedBy = w THEN [AsArea(area[i]) EXCEPT !.endedAt = t]
                 ELSE AsArea(area[i])
  BY <1>2, <1>3 DEF RowCommitted, Committed, AsArea
<1>6. Committed(competentAuthority') =
        Committed(competentAuthority)
          \cup {i \in DOMAIN competentAuthority : competentAuthority[i].by = w}
  BY <1>2 DEF RowCommitted, Committed
<1>7. Committed(area') = Committed(area) \cup {i \in DOMAIN area : area[i].by = w}
  BY <1>2 DEF RowCommitted, Committed
<1> QED
  BY <1>1, <1>4, <1>5, <1>6, <1>7

\* The versions a request ends in its step of AreaService.
EndedAuthorities(w) ==
  IF Kind(w) \in {"post", "end authority"}
    THEN CurrentVersions(CommittedAuthorities, Ca(w)) ELSE {}
EndedAreas(w) ==
  IF Kind(w) \in {"post", "delete"} THEN CurrentVersions(CommittedAreas, AreaIdOf(w)) ELSE {}

\* A request that was served alone and has answered has ended these, ...
LEMMA EndedAsServed ==
  ASSUME AreaTransactionsInv, NEW w \in Workers, txn[w].pc = "answered", overlapped = {},
         NEW s, Amounts(w, "answered", s)
  PROVE  /\ \A i \in Committed(competentAuthority) :
              competentAuthority[i].endedBy = w
                <=> Place(competentAuthority, i) \in EndedAuthorities(w)
         /\ \A i \in Committed(area) :
              area[i].endedBy = w <=> Place(area, i) \in EndedAreas(w)
<1>1. Typed /\ Marked /\ WorkerInv(w) /\ Started(w)
  BY DEF AreaTransactionsInv, Started
<1>2. PICK o, t, v : Fits(w, "answered", o, t, v)
  BY <1>1 DEF WorkerInv
<1>3. /\ WritesItsOwn(w) /\ WritesAll(w, "answered")
      /\ w \notin {"committed", "aborted", "nobody"}
  BY WorkerTypes, <1>1 DEF Amounts
<1>4. /\ competentAuthority \in Seq(AuthorityRow) /\ area \in Seq(AreaRow)
      /\ ClosesUp(competentAuthority, CommittedAuthorities) /\ ClosesUp(area, CommittedAreas)
      /\ RowsMarked(competentAuthority, Workers) /\ RowsMarked(area, Workers)
  BY <1>1, ClosedTables DEF Typed, Marked
<1>5. ASSUME NEW i \in Committed(competentAuthority)
      PROVE  competentAuthority[i].endedBy = w
               <=> Place(competentAuthority, i) \in EndedAuthorities(w)
  <2>1. i \in DOMAIN competentAuthority
    BY DEF Committed
  <2>2. Place(competentAuthority, i) \in CurrentVersions(CommittedAuthorities, Ca(w))
          <=> competentAuthority[i].fid = Ca(w) /\ IsCurrent(competentAuthority[i])
    BY <1>4, ClosedVersions
  <2>3. ASSUME competentAuthority[i].endedBy = w
        PROVE  /\ Kind(w) \in {"post", "end authority"}
               /\ competentAuthority[i].fid = Ca(w) /\ IsCurrent(competentAuthority[i])
    BY <1>2, <1>3, <1>4, <2>1, <2>3 DEF WritesItsOwn, Fits, Locks, RowsMarked
  <2>4. ASSUME Kind(w) \in {"post", "end authority"},
               competentAuthority[i].fid = Ca(w), IsCurrent(competentAuthority[i])
        PROVE  competentAuthority[i].endedBy = w
    <3>1. i \in CurrentOf(competentAuthority, Ca(w))
      BY <2>4 DEF CurrentOf, CommittedOf
    <3>2. CASE Kind(w) = "end authority"
      BY <1>3, <3>1, <3>2 DEF WritesAll
    <3>3. CASE Kind(w) = "post"
      <4>1. txn[w].request \in Requests
        BY <1>1, WorkerTypes
      <4>2. Ca(w) \in CompetentAuthorities
        BY <3>3, <4>1, RequestTypes DEF Ca, Kind
      <4>3. "answered" \in WithAuthority
        BY DEF WithAuthority
      <4> QED
        BY <1>2, <3>1, <3>3, <4>2, <4>3 DEF Fits, OnAuthority
    <3> QED
      BY <2>4, <3>2, <3>3
  <2> QED
    BY <2>2, <2>3, <2>4 DEF EndedAuthorities
<1>6. ASSUME NEW i \in Committed(area)
      PROVE  area[i].endedBy = w <=> Place(area, i) \in EndedAreas(w)
  <2>1. i \in DOMAIN area
    BY DEF Committed
  <2>2. Place(area, i) \in CurrentVersions(CommittedAreas, AreaIdOf(w))
          <=> area[i].fid = AreaIdOf(w) /\ IsCurrent(area[i])
    BY <1>4, ClosedVersions
  <2>3. ASSUME area[i].endedBy = w
        PROVE  /\ Kind(w) \in {"post", "delete"}
               /\ area[i].fid = AreaIdOf(w) /\ IsCurrent(area[i])
    BY <1>2, <1>3, <1>4, <2>1, <2>3 DEF WritesItsOwn, Fits, Locks, RowsMarked
  <2>4. ASSUME Kind(w) \in {"post", "delete"}, area[i].fid = AreaIdOf(w), IsCurrent(area[i])
        PROVE  area[i].endedBy = w
    <3>1. i \in CurrentOf(area, AreaIdOf(w))
      BY <2>4 DEF CurrentOf, CommittedOf
    <3> QED
      BY <1>2, <2>4, <3>1 DEF Fits, OnArea
  <2> QED
    BY <2>2, <2>3, <2>4 DEF EndedAreas
<1> QED
  BY <1>5, <1>6

\* ... and added what its kind of request adds.
LEMMA AddedAsServed ==
  ASSUME AreaTransactionsInv, NEW w \in Workers, txn[w].pc = "answered",
         NEW s, Amounts(w, "answered", s)
  PROVE  /\ Kind(w) # "post" =>
              /\ {i \in DOMAIN competentAuthority : competentAuthority[i].by = w} = {}
              /\ {i \in DOMAIN area : area[i].by = w} = {}
         /\ Kind(w) = "post" =>
              /\ {i \in DOMAIN competentAuthority : competentAuthority[i].by = w} = {txn[w].version}
              /\ txn[w].version \in DOMAIN competentAuthority
              /\ competentAuthority[txn[w].version].fid = Ca(w)
              /\ competentAuthority[txn[w].version].createdAt = txn[w].time
              /\ IsCurrent(competentAuthority[txn[w].version])
              /\ competentAuthority[txn[w].version].endedBy = "nobody"
              /\ \E k \in DOMAIN area :
                    /\ {i \in DOMAIN area : area[i].by = w} = {k}
                    /\ area[k].fid = AreaIdOf(w) /\ area[k].createdAt = txn[w].time
                    /\ area[k].competentAuthority = txn[w].version
                    /\ IsCurrent(area[k]) /\ area[k].endedBy = "nobody"
<1>1. Typed /\ Marked /\ WorkerInv(w) /\ Started(w)
  BY DEF AreaTransactionsInv, Started
<1>2. PICK v : v = txn[w].version
  OBVIOUS
<1>3. OwnRows(w, "answered", v)
  BY <1>1, <1>2 DEF WorkerInv, Fits
<1>4. /\ w \notin {"committed", "aborted", "nobody"} /\ "answered" \in WithAuthority
      /\ RowsMarked(competentAuthority, Workers) /\ RowsMarked(area, Workers)
  BY WorkerTypes, <1>1 DEF Marked, WithAuthority
<1>5. CASE Kind(w) # "post"
  BY <1>3, <1>5 DEF OwnRows
<1>6. CASE Kind(w) = "post"
  <2>1. v \in DOMAIN competentAuthority /\ competentAuthority[v].by = w
    BY <1>3, <1>4, <1>6 DEF OwnRows
  <2>2. /\ \A i \in DOMAIN competentAuthority : competentAuthority[i].by = w => i = v
        /\ competentAuthority[v].fid = Ca(w) /\ competentAuthority[v].createdAt = txn[w].time
    BY <1>3, <2>1 DEF OwnRows
  <2>3. IsCurrent(competentAuthority[v]) /\ competentAuthority[v].endedBy = "nobody"
    BY <1>4, <2>1 DEF RowsMarked
  <2>4. PICK k \in DOMAIN area : area[k].by = w
    BY <1>6 DEF Amounts, WritesAll
  <2>5. /\ \A i \in DOMAIN area : area[i].by = w => i = k
        /\ area[k].fid = AreaIdOf(w) /\ area[k].createdAt = txn[w].time
        /\ area[k].competentAuthority = v
    BY <1>3, <2>4 DEF OwnRows
  <2>6. IsCurrent(area[k]) /\ area[k].endedBy = "nobody"
    BY <1>4, <2>4 DEF RowsMarked
  <2>7. {i \in DOMAIN competentAuthority : competentAuthority[i].by = w} = {v}
    BY <2>1, <2>2
  <2>8. {i \in DOMAIN area : area[i].by = w} = {k}
    BY <2>4, <2>5
  <2> QED
    BY <1>2, <1>6, <2>1, <2>2, <2>3, <2>5, <2>6, <2>7, <2>8
<1> QED
  BY <1>5, <1>6

\* The row of a new version of the authority.
AuthorityAdded(w) == [fid |-> Ca(w), createdAt |-> txn[w].time, endedAt |-> NotEnded]

\* A commit, in the authorities: one more version in force, or only an end.
LEMMA AuthoritiesCommitted ==
  ASSUME AreaTransactionsInv, Typed', NEW w \in Workers, IsCommitted(w), overlapped = {},
         NEW s, Amounts(w, "answered", s)
  PROVE  /\ Kind(w) = "post" =>
              /\ CommittedAuthorities' =
                   Append(EndVersions(CommittedAuthorities, EndedAuthorities(w), txn[w].time),
                          AuthorityAdded(w))
              /\ Len(CommittedAuthorities') = Place(competentAuthority', txn[w].version)
         /\ Kind(w) # "post" =>
              CommittedAuthorities' =
                EndVersions(CommittedAuthorities, EndedAuthorities(w), txn[w].time)
         /\ \A a \in Committed(competentAuthority) :
              Place(competentAuthority', a) = Place(competentAuthority, a)
<1>1. PICK t, authorities, old, new, ids, k :
        /\ t = txn[w].time /\ authorities = competentAuthority'
        /\ old = CommittedAuthorities /\ new = CommittedAuthorities'
        /\ ids = EndedAuthorities(w) /\ k = txn[w].version
  OBVIOUS
<1>2. Typed /\ txn[w].pc = "answered" /\ competentAuthority \in Seq(AuthorityRow)
  BY DEF AreaTransactionsInv, Typed, IsCommitted
<1>3. /\ \A i \in Committed(competentAuthority) :
           AsAuthority(authorities[i]) =
             IF competentAuthority[i].endedBy = w
               THEN [AsAuthority(competentAuthority[i]) EXCEPT !.endedAt = t]
               ELSE AsAuthority(competentAuthority[i])
      /\ Committed(authorities) =
           Committed(competentAuthority)
             \cup {i \in DOMAIN competentAuthority : competentAuthority[i].by = w}
  BY <1>1, CommittedTables
<1>4. \A i \in Committed(competentAuthority) :
        competentAuthority[i].endedBy = w <=> Place(competentAuthority, i) \in ids
  BY <1>1, <1>2, EndedAsServed
<1>5. /\ old = [n \in Places(competentAuthority) |-> old[n]]
      /\ \A i \in Committed(competentAuthority) :
           old[Place(competentAuthority, i)] = AsAuthority(competentAuthority[i])
  BY <1>1, <1>2, ClosedTables
<1>6. /\ new = [n \in Places(authorities) |-> new[n]]
      /\ \A i \in Committed(authorities) :
           new[Place(authorities, i)] = AsAuthority(authorities[i])
  BY <1>1, ClosedTablesNext
<1>7. \A i \in Committed(competentAuthority) :
        new[Place(authorities, i)] =
          IF Place(competentAuthority, i) \in ids
            THEN [old[Place(competentAuthority, i)] EXCEPT !.endedAt = t]
            ELSE old[Place(competentAuthority, i)]
  <2> SUFFICES ASSUME NEW i \in Committed(competentAuthority)
               PROVE  new[Place(authorities, i)] =
                        IF Place(competentAuthority, i) \in ids
                          THEN [old[Place(competentAuthority, i)] EXCEPT !.endedAt = t]
                          ELSE old[Place(competentAuthority, i)]
    OBVIOUS
  <2>1. new[Place(authorities, i)] = AsAuthority(authorities[i])
    BY <1>3, <1>6
  <2>2. old[Place(competentAuthority, i)] = AsAuthority(competentAuthority[i])
    BY <1>5
  <2> QED
    BY <1>3, <1>4, <2>1, <2>2
<1>8. EndsClosed(competentAuthority, authorities, old, new, ids, t)
  BY <1>5, <1>6, <1>7 DEF EndsClosed
<1>9. ASSUME Kind(w) = "post"
      PROVE  /\ new = Append(EndVersions(old, ids, t), AuthorityAdded(w))
             /\ Len(new) = Place(authorities, k)
             /\ \A a \in Committed(competentAuthority) :
                  Place(authorities, a) = Place(competentAuthority, a)
  <2>1. /\ {i \in DOMAIN competentAuthority : competentAuthority[i].by = w} = {k}
        /\ k \in DOMAIN competentAuthority
        /\ competentAuthority[k].fid = Ca(w) /\ competentAuthority[k].createdAt = t
        /\ IsCurrent(competentAuthority[k]) /\ competentAuthority[k].endedBy = "nobody"
    BY <1>1, <1>2, <1>9, AddedAsServed
  <2>2. Committed(authorities) = Committed(competentAuthority) \cup {k} /\ k \in Nat
    BY <1>2, <1>3, <2>1
  <2>3. \A i \in Committed(competentAuthority) : i < k
    BY <2>1 DEF Amounts, WritesItsOwn
  <2>4. AppendsClosed(old, new, ids, t, Place(authorities, k))
    BY <1>2, <1>8, <2>2, <2>3, ClosedAppends
  <2>5. \A a \in Committed(competentAuthority) :
          Place(authorities, a) = Place(competentAuthority, a)
    BY <1>2, <2>2, <2>3, PlaceAdded
  <2>6. new[Place(authorities, k)] = AsAuthority(authorities[k])
    BY <1>6, <2>2
  <2>7. RowCommitted(competentAuthority[k], authorities[k], w, t)
    BY <1>1, <1>2, <2>1, CommitRows
  <2>8. AsAuthority(authorities[k]) = AuthorityAdded(w)
    <3>1. w # "nobody"
      BY WorkerTypes, <1>2 DEF Started
    <3> QED
      BY <1>1, <2>1, <2>7, <3>1 DEF RowCommitted, AsAuthority, AuthorityAdded, IsCurrent
  <2> QED
    BY <2>4, <2>5, <2>6, <2>8 DEF AppendsClosed
<1>10. ASSUME Kind(w) # "post"
      PROVE  /\ new = EndVersions(old, ids, t)
             /\ \A a \in Committed(competentAuthority) :
                  Place(authorities, a) = Place(competentAuthority, a)
  <2>1. {i \in DOMAIN competentAuthority : competentAuthority[i].by = w} = {}
    BY <1>2, <1>10, AddedAsServed
  <2>2. Committed(authorities) = Committed(competentAuthority)
    BY <1>3, <2>1
  <2>3. new = EndVersions(old, ids, t)
    BY <1>2, <1>8, <2>2, ClosedEnds
  <2> QED
    BY <2>2, <2>3, PlacesKept
<1>11. \A a \in Committed(competentAuthority) :
         Place(authorities, a) = Place(competentAuthority, a)
  BY <1>9, <1>10
<1> QED
  BY <1>1, <1>9, <1>10, <1>11

\* The row of a new area, under the given version of its authority.
AreaAdded(w, version) ==
  [fid |-> AreaIdOf(w), competentAuthority |-> version, createdAt |-> txn[w].time,
   endedAt |-> NotEnded]

\* A commit, in the areas.
LEMMA AreasCommitted ==
  ASSUME AreaTransactionsInv, Typed', NEW w \in Workers, IsCommitted(w), overlapped = {},
         NEW s, Amounts(w, "answered", s)
  PROVE  /\ Kind(w) = "post" =>
              CommittedAreas' =
                Append(EndVersions(CommittedAreas, EndedAreas(w), txn[w].time),
                       AreaAdded(w, Place(competentAuthority', txn[w].version)))
         /\ Kind(w) # "post" =>
              CommittedAreas' = EndVersions(CommittedAreas, EndedAreas(w), txn[w].time)
<1>1. PICK t, authorities, areas, old, new, ids, v :
        /\ t = txn[w].time /\ authorities = competentAuthority' /\ areas = area'
        /\ old = CommittedAreas /\ new = CommittedAreas'
        /\ ids = EndedAreas(w) /\ v = txn[w].version
  OBVIOUS
<1>2. /\ Typed /\ AnnouncedTogether /\ txn[w].pc = "answered" /\ area \in Seq(AreaRow)
      /\ \A i \in DOMAIN area : areas[i].competentAuthority = area[i].competentAuthority
  BY <1>1, EndMoves DEF AreaTransactionsInv, Typed, IsCommitted, Moves
<1>3. /\ \A i \in Committed(area) :
           AsArea(areas[i]) =
             IF area[i].endedBy = w THEN [AsArea(area[i]) EXCEPT !.endedAt = t]
               ELSE AsArea(area[i])
      /\ Committed(areas) = Committed(area) \cup {i \in DOMAIN area : area[i].by = w}
  BY <1>1, CommittedTables
<1>4. \A i \in Committed(area) : area[i].endedBy = w <=> Place(area, i) \in ids
  BY <1>1, <1>2, EndedAsServed
<1>5. /\ old = [n \in Places(area) |-> old[n]]
      /\ \A i \in Committed(area) : old[Place(area, i)] = AsArea(area[i])
  BY <1>1, <1>2, ClosedTables
<1>6. /\ new = [n \in Places(areas) |-> new[n]]
      /\ \A i \in Committed(areas) :
           new[Place(areas, i)] =
             [fid |-> areas[i].fid,
              competentAuthority |-> Place(authorities, areas[i].competentAuthority),
              createdAt |-> areas[i].createdAt, endedAt |-> areas[i].endedAt]
  BY <1>1, ClosedTablesNext
<1>7. \A a \in Committed(competentAuthority) :
        Place(authorities, a) = Place(competentAuthority, a)
  BY <1>1, AuthoritiesCommitted
<1>8. \A i \in Committed(area) :
        new[Place(areas, i)] =
          IF Place(area, i) \in ids THEN [old[Place(area, i)] EXCEPT !.endedAt = t]
            ELSE old[Place(area, i)]
  <2> SUFFICES ASSUME NEW i \in Committed(area)
               PROVE  new[Place(areas, i)] =
                        IF Place(area, i) \in ids THEN [old[Place(area, i)] EXCEPT !.endedAt = t]
                          ELSE old[Place(area, i)]
    OBVIOUS
  <2>1. /\ area[i].competentAuthority \in Committed(competentAuthority)
        /\ areas[i].competentAuthority = area[i].competentAuthority
    BY <1>2 DEF AnnouncedTogether, Committed
  <2>2. Place(authorities, areas[i].competentAuthority)
          = Place(competentAuthority, areas[i].competentAuthority)
    BY <1>7, <2>1
  <2>3. new[Place(areas, i)] = AsArea(areas[i])
    BY <1>3, <1>6, <2>2 DEF AsArea
  <2>4. old[Place(area, i)] = AsArea(area[i])
    BY <1>5
  <2> QED
    BY <1>3, <1>4, <2>3, <2>4
<1>9. EndsClosed(area, areas, old, new, ids, t)
  BY <1>5, <1>6, <1>8 DEF EndsClosed
<1>10. ASSUME Kind(w) = "post"
      PROVE  new = Append(EndVersions(old, ids, t), AreaAdded(w, Place(authorities, v)))
  <2>1. PICK k \in DOMAIN area :
          /\ {i \in DOMAIN area : area[i].by = w} = {k}
          /\ area[k].fid = AreaIdOf(w) /\ area[k].createdAt = t
          /\ area[k].competentAuthority = v
          /\ IsCurrent(area[k]) /\ area[k].endedBy = "nobody"
    BY <1>1, <1>2, <1>10, AddedAsServed
  <2>2. Committed(areas) = Committed(area) \cup {k} /\ k \in Nat
    BY <1>2, <1>3, <2>1
  <2>3. \A i \in Committed(area) : i < k
    BY <2>1 DEF Amounts, WritesItsOwn
  <2>4. AppendsClosed(old, new, ids, t, Place(areas, k))
    BY <1>2, <1>9, <2>2, <2>3, ClosedAppends
  <2>5. new[Place(areas, k)] =
          [fid |-> areas[k].fid,
           competentAuthority |-> Place(authorities, areas[k].competentAuthority),
           createdAt |-> areas[k].createdAt, endedAt |-> areas[k].endedAt]
    BY <1>6, <2>2
  <2>6. RowCommitted(area[k], areas[k], w, t) /\ areas[k].competentAuthority = v
    BY <1>1, <1>2, <2>1, CommitRows
  <2>7. /\ areas[k].fid = AreaIdOf(w) /\ areas[k].createdAt = t
        /\ areas[k].endedAt = NotEnded
    <3>1. w # "nobody"
      BY WorkerTypes, <1>2 DEF Started
    <3> QED
      BY <2>1, <2>6, <3>1 DEF RowCommitted, IsCurrent
  <2>8. new[Place(areas, k)] = AreaAdded(w, Place(authorities, v))
    BY <1>1, <2>5, <2>6, <2>7 DEF AreaAdded
  <2> QED
    BY <2>4, <2>8 DEF AppendsClosed
<1>11. ASSUME Kind(w) # "post"
       PROVE  new = EndVersions(old, ids, t)
  <2>1. {i \in DOMAIN area : area[i].by = w} = {}
    BY <1>2, <1>11, AddedAsServed
  <2>2. Committed(areas) = Committed(area)
    BY <1>3, <2>1
  <2> QED
    BY <1>2, <1>9, <2>2, ClosedEnds
<1> QED
  BY <1>1, <1>10, <1>11

-----------------------------------------------------------------------------
(***************************************************************************)
(* The serial specification                                                *)
(***************************************************************************)

\* The operators of Versioning are the same in it.
LEMMA SerialOperators ==
  ASSUME NEW table, NEW x, NEW t, NEW row
  PROVE  /\ Serial!CurrentVersions(table, x) = CurrentVersions(table, x)
         /\ Serial!EndVersions(table, x, t) = EndVersions(table, x, t)
         /\ Serial!ExistsAny(table, x) <=> ExistsAny(table, x)
         /\ Serial!Deactivated(table, x) <=> Deactivated(table, x)
         /\ Serial!NewVersion(table, row)
              = Append(EndVersions(table, CurrentVersions(table, row.fid), row.createdAt), row)
         /\ Serial!NotEnded = NotEnded
<1>1. Serial!NotEnded = NotEnded
  BY DEF Serial!NotEnded, NotEnded
<1>2. \A y : Serial!Versions(table, y) = Versions(table, y)
  BY DEF Serial!Versions, Versions
<1>3. \A y : Serial!CurrentVersions(table, y) = CurrentVersions(table, y)
  BY <1>1, <1>2 DEF Serial!CurrentVersions, CurrentVersions, Serial!IsCurrent, IsCurrent
<1>4. \A y, z : Serial!EndVersions(table, y, z) = EndVersions(table, y, z)
  BY DEF Serial!EndVersions, EndVersions
<1>5. Serial!ExistsAny(table, x) <=> ExistsAny(table, x)
  BY <1>2 DEF Serial!ExistsAny, ExistsAny
<1>6. Serial!Deactivated(table, x) <=> Deactivated(table, x)
  BY <1>3, <1>5 DEF Serial!Deactivated, Deactivated
<1>7. Serial!NewVersion(table, row)
        = Append(EndVersions(table, CurrentVersions(table, row.fid), row.createdAt), row)
  BY <1>3, <1>4 DEF Serial!NewVersion
<1> QED
  BY <1>1, <1>3, <1>4, <1>5, <1>6, <1>7

\* The empty database.
LEMMA SerialInit ==
  ASSUME Init
  PROVE  Serial!AreaInit
<1>1. Committed(competentAuthority) = {} /\ Committed(area) = {}
  BY DEF Init, Committed
<1>2. Places(competentAuthority) = {} /\ Places(area) = {}
  BY <1>1, FS_EmptySet DEF Places
<1>3. CommittedAuthorities = <<>> /\ CommittedAreas = <<>>
  BY <1>2 DEF CommittedAuthorities, CommittedAreas
<1>4. SerialNow = 0
  BY DEF Init, SerialNow, Idle
<1>5. finished.reply = Serial!NoAreaReply
  BY DEF Init, NoReply, Serial!NoAreaReply
<1> QED
  BY <1>3, <1>4, <1>5 DEF Serial!AreaInit

\* The end of a request is the one transaction of the serial specification.
LEMMA SerialBegins ==
  ASSUME Typed, NEW w \in Workers, Started(w), \A v \in Workers \ {w} : ~Started(v),
         Ends(w), finished'.time = txn[w].time
  PROVE  Serial!Begin /\ SerialNow' = txn[w].time
<1>1. PICK t : t = txn[w].time
  OBVIOUS
<1>2. t \in 1..now /\ now \in 0..MaxTime /\ MaxTime \in Nat
  BY <1>1, WorkerTypes DEF Typed, RequestKept
<1>3. t \in 1..MaxTime
  BY <1>2
<1>4. /\ \E v \in Workers : txn[v].pc # "idle"
      /\ \A u \in 1..MaxTime :
           (\E v \in Workers : txn[v].pc # "idle" /\ txn[v].time = u) <=> u = t
  BY <1>1, <1>3 DEF Started
<1>5. (CHOOSE u \in 1..MaxTime : \E v \in Workers : txn[v].pc # "idle" /\ txn[v].time = u) = t
  BY <1>3, <1>4
<1>6. SerialNow = t - 1
  BY <1>4, <1>5 DEF SerialNow
<1>7. \A v \in Workers : txn'[v].pc = "idle"
  BY DEF Ends, Untouched, Started, Idle
<1>8. SerialNow' = t
  BY <1>1, <1>7 DEF SerialNow
<1>9. t - 1 < MaxTime /\ t = (t - 1) + 1
  BY <1>2
<1> QED
  BY <1>1, <1>6, <1>8, <1>9 DEF Serial!Begin

\* Which versions there are of a functional id.
LEMMA ClosedUse ==
  ASSUME NEW Row, NEW table \in Seq(Row), NEW closed, ClosesUp(table, closed), NEW x
  PROVE  /\ ExistsAny(closed, x) <=> CommittedOf(table, x) # {}
         /\ CurrentVersions(closed, x) = {} <=> CurrentOf(table, x) = {}
         /\ Deactivated(closed, x) <=> ~InUse(table, x)
<1>1. ExistsAny(closed, x) <=> CommittedOf(table, x) # {}
  BY ClosedVersions DEF ExistsAny, CommittedOf
<1>2. CurrentVersions(closed, x) = {} <=> CurrentOf(table, x) = {}
  BY ClosedVersions DEF CurrentOf, CommittedOf
<1> QED
  BY <1>1, <1>2 DEF Deactivated, InUse

\* A current version there is a committed row here.
LEMMA ClosedCurrent ==
  ASSUME NEW Row, NEW table \in Seq(Row), NEW closed, ClosesUp(table, closed), NEW x,
         NEW n \in CurrentVersions(closed, x)
  PROVE  \E i \in CurrentOf(table, x) : Place(table, i) = n
<1>1. PICK i \in Committed(table) : Place(table, i) = n /\ table[i].fid = x /\ IsCurrent(table[i])
  BY ClosedVersions
<1> QED
  BY <1>1 DEF CurrentOf, CommittedOf

\* The owner of an area.
LEMMA ClosedOwner ==
  ASSUME Typed, AnnouncedTogether, NEW i \in Committed(area)
  PROVE  /\ Serial!OwnerOf(Place(area, i)) = competentAuthority[area[i].competentAuthority].fid
         /\ CommittedAreas[Place(area, i)].competentAuthority
              = Place(competentAuthority, area[i].competentAuthority)
<1>1. PICK a : a = area[i].competentAuthority
  OBVIOUS
<1>2. a \in Committed(competentAuthority)
  BY <1>1 DEF AnnouncedTogether
<1>3. /\ CommittedAreas[Place(area, i)] = AsArea(area[i])
      /\ CommittedAuthorities[Place(competentAuthority, a)] = AsAuthority(competentAuthority[a])
  BY <1>2, ClosedTables
<1>4. CommittedAreas[Place(area, i)].competentAuthority = Place(competentAuthority, a)
  BY <1>1, <1>3 DEF AsArea
<1>5. Serial!OwnerOf(Place(area, i)) = competentAuthority[a].fid
  BY <1>3, <1>4 DEF Serial!OwnerOf, AsAuthority
<1> QED
  BY <1>1, <1>4, <1>5

\* A table of which no version is ended.
LEMMA EndsNone ==
  ASSUME NEW table, NEW S, table = [n \in S |-> table[n]], NEW t
  PROVE  EndVersions(table, {}, t) = table
BY DEF EndVersions

-----------------------------------------------------------------------------
(***************************************************************************)
(* A request that is refused                                               *)
(***************************************************************************)

\* w is the only one served, and what it asks for has not been overlapped.
OnlyServed(w) ==
  /\ Started(w) /\ overlapped = {}
  /\ \A v \in Workers \ {w} : ~Started(v)

\* A rollback is a step of the serial specification that changes no table.
LEMMA RollBackSerially ==
  ASSUME Typed, Typed', NEW w \in Workers, OnlyServed(w), NEW reply, RollBack(w, reply)
  PROVE  /\ Serial!Begin /\ finished'.reply = reply
         /\ CommittedAuthorities' = CommittedAuthorities /\ CommittedAreas' = CommittedAreas
<1>1. IsRolledBack(w) /\ Started(w)
  BY RollBackEffect DEF OnlyServed
<1>2. finished' = [time |-> txn[w].time, reply |-> reply]
  BY DEF RollBack
<1>3. finished'.time = txn[w].time /\ finished'.reply = reply
  BY <1>2
<1>4. Serial!Begin
  BY <1>1, <1>3, SerialBegins DEF OnlyServed, IsRolledBack
<1>5. /\ Moves(w) /\ Unseen(competentAuthority, competentAuthority') /\ Unseen(area, area')
  BY <1>1, RollBackUnseen
<1> QED
  BY <1>3, <1>4, <1>5, NothingSeen

\* A set without two elements.
LEMMA NoTwo ==
  ASSUME NEW S, \A x, y \in S : x = y
  PROVE  ~(Cardinality(S) > 1)
<1>1. CASE S = {}
  BY <1>1, FS_EmptySet
<1>2. CASE S # {}
  <2>1. PICK x : S = {x}
    BY <1>2
  <2> QED
    BY <2>1, FS_Singleton
<1> QED
  BY <1>1, <1>2

\* A SELECT of current versions finds at most one.
LEMMA FindsOne ==
  ASSUME NEW Row, NEW table \in Seq(Row), NEW ids, CommittedStacked(table, ids), NEW x \in ids,
         NEW w, \A i \in DOMAIN table : table[i].by # w
  PROVE  /\ \A i, k \in CurrentTo(w, table, x) : i = k
         /\ ~(Cardinality(CurrentTo(w, table, x)) > 1)
         /\ \A S \in SUBSET CurrentTo(w, table, x) : ~(Cardinality(S) > 1)
<1>1. \A i \in CurrentTo(w, table, x) :
        i \in Committed(table) /\ table[i].fid = x /\ IsCurrent(table[i]) /\ i \in Nat
  BY DEF CurrentTo, VisibleTo, Versions, Committed
<1>2. \A i, k \in CurrentTo(w, table, x) : i = k
  <2> SUFFICES ASSUME NEW i \in CurrentTo(w, table, x), NEW k \in CurrentTo(w, table, x)
               PROVE  i = k
    OBVIOUS
  <2>1. ~(i < k) /\ ~(k < i)
    BY <1>1 DEF CommittedStacked
  <2> QED
    BY <1>1, <2>1
<1> QED
  BY <1>2, NoTwo

\* What the only request served finds, is what is committed.
LEMMA NoOwnRows ==
  ASSUME NEW w, NEW pc, NEW o, NEW t, NEW v, Fits(w, pc, o, t, v)
  PROVE  /\ pc \notin WithAuthority =>
              \A i \in DOMAIN competentAuthority : competentAuthority[i].by # w
         /\ pc # "answered" => \A i \in DOMAIN area : area[i].by # w
         /\ pc \notin {"lock area", "insert", "answered"} =>
              \A i \in DOMAIN area : area[i].endedBy # w
BY DEF Fits, OwnRows, Locks

\* A SELECT never finds two versions: no request fails with 500.
LEMMA NeverAmbiguous ==
  ASSUME AreaTransactionsInv, NEW w \in Workers, OnlyServed(w)
  PROVE  /\ txn[w].pc = "find authority" =>
              ~(Cardinality(CurrentTo(w, competentAuthority, txn[w].request.ca)) > 1)
         /\ txn[w].pc \in {"find area", "find own area"} =>
              \A S \in SUBSET CurrentTo(w, area, txn[w].request.areaId) : ~(Cardinality(S) > 1)
<1>1. /\ Typed /\ WorkerInv(w) /\ Started(w) /\ overlapped = {} /\ VersionsStacked
      /\ competentAuthority \in Seq(AuthorityRow) /\ area \in Seq(AreaRow)
  BY DEF AreaTransactionsInv, OnlyServed, Typed
<1>2. PICK o, t, v : Fits(w, txn[w].pc, o, t, v)
  BY <1>1 DEF WorkerInv
<1>3. /\ CommittedStacked(competentAuthority, CompetentAuthorities)
      /\ CommittedStacked(area, AllAreaIds)
  BY <1>1 DEF VersionsStacked
<1>4. txn[w].request \in Requests
  BY <1>1, WorkerTypes
<1>5. ASSUME txn[w].pc = "find authority"
      PROVE  ~(Cardinality(CurrentTo(w, competentAuthority, txn[w].request.ca)) > 1)
  <2>1. \A i \in DOMAIN competentAuthority : competentAuthority[i].by # w
    BY <1>2, <1>5, NoOwnRows DEF WithAuthority
  <2>2. txn[w].request.ca \in CompetentAuthorities
    BY <1>1, <1>4, <1>5, NextStatement, RequestTypes DEF Kind
  <2> QED
    BY <1>1, <1>3, <2>1, <2>2, FindsOne
<1>6. ASSUME txn[w].pc \in {"find area", "find own area"}
      PROVE  \A S \in SUBSET CurrentTo(w, area, txn[w].request.areaId) : ~(Cardinality(S) > 1)
  <2>1. \A i \in DOMAIN area : area[i].by # w
    BY <1>2, <1>6, NoOwnRows
  <2>2. PICK x : x = txn[w].request.areaId
    OBVIOUS
  <2>3. x \in AllAreaIds
    BY <1>1, <1>4, <1>6, <2>2, NextStatement, RequestTypes DEF Kind, AllAreaIds
  <2>4. \A S \in SUBSET CurrentTo(w, area, x) : ~(Cardinality(S) > 1)
    BY <1>1, <1>3, <2>1, <2>3, FindsOne
  <2> QED
    BY <2>2, <2>4
<1> QED
  BY <1>5, <1>6

\* POST is refused when AreaService refuses it, ...
LEMMA PostRefused ==
  ASSUME AreaTransactionsInv, Typed', NEW w \in Workers, OnlyServed(w), Kind(w) = "post",
         \/ /\ txn[w].pc = "any authority"
            /\ VisibleTo(w, competentAuthority, txn[w].request.ca) # {}
         \/ txn[w].pc = "any area" /\ AnyVersion(w) # {},
         Refuse(w, 422)
  PROVE  SerialStep(txn[w].request)
<1>1. /\ Typed /\ WorkerInv(w) /\ Started(w) /\ overlapped = {}
      /\ competentAuthority \in Seq(AuthorityRow) /\ area \in Seq(AreaRow)
      /\ ClosesUp(competentAuthority, CommittedAuthorities) /\ ClosesUp(area, CommittedAreas)
  BY ClosedTables DEF AreaTransactionsInv, OnlyServed, Typed
<1>2. PICK o, t, v : Fits(w, txn[w].pc, o, t, v)
  BY <1>1 DEF WorkerInv
<1>3. PICK x, y, reply :
        /\ x = txn[w].request.ca /\ y = txn[w].request.areaId
        /\ reply = [status |-> 422, fid |-> y]
  OBVIOUS
<1>4. RollBack(w, reply)
  BY <1>3 DEF Refuse
<1>5. /\ Serial!Begin /\ finished'.reply = reply
      /\ CommittedAuthorities' = CommittedAuthorities /\ CommittedAreas' = CommittedAreas
  BY <1>1, <1>4, RollBackSerially
<1>6. ASSUME txn[w].pc = "any authority", VisibleTo(w, competentAuthority, x) # {}
      PROVE  ~InUse(competentAuthority, x)
  <2>1. \A i \in DOMAIN competentAuthority : competentAuthority[i].by # w
    BY <1>2, <1>6, NoOwnRows DEF WithAuthority
  <2>2. CommittedOf(competentAuthority, x) # {}
    BY <1>6, <2>1 DEF VisibleTo, Versions, CommittedOf, Committed
  <2>3. Ca(w) \in CompetentAuthorities /\ x = Ca(w)
    BY <1>1, <1>3, WorkerTypes, RequestTypes DEF Kind, Ca
  <2>4. CurrentOf(competentAuthority, x) = {}
    BY <1>1, <1>2, <1>6, <2>3 DEF Fits, OnAuthority
  <2> QED
    BY <2>2, <2>4 DEF InUse
<1>7. ASSUME txn[w].pc = "any area", AnyVersion(w) # {}
      PROVE  ~InUse(area, y)
  <2>1. \A i \in DOMAIN area : area[i].by # w
    BY <1>2, <1>7, NoOwnRows
  <2>2. CommittedOf(area, y) # {}
    BY <1>3, <1>7, <2>1 DEF AnyVersion, VisibleTo, Versions, CommittedOf, Committed
  <2>3. y = AreaIdOf(w)
    BY <1>1, <1>3, <1>7, NextStatement, AreaAsked
  <2>4. CurrentOf(area, y) = {}
    BY <1>1, <1>2, <1>7, <2>3 DEF Fits, OnArea
  <2> QED
    BY <2>2, <2>4 DEF InUse
<1>8. ~InUse(competentAuthority, x) \/ ~InUse(area, y)
  BY <1>3, <1>6, <1>7
<1>9. Serial!AreaRefused(x, y)
  BY <1>1, <1>8, ClosedUse, SerialOperators DEF Serial!AreaRefused
<1>10. finished'.reply = Serial!AreaReply(422, y)
  BY <1>3, <1>5 DEF Serial!AreaReply
<1>11. Serial!PostArea(x, y)
  BY <1>5, <1>9, <1>10 DEF Serial!PostArea
<1> QED
  BY <1>3, <1>11 DEF SerialStep, Kind

\* ... and DELETE when the authority does not own the area.
LEMMA DeleteRefused ==
  ASSUME AreaTransactionsInv, Typed', NEW w \in Workers, OnlyServed(w),
         txn[w].pc = "find own area",
         {i \in CurrentTo(w, area, txn[w].request.areaId) :
            competentAuthority[area[i].competentAuthority].fid = txn[w].request.ca} = {},
         Refuse(w, 404)
  PROVE  SerialStep(txn[w].request)
<1>1. /\ Typed /\ AnnouncedTogether /\ WorkerInv(w) /\ Started(w) /\ area \in Seq(AreaRow)
      /\ ClosesUp(area, CommittedAreas)
  BY ClosedTables DEF AreaTransactionsInv, OnlyServed, Typed
<1>2. PICK o, t, v : Fits(w, txn[w].pc, o, t, v)
  BY <1>1 DEF WorkerInv
<1>3. PICK x, y, reply :
        /\ x = txn[w].request.ca /\ y = txn[w].request.areaId
        /\ reply = [status |-> 404, fid |-> y]
  OBVIOUS
<1>4. RollBack(w, reply)
  BY <1>3 DEF Refuse
<1>5. /\ Serial!Begin /\ finished'.reply = reply
      /\ CommittedAuthorities' = CommittedAuthorities /\ CommittedAreas' = CommittedAreas
  BY <1>1, <1>4, RollBackSerially
<1>6. Serial!OwnAreaById(x, y) = {}
  <2> SUFFICES ASSUME NEW n \in Serial!OwnAreaById(x, y)
               PROVE  FALSE
    OBVIOUS
  <2>1. n \in CurrentVersions(CommittedAreas, y) /\ Serial!OwnerOf(n) = x
    BY SerialOperators DEF Serial!OwnAreaById
  <2>a. PICK closed : closed = CommittedAreas
    OBVIOUS
  <2>b. n \in CurrentVersions(closed, y) /\ ClosesUp(area, closed) /\ area \in Seq(AreaRow)
    BY <1>1, <2>1, <2>a
  <2>2. PICK i \in CurrentOf(area, y) : Place(area, i) = n
    BY <2>b, ClosedCurrent
  <2>3. i \in Committed(area) /\ i \in DOMAIN area
    BY <2>2 DEF CurrentOf, CommittedOf, Committed
  <2>4. competentAuthority[area[i].competentAuthority].fid = x
    BY <1>1, <2>1, <2>2, <2>3, ClosedOwner
  <2>5. area[i].endedBy # w
    BY <1>2, <2>3, NoOwnRows
  <2>6. i \in CurrentTo(w, area, y)
    BY <2>2, <2>5, Finds
  <2> QED
    BY <1>3, <2>4, <2>6
<1>7. finished'.reply = Serial!AreaReply(404, y)
  BY <1>3, <1>5 DEF Serial!AreaReply
<1>8. Serial!DeleteArea(x, y)
  BY <1>5, <1>6, <1>7 DEF Serial!DeleteArea
<1>9. txn[w].request.kind = "delete"
  BY <1>1, NextStatement DEF Kind
<1> QED
  BY <1>3, <1>8, <1>9 DEF SerialStep

-----------------------------------------------------------------------------
(***************************************************************************)
(* A request that is committed                                             *)
(***************************************************************************)

\* The answer about its area.
Answer(w, status) == [status |-> status, fid |-> AreaIdOf(w)]

\* Its commit is one transaction of the serial specification.
LEMMA CommitSerially ==
  ASSUME AreaTransactionsInv, NEW w \in Workers, OnlyServed(w), Commit(w),
         Amounts(w, txn[w].pc, txn[w].status)
  PROVE  /\ IsCommitted(w) /\ txn[w].pc = "answered" /\ Amounts(w, "answered", txn[w].status)
         /\ Serial!Begin /\ SerialNow' = txn[w].time
         /\ Kind(w) = "post" => finished'.reply = Answer(w, 201)
         /\ Kind(w) = "delete" => finished'.reply = Answer(w, 204)
         /\ Kind(w) \notin {"post", "delete"} => finished'.reply = NoReply
<1>1. Typed /\ IsCommitted(w)
  BY CommitEffect DEF AreaTransactionsInv
<1>2. txn[w].pc = "answered" /\ Ends(w)
  BY <1>1 DEF IsCommitted
<1>3. PICK reply : reply = IF txn[w].status = 0 THEN NoReply
                             ELSE [status |-> txn[w].status, fid |-> AreaIdOf(w)]
  OBVIOUS
<1>4. finished' = [time |-> txn[w].time, reply |-> reply]
  BY <1>3 DEF Commit
<1>5. finished'.time = txn[w].time /\ finished'.reply = reply
  BY <1>4
<1>6. Amounts(w, "answered", txn[w].status)
  BY <1>2
<1>7. txn[w].status = StatusAt(w, "answered")
  BY <1>6 DEF Amounts
<1>8. /\ Kind(w) = "post" => reply = Answer(w, 201)
      /\ Kind(w) = "delete" => reply = Answer(w, 204)
      /\ Kind(w) \notin {"post", "delete"} => reply = NoReply
  BY <1>3, <1>7 DEF StatusAt, Answer
<1>9. Serial!Begin /\ SerialNow' = txn[w].time
  BY <1>1, <1>2, <1>5, SerialBegins DEF OnlyServed
<1> QED
  BY <1>1, <1>2, <1>5, <1>6, <1>8, <1>9

\* POST is not refused by AreaService either, ...
LEMMA PostServed ==
  ASSUME AreaTransactionsInv, NEW w \in Workers, OnlyServed(w), Kind(w) = "post",
         txn[w].pc = "answered"
  PROVE  /\ ~Serial!AreaRefused(Ca(w), txn[w].request.areaId)
         /\ AreaIdOf(w) \in Serial!AreaIdFor(txn[w].request.areaId)
<1>1. /\ Typed /\ Marked /\ WorkerInv(w) /\ Started(w) /\ overlapped = {}
      /\ competentAuthority \in Seq(AuthorityRow) /\ area \in Seq(AreaRow)
      /\ ClosesUp(competentAuthority, CommittedAuthorities) /\ ClosesUp(area, CommittedAreas)
  BY ClosedTables DEF AreaTransactionsInv, OnlyServed, Typed
<1>2. PICK o, t, v : Fits(w, "answered", o, t, v)
  BY <1>1 DEF WorkerInv
<1>3. PICK x, y, time : x = Ca(w) /\ y = txn[w].request.areaId /\ time = txn[w].time
  OBVIOUS
<1>4. /\ x \in CompetentAuthorities /\ y \in AreaIds \cup {NoId}
      /\ time \in 1..MaxTime
  BY <1>1, <1>3, WorkerTypes, RequestTypes DEF Kind, Ca, Timestamps
<1>5. AreaIdOf(w) = IF y = NoId THEN time ELSE y
  BY <1>3 DEF AreaIdOf
<1>6. InUse(competentAuthority, x)
  BY <1>1, <1>2, <1>3, <1>4 DEF Fits, OnAuthority, WithAuthority
<1>7. InUse(area, AreaIdOf(w)) /\ OlderThan(area, AreaIdOf(w), time)
  BY <1>1, <1>2, <1>3 DEF Fits, OnArea
<1>8. y = NoId => CommittedOf(area, y) = {}
  <2>1. \A i \in DOMAIN area : area[i].fid \in AllAreaIds
    BY <1>1, RowTypes
  <2>2. NoId \notin AllAreaIds
    BY AreaTransactionConstantsAssumption DEF AllAreaIds
  <2> QED
    BY <2>1, <2>2 DEF CommittedOf, Committed
<1>9. InUse(area, y)
  BY <1>5, <1>7, <1>8 DEF InUse
<1>10. ~Serial!AreaRefused(x, y)
  BY <1>1, <1>6, <1>9, ClosedUse, SerialOperators DEF Serial!AreaRefused
<1>11. ASSUME y = NoId
       PROVE  CommittedOf(area, time) = {}
  <2> SUFFICES ASSUME NEW i \in CommittedOf(area, time)
               PROVE  FALSE
    OBVIOUS
  <2>1. i \in DOMAIN area /\ area[i].fid = time
    BY DEF CommittedOf, Committed
  <2>2. time \notin AreaIds
    BY <1>4, AreaTransactionConstantsAssumption
  <2>3. area[i].createdAt = time
    BY <1>1, <2>1, <2>2 DEF Marked
  <2>4. area[i].createdAt < time
    BY <1>5, <1>7, <1>11 DEF OlderThan
  <2> QED
    BY <1>4, <2>3, <2>4
<1>12. AreaIdOf(w) \in Serial!AreaIdFor(y)
  <2>1. CASE y = NoId
    <3>1. ~ExistsAny(CommittedAreas, time)
      BY <1>1, <1>11, <2>1, ClosedUse
    <3>2. time \in AllAreaIds /\ ~Serial!ExistsAny(CommittedAreas, time)
      BY <1>4, <3>1, SerialOperators DEF AllAreaIds
    <3> QED
      BY <1>5, <2>1, <3>2 DEF Serial!AreaIdFor
  <2>2. CASE y # NoId
    BY <1>5, <2>2 DEF Serial!AreaIdFor
  <2> QED
    BY <2>1, <2>2
<1> QED
  BY <1>3, <1>10, <1>12

\* ... and does what AreaService does.
LEMMA PostCommitted ==
  ASSUME AreaTransactionsInv, Typed', NEW w \in Workers, OnlyServed(w), Commit(w),
         Amounts(w, txn[w].pc, txn[w].status), Kind(w) = "post"
  PROVE  SerialStep(txn[w].request)
<1>1. /\ IsCommitted(w) /\ txn[w].pc = "answered" /\ Amounts(w, "answered", txn[w].status)
      /\ Serial!Begin /\ SerialNow' = txn[w].time
      /\ finished'.reply = Answer(w, 201)
      /\ overlapped = {}
  BY CommitSerially DEF OnlyServed
<1>2. PICK x, y, t, fid, authorities, place :
        /\ x = Ca(w) /\ y = txn[w].request.areaId /\ t = txn[w].time /\ fid = AreaIdOf(w)
        /\ authorities = CommittedAuthorities' /\ place = Place(competentAuthority', txn[w].version)
  OBVIOUS
<1>3. /\ authorities = Append(EndVersions(CommittedAuthorities,
                                          CurrentVersions(CommittedAuthorities, x), t),
                              [fid |-> x, createdAt |-> t, endedAt |-> NotEnded])
      /\ Len(authorities) = place
  BY <1>1, <1>2, AuthoritiesCommitted DEF EndedAuthorities, AuthorityAdded
<1>4. CommittedAreas' = Append(EndVersions(CommittedAreas, CurrentVersions(CommittedAreas, fid), t),
                               [fid |-> fid, competentAuthority |-> place, createdAt |-> t,
                                endedAt |-> NotEnded])
  BY <1>1, <1>2, AreasCommitted DEF EndedAreas, AreaAdded
<1>5. ~Serial!AreaRefused(x, y) /\ fid \in Serial!AreaIdFor(y)
  BY <1>1, <1>2, PostServed
<1>6. authorities = Serial!NewVersion(CommittedAuthorities,
                                      [fid |-> x, createdAt |-> t, endedAt |-> Serial!NotEnded])
  <2>1. PICK row : row = [fid |-> x, createdAt |-> t, endedAt |-> NotEnded]
    OBVIOUS
  <2>2. row.fid = x /\ row.createdAt = t
    BY <2>1
  <2> QED
    BY <1>3, <2>1, <2>2, SerialOperators
<1>7. CommittedAreas' = Serial!NewVersion(CommittedAreas, Serial!NewArea(authorities, fid, t))
  <2>1. PICK row : row = [fid |-> fid, competentAuthority |-> place, createdAt |-> t,
                          endedAt |-> NotEnded]
    OBVIOUS
  <2>2. row.fid = fid /\ row.createdAt = t
    BY <2>1
  <2>3. row = Serial!NewArea(authorities, fid, t)
    BY <1>3, <2>1, SerialOperators DEF Serial!NewArea
  <2>4. CommittedAreas' = Serial!NewVersion(CommittedAreas, row)
    BY <1>4, <2>1, <2>2, SerialOperators
  <2> QED
    BY <2>3, <2>4
<1>8. finished'.reply = Serial!AreaReply(201, fid)
  BY <1>1, <1>2 DEF Serial!AreaReply, Answer
<1>9. /\ CommittedAuthorities' = Serial!NewVersion(CommittedAuthorities,
           [fid |-> x, createdAt |-> SerialNow', endedAt |-> Serial!NotEnded])
      /\ CommittedAreas' =
           Serial!NewVersion(CommittedAreas, Serial!NewArea(CommittedAuthorities', fid, SerialNow'))
  BY <1>1, <1>2, <1>6, <1>7
<1>10. Serial!PostArea(x, y)
  BY <1>1, <1>5, <1>8, <1>9 DEF Serial!PostArea
<1> QED
  BY <1>2, <1>10 DEF SerialStep, Kind, Ca

\* DELETE ends the version of the area that AreaService ends.
LEMMA DeleteCommitted ==
  ASSUME AreaTransactionsInv, Typed', NEW w \in Workers, OnlyServed(w), Commit(w),
         Amounts(w, txn[w].pc, txn[w].status), Kind(w) = "delete"
  PROVE  SerialStep(txn[w].request)
<1>1. /\ IsCommitted(w) /\ txn[w].pc = "answered" /\ Amounts(w, "answered", txn[w].status)
      /\ Serial!Begin /\ SerialNow' = txn[w].time
      /\ overlapped = {}
      /\ Kind(w) = "delete" => finished'.reply = Answer(w, 204)
  <2>1. overlapped = {}
    BY DEF OnlyServed
  <2> QED
    BY <2>1, CommitSerially
<1>2. PICK x, y, t, areas :
        x = Ca(w) /\ y = AreaIdOf(w) /\ t = txn[w].time /\ areas = CommittedAreas
  OBVIOUS
<1>3. /\ Typed /\ AnnouncedTogether /\ VersionsStacked /\ area \in Seq(AreaRow)
      /\ ClosesUp(area, areas)
      /\ CommittedAuthorities = [n \in Places(competentAuthority) |-> CommittedAuthorities[n]]
  BY <1>2, ClosedTables DEF AreaTransactionsInv, Typed
<1>4. y = txn[w].request.areaId /\ y \in AllAreaIds
  <2>1. Started(w) /\ txn[w].request \in Requests
    BY <1>3, WorkerTypes DEF OnlyServed
  <2>2. txn[w].request.areaId \in AreaIds
    BY <2>1, RequestTypes DEF Kind
  <2> QED
    BY <1>2, <2>2, AreaAsked, AreaTransactionConstantsAssumption DEF AllAreaIds
<1>5. CommittedAuthorities' = CommittedAuthorities
  <2>1. CommittedAuthorities' = EndVersions(CommittedAuthorities, EndedAuthorities(w), t)
    BY <1>1, <1>2, AuthoritiesCommitted
  <2>2. EndedAuthorities(w) = {}
    BY DEF EndedAuthorities
  <2> QED
    BY <1>3, <2>1, <2>2, EndsNone
<1>6. CommittedAreas' = EndVersions(areas, CurrentVersions(areas, y), t)
  BY <1>1, <1>2, AreasCommitted DEF EndedAreas
<1>7. PICK i \in CurrentOf(area, y) : competentAuthority[area[i].competentAuthority].fid = x
  BY <1>1, <1>2 DEF Amounts, WritesAll
<1>8. i \in Committed(area) /\ area[i].fid = y /\ IsCurrent(area[i])
  BY DEF CurrentOf, CommittedOf
<1>9. Place(area, i) \in CurrentVersions(areas, y)
  BY <1>3, <1>8, ClosedVersions
<1>10. \A n \in CurrentVersions(areas, y) : n = Place(area, i)
  <2> SUFFICES ASSUME NEW n \in CurrentVersions(areas, y)
               PROVE  n = Place(area, i)
    OBVIOUS
  <2>1. PICK k \in CurrentOf(area, y) : Place(area, k) = n
    BY <1>3, ClosedCurrent
  <2>2. k \in Committed(area) /\ area[k].fid = y /\ IsCurrent(area[k])
    BY DEF CurrentOf, CommittedOf
  <2>3. i \in Nat /\ k \in Nat /\ ~(i < k) /\ ~(k < i)
    BY <1>1, <1>3, <1>4, <1>8, <2>2 DEF VersionsStacked, CommittedStacked, Committed
  <2> QED
    BY <2>1, <2>3
<1>11. PICK m : m = Place(area, i)
  OBVIOUS
<1>12. {n \in CurrentVersions(areas, y) :
          areas[n].competentAuthority = areas[m].competentAuthority} = CurrentVersions(areas, y)
  BY <1>9, <1>10, <1>11
<1>13. m \in Serial!OwnAreaById(x, y)
  <2>1. Serial!OwnerOf(m) = x
    BY <1>3, <1>7, <1>8, <1>11, ClosedOwner
  <2> QED
    BY <1>2, <1>9, <1>11, <2>1, SerialOperators DEF Serial!OwnAreaById
<1>14. PICK ids : ids = {n \in CurrentVersions(areas, y) :
                           areas[n].competentAuthority = areas[m].competentAuthority}
  OBVIOUS
<1>15. ids = {n \in Serial!CurrentVersions(areas, y) :
                areas[n].competentAuthority = areas[m].competentAuthority}
  BY <1>14, SerialOperators
<1>16. CommittedAreas' = Serial!EndVersions(areas, ids, t)
  BY <1>6, <1>12, <1>14, SerialOperators
<1>17. CommittedAreas' =
         Serial!EndVersions(CommittedAreas,
           {n \in Serial!CurrentVersions(CommittedAreas, y) :
              CommittedAreas[n].competentAuthority = CommittedAreas[m].competentAuthority},
           SerialNow')
  BY <1>1, <1>2, <1>15, <1>16
<1>18. finished'.reply = Serial!AreaReply(204, y)
  BY <1>1, <1>2 DEF Serial!AreaReply, Answer
<1>19. Serial!DeleteArea(x, y)
  BY <1>1, <1>5, <1>13, <1>17, <1>18 DEF Serial!DeleteArea
<1> QED
  BY <1>2, <1>4, <1>19 DEF SerialStep, Kind, Ca

\* Ending an authority, and an activity request.
LEMMA OtherCommitted ==
  ASSUME AreaTransactionsInv, Typed', NEW w \in Workers, OnlyServed(w), Commit(w),
         Amounts(w, txn[w].pc, txn[w].status), Kind(w) \in {"end authority", "report"}
  PROVE  SerialStep(txn[w].request)
<1>1. /\ IsCommitted(w) /\ txn[w].pc = "answered" /\ Amounts(w, "answered", txn[w].status)
      /\ Serial!Begin /\ SerialNow' = txn[w].time
      /\ finished'.reply = NoReply
      /\ overlapped = {}
  BY CommitSerially DEF OnlyServed
<1>2. /\ Typed /\ competentAuthority \in Seq(AuthorityRow)
      /\ ClosesUp(competentAuthority, CommittedAuthorities)
      /\ CommittedAuthorities = [n \in Places(competentAuthority) |-> CommittedAuthorities[n]]
      /\ CommittedAreas = [n \in Places(area) |-> CommittedAreas[n]]
  BY ClosedTables DEF AreaTransactionsInv, Typed
<1>3. CommittedAreas' = CommittedAreas
  <2>1. CommittedAreas' = EndVersions(CommittedAreas, EndedAreas(w), txn[w].time)
    BY <1>1, AreasCommitted
  <2>2. EndedAreas(w) = {}
    BY DEF EndedAreas
  <2> QED
    BY <1>2, <2>1, <2>2, EndsNone
<1>4. CommittedAuthorities' =
        EndVersions(CommittedAuthorities, EndedAuthorities(w), txn[w].time)
  BY <1>1, AuthoritiesCommitted
<1>5. finished'.reply = Serial!NoAreaReply
  BY <1>1 DEF NoReply, Serial!NoAreaReply
<1>6. CASE Kind(w) = "report"
  <2>1. EndedAuthorities(w) = {}
    BY <1>6 DEF EndedAuthorities
  <2>2. CommittedAuthorities' = CommittedAuthorities
    BY <1>2, <1>4, <2>1, EndsNone
  <2>3. Serial!OtherTransaction
    BY <1>1, <1>3, <1>5, <2>2 DEF Serial!OtherTransaction
  <2> QED
    BY <1>6, <2>3 DEF SerialStep, Kind
<1>7. CASE Kind(w) = "end authority"
  <2>1. EndedAuthorities(w) = CurrentVersions(CommittedAuthorities, Ca(w))
    BY <1>7 DEF EndedAuthorities
  <2>2. CurrentVersions(CommittedAuthorities, Ca(w)) # {}
    BY <1>1, <1>2, <1>7, ClosedUse DEF Amounts, WritesAll
  <2>3. Serial!DeactivateCompetentAuthority(Ca(w))
    BY <1>1, <1>3, <1>4, <1>5, <2>1, <2>2, SerialOperators DEF Serial!DeactivateCompetentAuthority
  <2> QED
    BY <1>7, <2>3 DEF SerialStep, Kind, Ca
<1> QED
  BY <1>6, <1>7

-----------------------------------------------------------------------------
(***************************************************************************)
(* Every step                                                              *)
(***************************************************************************)

\* The ways in which a statement refuses the request.
Ambiguity(w) ==
  \/ /\ txn[w].pc = "find authority"
     /\ Cardinality(CurrentTo(w, competentAuthority, txn[w].request.ca)) > 1
  \/ /\ txn[w].pc \in {"find area", "find own area"}
     /\ \E S \in SUBSET CurrentTo(w, area, txn[w].request.areaId) : Cardinality(S) > 1

PostRefusal(w) ==
  /\ \/ /\ txn[w].pc = "any authority"
        /\ VisibleTo(w, competentAuthority, txn[w].request.ca) # {}
     \/ txn[w].pc = "any area" /\ AnyVersion(w) # {}
  /\ Refuse(w, 422)

DeleteRefusal(w) ==
  /\ txn[w].pc = "find own area"
  /\ {i \in CurrentTo(w, area, txn[w].request.areaId) :
        competentAuthority[area[i].competentAuthority].fid = txn[w].request.ca} = {}
  /\ Refuse(w, 404)

\* A statement goes on, commits, is rolled back without an answer, or refuses.
LEMMA StatementEnds ==
  ASSUME NEW w, Step(w) \/ Crash(w)
  PROVE  /\ Started(w)
         /\ \/ finished' = finished /\ txn[w].pc # "answered"
            \/ Commit(w)
            \/ RollBack(w, NoReply)
            \/ Ambiguity(w) \/ PostRefusal(w) \/ DeleteRefusal(w)
<1>1. CASE FindAuthority(w)
  BY <1>1 DEF FindAuthority, Started, Ambiguity
<1>2. CASE AnyAuthority(w)
  BY <1>2 DEF AnyAuthority, InsertAuthority, Started, PostRefusal
<1>3. CASE EndAuthority(w)
  BY <1>3 DEF EndAuthority, Started
<1>4. CASE LockAuthority(w)
  BY <1>4 DEF LockAuthority, InsertAuthority, Started
<1>5. CASE FindArea(w)
  BY <1>5 DEF FindArea, Started, Ambiguity
<1>6. CASE AnyArea(w)
  BY <1>6 DEF AnyArea, Started, PostRefusal
<1>7. CASE FindOwnArea(w)
  <2> DEFINE found == {i \in CurrentTo(w, area, txn[w].request.areaId) :
                         competentAuthority[area[i].competentAuthority].fid = txn[w].request.ca}
  <2>1. /\ txn[w].pc = "find own area"
        /\ \/ found = {} /\ Refuse(w, 404)
           \/ Cardinality(found) > 1
           \/ finished' = finished
    BY <1>7 DEF FindOwnArea
  <2>2. found \in SUBSET CurrentTo(w, area, txn[w].request.areaId)
    OBVIOUS
  <2>3. CASE found = {} /\ Refuse(w, 404)
    BY <2>1, <2>3 DEF DeleteRefusal, Started
  <2> HIDE DEF found
  <2> QED
    BY <2>1, <2>2, <2>3 DEF Ambiguity, Started
<1>8. CASE EndArea(w)
  BY <1>8 DEF EndArea, Started
<1>9. CASE LockArea(w)
  BY <1>9 DEF LockArea, Started
<1>10. CASE InsertArea(w) \/ Report(w)
  BY <1>10 DEF InsertArea, Report, Started
<1>11. CASE FindReportedArea(w)
  BY <1>11 DEF FindReportedArea, Started
<1>12. CASE Commit(w)
  BY <1>12 DEF Commit, Started
<1>13. CASE Crash(w)
  BY <1>13 DEF Crash, Started
<1> QED
  BY <1>1, <1>2, <1>3, <1>4, <1>5, <1>6, <1>7, <1>8, <1>9, <1>10, <1>11, <1>12, <1>13 DEF Step

\* A request that is served alone amounts to its one step of AreaService.
LEMMA SerialSteps ==
  ASSUME AreaTransactionsInv, Typed', Serially, Next,
         \A w \in Workers : txn[w].alone, overlapped = {}
  PROVE  \/ UNCHANGED <<CommittedAuthorities, CommittedAreas, finished>>
         \/ \E w \in Workers : txn[w].pc # "idle" /\ SerialStep(txn[w].request)
         \/ Serial!OtherTransaction
<1>1. PICK w \in Workers : StepBy(w) /\ StepsWell(w)
  BY NextStepsWell
<1>2. Typed /\ Moves(w)
  BY <1>1 DEF AreaTransactionsInv, StepsWell
<1>3. ASSUME txn[w].pc # "answered"
      PROVE  CommittedAuthorities' = CommittedAuthorities /\ CommittedAreas' = CommittedAreas
  <2>1. Unseen(competentAuthority, competentAuthority') /\ Unseen(area, area')
    BY <1>2, <1>3 DEF Moves, IsCommitted
  <2> QED
    BY <1>2, <2>1, NothingSeen
<1>4. ASSUME NEW request \in Requests, Start(w, request)
      PROVE  UNCHANGED <<CommittedAuthorities, CommittedAreas, finished>>
  <2>1. txn[w].pc = "idle" /\ finished' = finished
    BY <1>4 DEF Start, Begin
  <2> QED
    BY <1>3, <2>1
<1>5. CASE Step(w) \/ Crash(w)
  <2>1. /\ Started(w)
        /\ \/ finished' = finished /\ txn[w].pc # "answered"
           \/ Commit(w)
           \/ RollBack(w, NoReply)
           \/ Ambiguity(w) \/ PostRefusal(w) \/ DeleteRefusal(w)
    BY <1>5, StatementEnds
  <2>2. OnlyServed(w) /\ txn[w].pc # "idle"
    BY <2>1 DEF Serially, AloneIsAlone, OnlyServed, Started
  <2>3. Amounts(w, txn[w].pc, txn[w].status)
    BY <2>1 DEF Serially, ServedAlone
  <2>4. ~Ambiguity(w)
    BY <2>2, NeverAmbiguous DEF Ambiguity
  <2>5. CASE finished' = finished /\ txn[w].pc # "answered"
    BY <1>3, <2>5
  <2>6. CASE RollBack(w, NoReply)
    <3>1. PICK reply : reply = NoReply
      OBVIOUS
    <3>2. RollBack(w, reply)
      BY <2>6, <3>1
    <3>3. /\ Serial!Begin /\ finished'.reply = reply
          /\ CommittedAuthorities' = CommittedAuthorities /\ CommittedAreas' = CommittedAreas
      BY <1>2, <2>2, <3>2, RollBackSerially
    <3> QED
      BY <3>1, <3>3 DEF Serial!OtherTransaction, Serial!NoAreaReply, NoReply
  <2>7. CASE PostRefusal(w)
    <3>1. Kind(w) = "post"
      BY <1>2, <2>1, <2>7, NextStatement DEF PostRefusal
    <3>2. SerialStep(txn[w].request)
      BY <2>2, <2>7, <3>1, PostRefused DEF PostRefusal
    <3> QED
      BY <2>2, <3>2
  <2>8. CASE DeleteRefusal(w)
    <3>1. SerialStep(txn[w].request)
      BY <2>2, <2>8, DeleteRefused DEF DeleteRefusal
    <3> QED
      BY <2>2, <3>1
  <2>9. CASE Commit(w)
    <3>1. Kind(w) \in {"post", "delete", "report", "end authority"}
      BY <1>2, <2>1, WorkerTypes, RequestTypes DEF Kind
    <3>2. SerialStep(txn[w].request)
      BY <2>2, <2>3, <2>9, <3>1, PostCommitted, DeleteCommitted, OtherCommitted
    <3> QED
      BY <2>2, <3>2
  <2> QED
    BY <2>1, <2>4, <2>5, <2>6, <2>7, <2>8, <2>9
<1> QED
  BY <1>1, <1>4, <1>5 DEF StepBy

\* Requests that are served alone are served as the serial specification serves
\* them, for any number of workers, authorities and areas.
THEOREM AreaRequestsAreSerial == Spec => ImplementsAreaService
<1> DEFINE Inv == AreaTransactionsInv /\ Serially
           Effect == (\A w \in Workers : txn[w].alone /\ overlapped = {})
                       => \/ \E w \in Workers : txn[w].pc # "idle" /\ SerialStep(txn[w].request)
                          \/ Serial!OtherTransaction
<1>1. Init => Inv
  BY AreaTransactionsInit, SeriallyInit
<1>2. Inv /\ [Next]_vars => Inv'
  BY AreaTransactionsStep, AreaTransactionsStutter, SeriallyStep, SeriallyStutter
<1>3. Init => Serial!AreaInit
  BY SerialInit
<1>4. Inv /\ Inv' /\ [Next]_vars => [Effect]_<<CommittedAuthorities, CommittedAreas, finished>>
  <2> SUFFICES ASSUME Inv, Inv', [Next]_vars
               PROVE  [Effect]_<<CommittedAuthorities, CommittedAreas, finished>>
    OBVIOUS
  <2>1. CASE UNCHANGED vars
    <3>1. UNCHANGED <<competentAuthority, area, finished>>
      BY <2>1 DEF vars, tables
    <3>2. CommittedAuthorities' = CommittedAuthorities
      BY <3>1 DEF CommittedAuthorities
    <3>3. CommittedAreas' = CommittedAreas
      BY <3>1 DEF CommittedAreas, AsArea
    <3> QED
      BY <3>1, <3>2, <3>3
  <2>2. CASE Next
    <3> SUFFICES ASSUME \A w \in Workers : txn[w].alone /\ overlapped = {},
                        ~UNCHANGED <<CommittedAuthorities, CommittedAreas, finished>>
                 PROVE  \/ \E w \in Workers : txn[w].pc # "idle" /\ SerialStep(txn[w].request)
                        \/ Serial!OtherTransaction
      OBVIOUS
    <3>1. overlapped = {} /\ \A w \in Workers : txn[w].alone
      BY <2>2 DEF Next
    <3>2. Typed'
      BY DEF AreaTransactionsInv
    <3> QED
      BY <2>2, <3>1, <3>2, SerialSteps
  <2> QED
    BY <2>1, <2>2
<1> QED
  BY <1>1, <1>2, <1>3, <1>4, PTL DEF Spec, ImplementsAreaService

=============================================================================
