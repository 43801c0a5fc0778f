--------------------------- MODULE AreaTransactions ---------------------------
(***************************************************************************)
(* The area requests of SDEP statement by statement (services/area.py on   *)
(* crud/area.py and crud/competent_authority.py), as SdepTransactions has  *)
(* the activity requests: a worker is a request being served in its own    *)
(* READ COMMITTED transaction, one step is one SQL statement.              *)
(*                                                                         *)
(* Of an activity request only what concerns areas is here: it looks up    *)
(* the current version of its area first and stores that technical id in   *)
(* its last statement (kind "report").                                     *)
(***************************************************************************)
EXTENDS ReadCommitted

CONSTANTS
  Workers,               \* requests served at the same time
  CompetentAuthorities,  \* functional ids of authorities (token claim client_id)
  AreaIds,               \* functional ids of areas
  NoId,                  \* a request that leaves the area id out
  MaxTime,               \* bound: the number of transactions of a behaviour
  Crashes                \* may a connection be lost in the middle of a request?

ASSUME AreaTransactionConstantsAssumption ==
  /\ NoId \notin AreaIds \cup CompetentAuthorities
  /\ Workers \cap {"committed", "aborted", "nobody"} = {}
  /\ MaxTime \in Nat
  /\ AreaIds \cap (1..MaxTime) = {}  \* a generated id is none of those in use
  /\ NoId \notin 1..MaxTime
  /\ Crashes \in BOOLEAN

VARIABLES
  competentAuthority,  \* tables of rows as in ReadCommitted
  area,
  activity,            \* of an activity: its area, and the columns of ReadCommitted
  now,                 \* the timestamp of the latest transaction that started
  txn,                 \* what each worker is doing
  finished,            \* the latest transaction that ended: its timestamp and reply
  overlapped           \* history: the authorities and areas that two requests
                       \* named which were served at once

tables == <<competentAuthority, area, activity>>
vars == <<tables, now, txn, finished, overlapped>>

Requests ==
  [kind: {"post"}, ca: CompetentAuthorities, areaId: AreaIds \cup {NoId}]
    \cup [kind: {"delete"}, ca: CompetentAuthorities, areaId: AreaIds]
    \cup [kind: {"report"}, ca: {NoId}, areaId: AreaIds]
    \cup [kind: {"end authority"}, ca: CompetentAuthorities, areaId: {NoId}]

\* owner: the technical id of the authority in the WHERE of UPDATE area;
\* targets: rows found by the running UPDATE and not yet locked; version: the
\* authority of the new area, or the area of the new activity; alone
\* (history): no other request has been served since this one started.
Idle ==
  [pc |-> "idle", alone |-> TRUE, request |-> <<>>, time |-> 0,
   owner |-> 0, targets |-> {}, version |-> 0, status |-> 0]

NoReply == [status |-> 0, fid |-> NoId]

-----------------------------------------------------------------------------
(***************************************************************************)
(* The beginning and the end of a transaction                              *)
(***************************************************************************)

\* The worker goes on with statement pc.
Continue(w, pc) == txn' = [txn EXCEPT ![w].pc = pc]

Busy(w) == {v \in Workers \ {w} : txn[v].pc # "idle"}

\* The ids a request is about.
Named(request) == {request.ca, request.areaId} \ {NoId}

\* The transaction starts with its first statement.
Begin(w, request, pc) ==
  /\ txn[w].pc = "idle"
  /\ now < MaxTime
  /\ now' = now + 1
  /\ txn' = [v \in Workers |->
               IF v = w THEN [Idle EXCEPT !.pc = pc, !.request = request, !.time = now',
                                          !.alone = Busy(w) = {}]
                        ELSE [txn[v] EXCEPT !.alone = @ /\ v \notin Busy(w)]]
  /\ overlapped' = overlapped
       \cup (Named(request) \cap UNION {Named(txn[v].request) : v \in Busy(w)})
  /\ UNCHANGED <<tables, finished>>

Start(w, request) ==
  \/ request.kind = "post" /\ Begin(w, request, "find authority")
  \/ request.kind = "delete" /\ Begin(w, request, "find own area")
  \/ request.kind = "report" /\ Begin(w, request, "find reported area")
  \/ /\ request.kind = "end authority"
     /\ CurrentTo(w, competentAuthority, request.ca) # {}
     /\ Begin(w, request, "end authority")

\* The area the answer is about: its id, given or generated.  A UUID4 is as
\* unique as the timestamp of the transaction.
AreaIdOf(w) ==
  IF txn[w].request.areaId = NoId THEN txn[w].time ELSE txn[w].request.areaId

\* Wrong: what was flushed before the exception is committed.
Bug_FlushedStays(w, reply) ==
  /\ competentAuthority' = AllCommitted(competentAuthority, w, txn[w].time)
  /\ area' = AllCommitted(area, w, txn[w].time)
  /\ activity' = AllCommitted(activity, w, txn[w].time)
  /\ txn' = [txn EXCEPT ![w] = Idle]
  /\ finished' = [time |-> txn[w].time, reply |-> reply]
  /\ UNCHANGED <<now, overlapped>>

\* An exception leaves the session block of get_async_db, or the connection is
\* lost: everything is rolled back.
RollBack(w, reply) ==
  /\ competentAuthority' = AllRolledBack(competentAuthority, w)
  /\ area' = AllRolledBack(area, w)
  /\ activity' = AllRolledBack(activity, w)
  /\ txn' = [txn EXCEPT ![w] = Idle]
  /\ finished' = [time |-> txn[w].time, reply |-> reply]
  /\ UNCHANGED <<now, overlapped>>

Refuse(w, status) ==
  RollBack(w, [status |-> status, fid |-> txn[w].request.areaId])

\* The reply of a request that changed something: an activity and an end set
\* outside the API have none on the area side.
Commit(w) ==
  /\ txn[w].pc = "answered"
  /\ competentAuthority' = AllCommitted(competentAuthority, w, txn[w].time)
  /\ area' = AllCommitted(area, w, txn[w].time)
  /\ activity' = AllCommitted(activity, w, txn[w].time)
  /\ txn' = [txn EXCEPT ![w] = Idle]
  /\ finished' = [time |-> txn[w].time,
                  reply |-> IF txn[w].status = 0 THEN NoReply
                              ELSE [status |-> txn[w].status, fid |-> AreaIdOf(w)]]
  /\ UNCHANGED <<now, overlapped>>

Crash(w) ==
  /\ Crashes
  /\ txn[w].pc # "idle"
  /\ RollBack(w, NoReply)

-----------------------------------------------------------------------------
(***************************************************************************)
(* POST /ca/areas: the authority                                           *)
(***************************************************************************)

FindAuthority(w) ==
  LET found == CurrentTo(w, competentAuthority, txn[w].request.ca)
  IN  /\ txn[w].pc = "find authority"
      /\ \/ Cardinality(found) > 1 /\ Refuse(w, 500)
         \/ /\ Cardinality(found) <= 1
            /\ Continue(w, IF found = {} THEN "any authority" ELSE "end authority")
            /\ UNCHANGED <<tables, now, finished, overlapped>>

InsertAuthority(w) ==
  /\ competentAuthority' = Append(competentAuthority,
       [fid |-> txn[w].request.ca, createdAt |-> txn[w].time,
        endedAt |-> NotEnded, by |-> w, endedBy |-> "nobody"])
  /\ txn' = [txn EXCEPT ![w].pc = IF txn[w].request.areaId = NoId THEN "insert" ELSE "find area",
                         ![w].version = Len(competentAuthority) + 1]
  /\ UNCHANGED <<area, activity, now, finished, overlapped>>

AnyAuthority(w) ==
  /\ txn[w].pc = "any authority"
  /\ \/ VisibleTo(w, competentAuthority, txn[w].request.ca) # {} /\ Refuse(w, 422)
     \/ VisibleTo(w, competentAuthority, txn[w].request.ca) = {} /\ InsertAuthority(w)

\* Wrong: the UPDATE finds nothing.
Bug_NoAuthorityTargets(w) == {}
AuthorityTargets(w) == CurrentTo(w, competentAuthority, txn[w].request.ca)

EndAuthority(w) ==
  /\ txn[w].pc = "end authority"
  /\ txn' = [txn EXCEPT ![w].pc = "lock authority", ![w].targets = AuthorityTargets(w)]
  /\ UNCHANGED <<tables, now, finished, overlapped>>

\* The row an UPDATE locks next.  That it takes them in the order of the table
\* is an assumption (no ORDER BY in the statement), and matters only where an
\* UPDATE finds several rows: after requests of one id have overlapped.
NextTarget(w) == {i \in txn[w].targets : \A j \in txn[w].targets : i <= j}

LockAuthority(w) ==
  /\ txn[w].pc = "lock authority"
  /\ \/ \E i \in NextTarget(w) :
          /\ Unlocked(competentAuthority[i], w)
          /\ competentAuthority' = [competentAuthority EXCEPT ![i] = EndedRow(@, w, txn[w].time)]
          /\ txn' = [txn EXCEPT ![w].targets = @ \ {i}]
          /\ UNCHANGED <<area, activity, now, finished, overlapped>>
     \/ /\ txn[w].targets = {} /\ txn[w].request.kind = "post"
        /\ InsertAuthority(w)
     \/ /\ txn[w].targets = {} /\ txn[w].request.kind = "end authority"
        /\ Continue(w, "answered")
        /\ UNCHANGED <<tables, now, finished, overlapped>>

-----------------------------------------------------------------------------
(***************************************************************************)
(* The area                                                                *)
(***************************************************************************)

\* get_by_area_id, whoever owns the area.
FindArea(w) ==
  LET found == CurrentTo(w, area, txn[w].request.areaId)
  IN  /\ txn[w].pc = "find area"
      /\ \/ Cardinality(found) > 1 /\ Refuse(w, 500)
         \/ /\ Cardinality(found) <= 1
            /\ \/ found = {} /\ Continue(w, "any area")
               \/ \E i \in found :
                    txn' = [txn EXCEPT ![w].pc = "end area",
                                       ![w].owner = area[i].competentAuthority]
            /\ UNCHANGED <<tables, now, finished, overlapped>>

\* exists_any_by_area_id; wrong: the guard is left out.
Bug_Revived(w) == {}
AnyVersion(w) == VisibleTo(w, area, txn[w].request.areaId)

AnyArea(w) ==
  /\ txn[w].pc = "any area"
  /\ \/ AnyVersion(w) # {} /\ Refuse(w, 422)
     \/ /\ AnyVersion(w) = {}
        /\ Continue(w, "insert")
        /\ UNCHANGED <<tables, now, finished, overlapped>>

\* get_by_area_id_and_competent_authority_id_str of DELETE /ca/areas/{id}.
FindOwnArea(w) ==
  LET found == {i \in CurrentTo(w, area, txn[w].request.areaId) :
                  competentAuthority[area[i].competentAuthority].fid = txn[w].request.ca}
  IN  /\ txn[w].pc = "find own area"
      /\ \/ found = {} /\ Refuse(w, 404)
         \/ Cardinality(found) > 1 /\ Refuse(w, 500)
         \/ /\ Cardinality(found) = 1
            /\ \E i \in found :
                 txn' = [txn EXCEPT ![w].pc = "end area",
                                    ![w].owner = area[i].competentAuthority]
            /\ UNCHANGED <<tables, now, finished, overlapped>>

\* crud/area.mark_as_ended, by functional id and version of the owner.
AreaTargets(w) ==
  {i \in CurrentTo(w, area, txn[w].request.areaId) :
     area[i].competentAuthority = txn[w].owner}

EndArea(w) ==
  /\ txn[w].pc = "end area"
  /\ txn' = [txn EXCEPT ![w].pc = "lock area", ![w].targets = AreaTargets(w)]
  /\ UNCHANGED <<tables, now, finished, overlapped>>

LockArea(w) ==
  /\ txn[w].pc = "lock area"
  /\ \/ \E i \in NextTarget(w) :
          /\ Unlocked(area[i], w)
          /\ area' = [area EXCEPT ![i] = EndedRow(@, w, txn[w].time)]
          /\ txn' = [txn EXCEPT ![w].targets = @ \ {i}]
     \/ /\ txn[w].targets = {} /\ txn[w].request.kind = "post"
        /\ Continue(w, "insert")
        /\ UNCHANGED area
     \/ /\ txn[w].targets = {} /\ txn[w].request.kind = "delete"
        /\ txn' = [txn EXCEPT ![w].pc = "answered", ![w].status = 204]
        /\ UNCHANGED area
  /\ UNCHANGED <<competentAuthority, activity, now, finished, overlapped>>

\* The INSERT of the area, and the response that is built from it.
InsertArea(w) ==
  /\ txn[w].pc = "insert"
  /\ area' = Append(area,
       [fid |-> AreaIdOf(w), competentAuthority |-> txn[w].version,
        createdAt |-> txn[w].time, endedAt |-> NotEnded, by |-> w, endedBy |-> "nobody"])
  /\ txn' = [txn EXCEPT ![w].pc = "answered", ![w].status = 201]
  /\ UNCHANGED <<competentAuthority, activity, now, finished, overlapped>>

-----------------------------------------------------------------------------
(***************************************************************************)
(* POST /str/activities: its first and its last statement                  *)
(***************************************************************************)

FindReportedArea(w) ==
  LET found == CurrentTo(w, area, txn[w].request.areaId)
  IN  /\ txn[w].pc = "find reported area"
      /\ \/ found = {} /\ RollBack(w, NoReply)
         \/ Cardinality(found) > 1 /\ RollBack(w, NoReply)
         \/ /\ Cardinality(found) = 1
            /\ \E i \in found : txn' = [txn EXCEPT ![w].pc = "report", ![w].version = i]
            /\ UNCHANGED <<tables, now, finished, overlapped>>

Report(w) ==
  /\ txn[w].pc = "report"
  /\ activity' = Append(activity,
       [fid |-> txn[w].time, area |-> txn[w].version, createdAt |-> txn[w].time,
        endedAt |-> NotEnded, by |-> w, endedBy |-> "nobody"])
  /\ Continue(w, "answered")
  /\ UNCHANGED <<competentAuthority, area, now, finished, overlapped>>

-----------------------------------------------------------------------------

Init ==
  /\ competentAuthority = <<>> /\ area = <<>> /\ activity = <<>>
  /\ now = 0
  /\ txn = [w \in Workers |-> Idle]
  /\ finished = [time |-> 0, reply |-> NoReply]
  /\ overlapped = {}

\* The next statement of a worker that has started.
Step(w) ==
  \/ FindAuthority(w) \/ AnyAuthority(w) \/ EndAuthority(w) \/ LockAuthority(w)
  \/ FindArea(w) \/ AnyArea(w) \/ FindOwnArea(w) \/ EndArea(w) \/ LockArea(w)
  \/ InsertArea(w) \/ FindReportedArea(w) \/ Report(w)
  \/ Commit(w)

Next ==
  \E w \in Workers :
     \/ \E request \in Requests : Start(w, request)
     \/ Step(w)
     \/ Crash(w)

\* As in SdepTransactions: what has started goes on, unless it waits for a lock.
Fairness == \A w \in Workers : WF_vars(Step(w))

Spec == Init /\ [][Next]_vars /\ Fairness

-----------------------------------------------------------------------------
(***************************************************************************)
(* What is committed, and the serial specification of it                   *)
(***************************************************************************)

AsAuthority(row) == [fid |-> row.fid, createdAt |-> row.createdAt, endedAt |-> row.endedAt]

CommittedAuthorities ==
  [n \in Places(competentAuthority) |-> AsAuthority(RowAt(competentAuthority, n))]

AsArea(row) ==
  [fid |-> row.fid, competentAuthority |-> Place(competentAuthority, row.competentAuthority),
   createdAt |-> row.createdAt, endedAt |-> row.endedAt]

CommittedAreas == [n \in Places(area) |-> AsArea(RowAt(area, n))]

\* The clock of the serial specification stands still while a request is served.
SerialNow ==
  IF \E w \in Workers : txn[w].pc # "idle"
    THEN (CHOOSE t \in 1..MaxTime : \E w \in Workers : txn[w].pc # "idle" /\ txn[w].time = t) - 1
    ELSE finished.time

AllAreaIds == AreaIds \cup 1..MaxTime

Serial ==
  INSTANCE AreaService WITH
    AreaIds <- AllAreaIds,
    competentAuthority <- CommittedAuthorities,
    area <- CommittedAreas,
    now <- SerialNow,
    areaReply <- finished.reply

SerialStep(request) ==
  \/ request.kind = "post" /\ Serial!PostArea(request.ca, request.areaId)
  \/ request.kind = "delete" /\ Serial!DeleteArea(request.ca, request.areaId)
  \/ request.kind = "report" /\ Serial!OtherTransaction
  \/ request.kind = "end authority" /\ Serial!DeactivateCompetentAuthority(request.ca)

-----------------------------------------------------------------------------
(***************************************************************************)
(* Properties                                                              *)
(***************************************************************************)

\* A request that is served alone, in a history in which requests that name
\* the same authority or area have not overlapped, amounts to its one step of
\* AreaService; a request that was lost, to one that changes nothing.
ImplementsAreaService ==
  /\ Serial!AreaInit
  /\ [][(\A w \in Workers : txn[w].alone /\ overlapped = {})
         => \/ \E w \in Workers : txn[w].pc # "idle" /\ SerialStep(txn[w].request)
            \/ Serial!OtherTransaction]_<<CommittedAuthorities, CommittedAreas, finished>>

\* Requests that name different authorities and areas do not disturb each
\* other: the versions of both are stacked, however the statements interleave.
VersionsStacked ==
  /\ CommittedStacked(competentAuthority, CompetentAuthorities \ overlapped)
  /\ CommittedStacked(area, AllAreaIds \ overlapped)

\* A committed area or activity refers to a committed version, which was in
\* force at the time unless requests that name it overlapped.
ReferencesInForce ==
  /\ \A i \in Committed(area) :
        LET a == area[i].competentAuthority
        IN  /\ a \in Committed(competentAuthority)
            /\ \/ competentAuthority[a].fid \in overlapped
               \/ InForceAt(competentAuthority[a], area[i].createdAt)
  /\ \A i \in Committed(activity) :
        LET a == activity[i].area
        IN  /\ a \in Committed(area)
            /\ area[a].fid \in overlapped \/ InForceAt(area[a], activity[i].createdAt)

\* DELETE keeps its word: once it has committed the area has no current
\* version, and never gets one again, unless requests that name it overlapped.
DeletionHolds ==
  [][/\ \A w \in Workers :
          (/\ txn[w].pc = "answered" /\ txn[w].status = 204
           /\ txn'[w].pc = "idle" /\ finished'.reply.status = 204)
            => \/ txn[w].request.areaId \in overlapped
               \/ CommittedCurrent(area', txn[w].request.areaId) = {}
     /\ CommittedStaysEnded(area, area', AreaIds \ overlapped)
     /\ CommittedStaysEnded(competentAuthority, competentAuthority',
                            CompetentAuthorities \ overlapped)]_vars

\* Every request ends, also when it has to wait for the rows of another.
EveryRequestEnds == \A w \in Workers : txn[w].pc # "idle" ~> txn[w].pc = "idle"

\* What the 204 of DELETE says, without the condition on overlaps.
DeletedIsGone ==
  [][\A w \in Workers :
       (txn[w].pc = "answered" /\ txn[w].status = 204 /\ txn'[w].pc = "idle")
         => CommittedCurrent(area', txn[w].request.areaId) = {}]_vars

\* What the guards of create_area promise, without it.
NeverRevived ==
  [][CommittedStaysEnded(area, area', AreaIds)]_vars

\* An activity is reported under a version of an area in force, without it.
ReportedUnderAreaInForce ==
  \A i \in Committed(activity) : InForceAt(area[activity[i].area], activity[i].createdAt)
=============================================================================
