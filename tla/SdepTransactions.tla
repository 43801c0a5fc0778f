-------------------------- MODULE SdepTransactions --------------------------
(***************************************************************************)
(* The activity requests of SDEP statement by statement.                   *)
(*                                                                         *)
(* Uvicorn serves requests concurrently, each in a transaction of its own  *)
(* (db/config.py, get_async_db) at PostgreSQL's default isolation level,   *)
(* READ COMMITTED, without optimistic or explicit locks.  Here a worker is *)
(* a request being served, and one step is one SQL statement of            *)
(* services/activity.py or services/activity_bulk.py, with the meaning     *)
(* that ReadCommitted gives it.                                            *)
(*                                                                         *)
(* Areas are left out: every request names an area that stays current.     *)
(* Items of a batch are valid and distinct: what becomes of the others is  *)
(* decided without the database (ActivityService.Verdict).                 *)
(***************************************************************************)
EXTENDS ReadCommitted, Functions

CONSTANTS
  Workers,       \* requests served at the same time
  Platforms,     \* functional ids of platforms (token claim client_id)
  Names,         \* platform names (token claim client_name)
  ActivityIds,   \* functional ids of activities
  NoId,          \* a request that leaves the activity id out
  MaxBatch,      \* bound: items of a bulk request
  MaxTime,       \* bound: the number of transactions of a behaviour
  Crashes        \* may a connection be lost in the middle of a request?

ASSUME TransactionConstantsAssumption ==
  /\ NoId \notin ActivityIds
  /\ Workers \cap {"committed", "aborted", "nobody"} = {}
  /\ MaxBatch \in Nat /\ MaxTime \in Nat
  /\ Crashes \in BOOLEAN

VARIABLES
  platform,   \* tables of rows as in ReadCommitted
  activity,
  now,        \* the timestamp of the latest transaction that started
  txn,        \* what each worker is doing
  finished,   \* the latest transaction that ended: its timestamp and reply
  overlapped  \* history: platforms of which two requests were served at once

vars == <<platform, activity, now, txn, finished, overlapped>>

Writers == Workers \cup {"committed", "aborted"}

PlatformRow ==
  [fid: Platforms, name: Names, createdAt: 1..MaxTime, endedAt: 0..MaxTime,
   by: Writers, endedBy: Workers \cup {"nobody"}]

ActivityRow ==
  [fid: ActivityIds \cup 1..MaxTime, platform: Nat \ {0}, createdAt: 1..MaxTime, endedAt: 0..MaxTime,
   by: Writers, endedBy: Workers \cup {"nobody"}]

Batches ==
  {b \in UNION {[1..n -> ActivityIds] : n \in 1..MaxBatch} :
     \A i, j \in DOMAIN b : b[i] = b[j] => i = j}

\* The requests of a platform, and the two ways of ending a row for good that
\* only tests and administrators use.
Requests(p) ==
  [kind: {"post"}, platform: {p}, name: Names, ids: {<<x>> : x \in ActivityIds \cup {NoId}}]
    \cup [kind: {"bulk"}, platform: {p}, name: Names, ids: Batches]
    \cup [kind: {"end platform"}, platform: {p}, ids: {<<>>}]
    \cup [kind: {"end activity"}, platform: {p}, ids: {<<x>> : x \in ActivityIds}]

\* ending, owner: the activity ids and the platform version of the UPDATE;
\* targets: rows found by the running UPDATE and not yet locked; existing: the
\* ids of a batch that have been reported before; accepted: those that are not
\* deactivated; pid: the platform version to use; alone (history): no other
\* request has been served since this one started.
Idle ==
  [pc |-> "idle", alone |-> TRUE, request |-> <<>>, time |-> 0, pid |-> 0, owner |-> 0,
   ending |-> {}, targets |-> {}, existing |-> {}, accepted |-> <<>>, status |-> 0]

Statements ==
  {"idle", "find platform", "any platform", "end platform", "lock platform",
   "find activity", "any activity", "existing", "deactivated", "current",
   "end activity", "lock activity", "insert", "answered"}

Transaction ==
  [pc: Statements, alone: BOOLEAN, request: {<<>>} \cup UNION {Requests(p) : p \in Platforms},
   time: 0..MaxTime, pid: Nat, owner: Nat, ending: SUBSET ActivityIds, targets: SUBSET (Nat \ {0}),
   existing: SUBSET ActivityIds, accepted: Seq(ActivityIds \cup 1..MaxTime), status: {0, 200, 201, 422}]

NoReply == [status |-> 0, fids |-> <<>>, verdicts |-> <<>>]

-----------------------------------------------------------------------------
(***************************************************************************)
(* The rows of an UPDATE                                                   *)
(***************************************************************************)

\* What UPDATE platform and UPDATE activity find when the statement starts.
Bug_NoPlatformTargets(w) == {}
PlatformTargets(w) == CurrentTo(w, platform, txn[w].request.platform)

\* Wrong: all current activities of the version, whichever are reported.
Bug_AllOfVersion(w) ==
  {i \in UNION {CurrentTo(w, activity, x) : x \in ActivityIds} :
     activity[i].platform = txn[w].owner}
ActivityTargets(w) ==
  {i \in UNION {CurrentTo(w, activity, x) : x \in txn[w].ending} :
     activity[i].platform = txn[w].owner}

\* v waits for a row that w has locked.  An UPDATE meets its rows in any order:
\* neither the statements (no ORDER BY) nor PostgreSQL promise one.
Waits(v, w) ==
  /\ v # w
  /\ \/ txn[v].pc = "lock platform" /\ \E i \in txn[v].targets : platform[i].endedBy = w
     \/ txn[v].pc = "lock activity" /\ \E i \in txn[v].targets : activity[i].endedBy = w

\* w is one of a circle of workers, each of which waits for the next.
Deadlocked(w) ==
  \E S \in SUBSET Workers :
     /\ w \in S
     /\ \E next \in Bijection(S, S) : \A v \in S : Waits(v, next[v])

-----------------------------------------------------------------------------
(***************************************************************************)
(* The end of a transaction                                                *)
(***************************************************************************)

\* The response: the stored ids, and for a batch the ids that were refused.
ReplyOf(w) ==
  LET fids == IF txn[w].request.kind = "bulk" THEN txn[w].request.ids ELSE txn[w].accepted
  IN  [status |-> txn[w].status,
       fids |-> fids,
       verdicts |-> [i \in DOMAIN fids |-> IF fids[i] \in Range(txn[w].accepted)
                                             THEN "OK" ELSE "deactivated"]]

\* Wrong: the session block commits what was flushed before the exception.
Bug_FlushedStays(w, reply) ==
  /\ platform' = AllCommitted(platform, w, txn[w].time)
  /\ activity' = AllCommitted(activity, w, txn[w].time)
  /\ txn' = [txn EXCEPT ![w] = Idle]
  /\ finished' = [time |-> txn[w].time, reply |-> reply]
  /\ UNCHANGED <<now, overlapped>>

RollBack(w, reply) ==
  /\ platform' = AllRolledBack(platform, w)
  /\ activity' = AllRolledBack(activity, w)
  /\ txn' = [txn EXCEPT ![w] = Idle]
  /\ finished' = [time |-> txn[w].time, reply |-> reply]
  /\ UNCHANGED <<now, overlapped>>

\* An exception leaves the session block of get_async_db, then its handler
\* answers.
Refuse(w, status) == RollBack(w, [NoReply EXCEPT !.status = status])

\* PostgreSQL finds the circle after deadlock_timeout and fails one of its
\* statements.  asyncpg's DeadlockDetectedError is a DBAPIError but none of the
\* OperationalErrors that exceptions/handlers.py answers with 503.
DeadlockDetected(w) == Deadlocked(w) /\ Refuse(w, 500)

\* The code after the yield of get_async_db runs when the response has been
\* sent (FastAPI 0.118).
Commit(w) ==
  /\ txn[w].pc = "answered"
  /\ platform' = AllCommitted(platform, w, txn[w].time)
  /\ activity' = AllCommitted(activity, w, txn[w].time)
  /\ txn' = [txn EXCEPT ![w] = Idle]
  /\ finished' = [time |-> txn[w].time,
                  reply |-> IF txn[w].status = 0 THEN NoReply ELSE ReplyOf(w)]
  /\ UNCHANGED <<now, overlapped>>

\* The connection or the process is lost: PostgreSQL rolls back.
Crash(w) ==
  /\ Crashes
  /\ txn[w].pc # "idle"
  /\ RollBack(w, NoReply)

-----------------------------------------------------------------------------
(***************************************************************************)
(* Statements on the platform                                              *)
(***************************************************************************)

\* The worker goes on with statement pc.
Continue(w, pc) == txn' = [txn EXCEPT ![w].pc = pc]

\* History: w starts to serve a request of platform p.
Busy(w) == {v \in Workers \ {w} : txn[v].pc # "idle"}
Overlap(w, p) ==
  overlapped' = IF \E v \in Busy(w) : txn[v].request.platform = p THEN overlapped \cup {p}
                                                                 ELSE overlapped

\* The transaction starts with its first statement.
Begin(w, request, pc, ending, owner) ==
  /\ now' = now + 1
  /\ txn' = [v \in Workers |->
               IF v = w THEN [Idle EXCEPT !.pc = pc, !.request = request, !.time = now',
                                          !.ending = ending, !.owner = owner,
                                          !.alone = Busy(w) = {}]
                        ELSE [txn[v] EXCEPT !.alone = @ /\ v \notin Busy(w)]]
  /\ Overlap(w, request.platform)
  /\ UNCHANGED <<platform, activity, finished>>

Start(w, request) ==
  /\ txn[w].pc = "idle"
  /\ now < MaxTime
  /\ \/ /\ request.kind \in {"post", "bulk"}
        /\ Begin(w, request, "find platform", {}, 0)
     \/ /\ request.kind = "end platform"
        /\ CurrentTo(w, platform, request.platform) # {}
        /\ Begin(w, request, "end platform", {}, 0)
     \/ /\ request.kind = "end activity"
        /\ \E i \in CurrentTo(w, activity, request.ids[1]) :
             /\ platform[activity[i].platform].fid = request.platform
             /\ Begin(w, request, "end activity", {request.ids[1]}, activity[i].platform)

\* get_by_platform_id; the bulk flow reuses a version with the same name.
FindPlatform(w) ==
  LET found == CurrentTo(w, platform, txn[w].request.platform)
      Reusable(i) == txn[w].request.kind = "bulk" /\ platform[i].name = txn[w].request.name
  IN  /\ txn[w].pc = "find platform"
      /\ \/ Cardinality(found) > 1 /\ Refuse(w, 500)
         \/ /\ Cardinality(found) <= 1
            /\ \/ found = {} /\ Continue(w, "any platform")
               \/ \E i \in found :
                    IF Reusable(i)
                      THEN txn' = [txn EXCEPT ![w].pc = "existing", ![w].pid = i]
                      ELSE Continue(w, "end platform")
            /\ UNCHANGED <<platform, activity, now, finished, overlapped>>

\* The statement that follows the platform of a request.
AfterPlatform(request) ==
  CASE request.kind = "bulk" -> "existing"
    [] request.kind = "post" -> IF request.ids[1] = NoId THEN "insert" ELSE "find activity"

InsertPlatform(w) ==
  /\ platform' = Append(platform,
       [fid |-> txn[w].request.platform, name |-> txn[w].request.name,
        createdAt |-> txn[w].time, endedAt |-> NotEnded, by |-> w, endedBy |-> "nobody"])
  /\ txn' = [txn EXCEPT ![w].pc = AfterPlatform(txn[w].request),
                         ![w].pid = Len(platform) + 1]
  /\ UNCHANGED <<activity, now, finished, overlapped>>

\* exists_any_by_platform_id, a statement after the one that found nothing.
AnyPlatform(w) ==
  /\ txn[w].pc = "any platform"
  /\ IF VisibleTo(w, platform, txn[w].request.platform) # {}
       THEN Refuse(w, 422)
       ELSE InsertPlatform(w)

EndPlatform(w) ==
  /\ txn[w].pc = "end platform"
  /\ txn' = [txn EXCEPT ![w].pc = "lock platform", ![w].targets = PlatformTargets(w)]
  /\ UNCHANGED <<platform, activity, now, finished, overlapped>>

LockPlatform(w) ==
  /\ txn[w].pc = "lock platform"
  /\ \/ \E i \in txn[w].targets :
          /\ Unlocked(platform[i], w)
          /\ platform' = [platform EXCEPT ![i] = EndedRow(@, w, txn[w].time)]
          /\ txn' = [txn EXCEPT ![w].targets = @ \ {i}]
          /\ UNCHANGED <<activity, now, finished, overlapped>>
     \/ /\ txn[w].targets = {}
        /\ IF txn[w].request.kind = "end platform"
             THEN /\ Continue(w, "answered")
                  /\ UNCHANGED <<platform, activity, now, finished, overlapped>>
             ELSE InsertPlatform(w)

-----------------------------------------------------------------------------
(***************************************************************************)
(* Statements on the activities                                            *)
(***************************************************************************)

\* get_by_activity_id of the single flow.
FindActivity(w) ==
  LET x == txn[w].request.ids[1]
      found == CurrentTo(w, activity, x)
  IN  /\ txn[w].pc = "find activity"
      /\ \/ Cardinality(found) > 1 /\ Refuse(w, 500)
         \/ /\ Cardinality(found) <= 1
            /\ \/ found = {} /\ Continue(w, "any activity")
               \/ \E i \in found :
                    txn' = [txn EXCEPT ![w].pc = "end activity", ![w].ending = {x},
                                       ![w].owner = activity[i].platform]
            /\ UNCHANGED <<platform, activity, now, finished, overlapped>>

AnyActivity(w) ==
  /\ txn[w].pc = "any activity"
  /\ IF VisibleTo(w, activity, txn[w].request.ids[1]) # {}
       THEN Refuse(w, 422)
       ELSE /\ Continue(w, "insert")
            /\ UNCHANGED <<platform, activity, now, finished, overlapped>>

\* get_deactivated_activity_ids of the bulk flow, two statements: the ids that
\* have a row, and those of them that have a current one.
FindExisting(w) ==
  /\ txn[w].pc = "existing"
  /\ txn' = [txn EXCEPT ![w].pc = "deactivated",
                         ![w].existing = {x \in Range(txn[w].request.ids) :
                                            VisibleTo(w, activity, x) # {}}]
  /\ UNCHANGED <<platform, activity, now, finished, overlapped>>

FindDeactivated(w) ==
  LET ids == txn[w].request.ids
      Gone(x) == x \in txn[w].existing /\ CurrentTo(w, activity, x) = {}
  IN  /\ txn[w].pc = "deactivated"
      /\ \E order \in InOrder({n \in DOMAIN ids : ~Gone(ids[n])}) :
           txn' = [txn EXCEPT ![w].pc = "current", ![w].existing = {},
                              ![w].accepted = [n \in DOMAIN order |-> ids[order[n]]]]
      /\ UNCHANGED <<platform, activity, now, finished, overlapped>>

\* get_current_by_activity_ids: what is to be ended under this platform version.
FindCurrent(w) ==
  LET ending == {x \in Range(txn[w].accepted) :
                   \E i \in CurrentTo(w, activity, x) : activity[i].platform = txn[w].pid}
  IN  /\ txn[w].pc = "current"
      /\ txn' = [txn EXCEPT ![w].pc = IF ending = {} THEN "insert" ELSE "end activity",
                             ![w].ending = ending, ![w].owner = txn[w].pid]
      /\ UNCHANGED <<platform, activity, now, finished, overlapped>>

EndActivity(w) ==
  /\ txn[w].pc = "end activity"
  /\ txn' = [txn EXCEPT ![w].pc = "lock activity", ![w].targets = ActivityTargets(w)]
  /\ UNCHANGED <<platform, activity, now, finished, overlapped>>

LockActivity(w) ==
  /\ txn[w].pc = "lock activity"
  /\ \/ \E i \in txn[w].targets :
          /\ Unlocked(activity[i], w)
          /\ activity' = [activity EXCEPT ![i] = EndedRow(@, w, txn[w].time)]
          /\ txn' = [txn EXCEPT ![w].targets = @ \ {i}]
     \/ /\ txn[w].targets = {}
        /\ Continue(w, IF txn[w].request.kind = "end activity" THEN "answered" ELSE "insert")
        /\ UNCHANGED activity
  /\ UNCHANGED <<platform, now, finished, overlapped>>

\* The ids the INSERT of a worker stores.  A UUID4 is as unique as the
\* timestamp of the transaction.
InsertedIds(w) ==
  CASE txn[w].request.kind = "bulk" -> txn[w].accepted
    [] txn[w].request.kind = "post" -> IF txn[w].request.ids[1] = NoId THEN <<txn[w].time>>
                                                                       ELSE txn[w].request.ids

\* The INSERT, and the response that is built from it and sent.
InsertAndAnswer(w) ==
  /\ txn[w].pc = "insert"
  /\ activity' = activity \o
       [n \in DOMAIN InsertedIds(w) |->
          [fid |-> InsertedIds(w)[n], platform |-> txn[w].pid, createdAt |-> txn[w].time,
           endedAt |-> NotEnded, by |-> w, endedBy |-> "nobody"]]
  /\ LET ids == InsertedIds(w)
         all == Len(ids) = Len(txn[w].request.ids)
     IN  txn' = [txn EXCEPT ![w].pc = "answered",
                            ![w].accepted = ids,
                            ![w].status = IF all THEN 201
                                          ELSE IF ids # <<>> THEN 200 ELSE 422]
  /\ UNCHANGED <<platform, now, finished, overlapped>>

-----------------------------------------------------------------------------

Init ==
  /\ platform = <<>>
  /\ activity = <<>>
  /\ now = 0
  /\ txn = [w \in Workers |-> Idle]
  /\ finished = [time |-> 0, reply |-> NoReply]
  /\ overlapped = {}

\* The next statement of a worker that has started.
Step(w) ==
  \/ FindPlatform(w) \/ AnyPlatform(w) \/ EndPlatform(w) \/ LockPlatform(w)
  \/ FindActivity(w) \/ AnyActivity(w)
  \/ FindExisting(w) \/ FindDeactivated(w) \/ FindCurrent(w)
  \/ EndActivity(w) \/ LockActivity(w) \/ InsertAndAnswer(w)
  \/ Commit(w) \/ DeadlockDetected(w)

Next ==
  \E w \in Workers :
     \/ \E p \in Platforms : \E request \in Requests(p) : Start(w, request)
     \/ Step(w)
     \/ Crash(w)

\* The event loop resumes every request and PostgreSQL executes every
\* statement that is not waiting for a lock, and looks for deadlocks.  No
\* request has to be made.
Fairness == \A w \in Workers : WF_vars(Step(w))

Spec == Init /\ [][Next]_vars /\ Fairness

-----------------------------------------------------------------------------
(***************************************************************************)
(* What the other requests and the authorities can see: committed rows     *)
(***************************************************************************)

AsPlatform(row) ==
  [fid |-> row.fid, name |-> row.name, createdAt |-> row.createdAt, endedAt |-> row.endedAt]

CommittedPlatforms == [n \in Places(platform) |-> AsPlatform(RowAt(platform, n))]

AsActivity(row) ==
  [fid |-> row.fid, platform |-> Place(platform, row.platform), area |-> 1,
   createdAt |-> row.createdAt, endedAt |-> row.endedAt]

CommittedActivities == [n \in Places(activity) |-> AsActivity(RowAt(activity, n))]

-----------------------------------------------------------------------------
(***************************************************************************)
(* Properties                                                              *)
(***************************************************************************)

\* Rows are well formed; a committed activity refers to a committed platform.
TypeOK ==
  /\ platform \in Seq(PlatformRow)
  /\ activity \in Seq(ActivityRow)
  /\ \A i \in Committed(activity) : activity[i].platform \in Committed(platform)
  /\ now \in 0..MaxTime /\ finished.time \in 0..MaxTime
  /\ txn \in [Workers -> Transaction]
  /\ overlapped \subseteq Platforms

\* However requests interleave, a committed row is never rewritten: its only
\* change is that it ends, once, and it stays ended at that instant.
CommittedHistoryKept ==
  [][CommittedContinues(platform, platform') /\ CommittedContinues(activity, activity')]_vars

\* Nobody ever sees a platform or an activity disappear while a request
\* replaces it: only ending it for good leaves an id without current version.
NeverAbsent ==
  [][\/ \E w \in Workers : Commit(w) /\ txn[w].request.kind \in {"end platform", "end activity"}
     \/ /\ NothingVanishes(platform, platform', Platforms)
        /\ NothingVanishes(activity, activity', ActivityIds)]_vars

\* The platform whose rows a waiting request is about to end: a POST of a
\* single activity ends a row of whichever platform has reported the id.
EndsRowsOf(w) ==
  IF txn[w].pc = "lock platform" THEN txn[w].request.platform ELSE platform[txn[w].owner].fid

\* Two batches that lock the same rows in different order wait for each other,
\* and one of them is failed with 500.  That takes two requests of the one
\* platform whose rows they are: as long as it waits for its answers, nobody
\* gets into a deadlock over its rows, although others may report, and wait
\* for, the ids it has reported.
DeadlockOnlyWithinPlatform ==
  \A w \in Workers : Deadlocked(w) => EndsRowsOf(w) \in overlapped

\* Every request ends.
EveryRequestEnds == \A w \in Workers : txn[w].pc # "idle" ~> txn[w].pc = "idle"

\* Platforms that wait for their answers disturb each other as little as if
\* all requests were served one at a time, whichever platforms' requests
\* overlap: their versions are stacked; within a version an activity id has one
\* current row (what the batch UPDATE of the bulk flow relies on); and an
\* activity is reported by the version in force, although the bulk flow holds
\* its technical id over several statements.
PlatformsUndisturbed ==
  /\ CommittedStacked(platform, Platforms \ overlapped)
  /\ \A i \in Committed(activity) :
        LET version == platform[activity[i].platform]
        IN  version.fid \notin overlapped =>
              /\ InForceAt(version, activity[i].createdAt)
              /\ \A j \in Committed(activity) :
                    (i < j /\ activity[i].fid = activity[j].fid
                           /\ activity[i].platform = activity[j].platform)
                      => ~IsCurrent(activity[i])

\* What the 422 says: a platform is refused as deactivated only if it is.  The
\* two statements of the guard see different snapshots, which misleads them
\* only if requests of the platform itself overlap.
RefusedOnlyIfDeactivated ==
  [][\A w \in Workers :
       (txn[w].pc = "any platform" /\ txn'[w].pc = "idle" /\ finished'.reply.status = 422)
         => \/ txn[w].request.platform \in overlapped
            \/ CommittedCurrent(platform, txn[w].request.platform) = {}]_vars

\* The same properties without the condition on overlaps: what the code does
\* not keep up when requests of one platform overlap.
AlwaysStacked == CommittedStacked(platform, Platforms)
NeverDeadlocked == \A w \in Workers : ~Deadlocked(w)
NeverRefusedByMistake ==
  [][\A w \in Workers :
       (txn[w].pc = "any platform" /\ txn'[w].pc = "idle" /\ finished'.reply.status = 422)
         => CommittedCurrent(platform, txn[w].request.platform) = {}]_vars

\* What docs/ARCHITECTURE_TECH.md says of POST requests: on success the
\* transaction is committed.  Once 201 or 200 is sent, the rows stay.
AnsweredIsStored ==
  [][\A w \in Workers :
       (txn[w].status \in {200, 201} /\ txn'[w].pc = "idle")
         => \A i \in DOMAIN activity : activity[i].by = w => activity'[i].by = "committed"]_vars

\* The clock of the serial specification stands still while a request is served.
SerialNow ==
  IF \E w \in Workers : txn[w].pc # "idle"
    THEN (CHOOSE t \in 1..MaxTime : \E w \in Workers : txn[w].pc # "idle" /\ txn[w].time = t) - 1
    ELSE finished.time

\* The serial specification of the activity side, over what is committed, with
\* one area that stays current.
Serial ==
  INSTANCE ActivityService WITH
    CompetentAuthorities <- {"authority"}, AreaIds <- {"area"},
    ActivityIds <- ActivityIds \cup 1..MaxTime,
    competentAuthority <- <<[fid |-> "authority", createdAt |-> 1, endedAt |-> NotEnded]>>,
    area <- <<[fid |-> "area", competentAuthority |-> 1, createdAt |-> 1, endedAt |-> NotEnded]>>,
    areaReply <- [status |-> 0, fid |-> NoId],
    platform <- CommittedPlatforms,
    activity <- CommittedActivities,
    now <- SerialNow,
    activityReply <- [status |-> finished.reply.status,
                      fids |-> finished.reply.fids,
                      areaIds |-> [i \in DOMAIN finished.reply.fids |-> "area"],
                      verdicts |-> finished.reply.verdicts]

\* The step of the serial specification that a request stands for.
SerialStep(request) ==
  \/ /\ request.kind = "post"
     /\ Serial!PostActivity(request.platform, request.name, request.ids[1], "area")
  \/ /\ request.kind = "bulk"
     /\ Serial!PostActivitiesBulk(request.platform, request.name,
          [i \in DOMAIN request.ids |-> [activityId |-> request.ids[i], areaId |-> "area"]])
  \/ request.kind = "end platform" /\ Serial!DeactivatePlatform(request.platform)
  \/ request.kind = "end activity" /\ Serial!DeactivateActivity(request.ids[1])

\* A request that was lost is a transaction that changed nothing.
LostRequest == Serial!OtherTransaction /\ UNCHANGED <<CommittedPlatforms, CommittedActivities>>

\* A request that is served alone, in a history in which no two requests of
\* one platform have overlapped, amounts to its one step of the serial
\* specification, with its rollbacks and crashes, and nothing of it is visible
\* before.
ImplementsActivityService ==
  /\ Serial!ActivityInit
  /\ [][(\A w \in Workers : txn[w].alone /\ overlapped = {})
         => \/ \E w \in Workers : txn[w].pc # "idle" /\ SerialStep(txn[w].request)
            \/ LostRequest]_<<CommittedPlatforms, CommittedActivities, finished>>
=============================================================================
