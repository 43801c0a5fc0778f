--------------------------- MODULE ActivityService --------------------------
(***************************************************************************)
(* The activity side of SDEP: platforms and the rental activities they     *)
(* report under the areas of the competent authorities                     *)
(* (services/activity.py and services/activity_bulk.py on crud/activity.py *)
(* and crud/platform.py, reached through routers/str_activities.py and     *)
(* routers/str_activities_bulk.py).                                        *)
(*                                                                         *)
(* As in AreaService, a step is a whole handler in its own transaction.    *)
(* The area tables are read here and never written.                        *)
(***************************************************************************)
EXTENDS AreaService, FiniteSets

CONSTANTS
  Platforms,     \* functional ids of platforms (token claim client_id)
  Names,         \* platform names (token claim client_name)
  ActivityIds,   \* functional ids of activities, given by clients or generated
  MaxBatch       \* bound: items of a bulk request (1000 in schemas/activity_bulk.py)

ASSUME ActivityConstantsAssumption ==
  /\ NoId \notin ActivityIds
  /\ MaxBatch \in Nat

VARIABLES
  platform,       \* table of [fid, name, createdAt, endedAt]
  activity,       \* table of [fid, platform, area, createdAt, endedAt]
  activityReply   \* the answer to the latest request, if it was an activity request

activityVars == <<platform, activity, activityReply>>

PlatformRow ==
  [fid: Platforms, name: Names, createdAt: Nat \ {0}, endedAt: Nat]

ActivityRow ==
  [fid: ActivityIds, platform: Nat \ {0}, area: Nat \ {0},
   createdAt: Nat \ {0}, endedAt: Nat]

(***************************************************************************)
(* An item of a bulk request is a raw dictionary; Pydantic either accepts  *)
(* it or not.  Items that fail for any reason are all the one InvalidItem. *)
(***************************************************************************)
ValidItem == [activityId: ActivityIds \cup {NoId}, areaId: AreaIds]
InvalidItem == [activityId |-> NoId, areaId |-> NoId]
Batches == UNION {[1..n -> ValidItem \cup {InvalidItem}] : n \in 1..MaxBatch}

Verdicts == {"OK", "invalid", "superseded", "unknown area", "deactivated"}

\* A reply: the HTTP status, and for each submitted item its functional id,
\* the area it named and its verdict.
NoActivityReply ==
  [status |-> 0, fids |-> <<>>, areaIds |-> <<>>, verdicts |-> <<>>]
Failure(status) == [NoActivityReply EXCEPT !.status = status]

-----------------------------------------------------------------------------
(***************************************************************************)
(* Queries                                                                 *)
(***************************************************************************)

\* Wrong: only the activities reported under a current version of an area.
Bug_ActivitiesOf(ca) ==
  {i \in DOMAIN activity : /\ IsCurrent(activity[i])
                           /\ IsCurrent(area[activity[i].area])
                           /\ OwnerOf(activity[i].area) = ca}

\* GET /ca/activities: the current activities reported under any version of
\* any area of the authority (joins on technical ids, functional id last).
ActivitiesOf(ca) ==
  {i \in DOMAIN activity : IsCurrent(activity[i]) /\ OwnerOf(activity[i].area) = ca}

\* Wrong: the batch UPDATE is left out.
Bug_NoneUnder(pid, fids) == {}

\* get_current_by_activity_ids and the WHERE of bulk_mark_as_ended: current
\* versions reported under one version of a platform.
CurrentUnder(pid, fids) ==
  {i \in DOMAIN activity : /\ activity[i].fid \in fids
                           /\ activity[i].platform = pid
                           /\ IsCurrent(activity[i])}

-----------------------------------------------------------------------------
(***************************************************************************)
(* POST /str/activities                                                    *)
(***************************************************************************)

\* Wrong: no default for an omitted id.
Bug_NoGeneratedId(activityId) == {activityId}

ActivityIdFor(activityId) ==
  IF activityId = NoId THEN {fid \in ActivityIds : ~ExistsAny(activity, fid)}
                       ELSE {activityId}

\* An activity request writes neither area table.
ActivityTransaction ==
  /\ Begin
  /\ areaReply' = NoAreaReply
  /\ UNCHANGED <<competentAuthority, area>>

\* The checks of create_activity that answer 422, and each without one.
Bug_ActivityGuard(p, activityId, areaId) ==
  \/ CurrentVersions(area, areaId) = {}
  \/ Deactivated(platform, p)
Bug_PlatformGuard(p, activityId, areaId) ==
  \/ CurrentVersions(area, areaId) = {}
  \/ Deactivated(activity, activityId)
ActivityRefused(p, activityId, areaId) ==
  \/ CurrentVersions(area, areaId) = {}
  \/ Deactivated(platform, p)
  \/ Deactivated(activity, activityId)

\* The row of a new activity, reported under technical ids.
NewActivity(fid, pid, a, t) ==
  [fid |-> fid, platform |-> pid, area |-> a, createdAt |-> t, endedAt |-> NotEnded]

\* The area must be current, the platform is created or re-versioned on every
\* request, and the current version of the activity, whichever platform
\* reported it, ends.  The lookup by activity id raises (500) when several
\* versions are current; 422 and 500 roll the transaction back.
PostActivity(p, name, activityId, areaId) ==
  /\ ActivityTransaction
  /\ \/ /\ ActivityRefused(p, activityId, areaId)
        /\ activityReply' = Failure(422)
        /\ UNCHANGED <<platform, activity>>
     \/ /\ ~ActivityRefused(p, activityId, areaId)
        /\ Ambiguous(activity, activityId)
        /\ activityReply' = Failure(500)
        /\ UNCHANGED <<platform, activity>>
     \/ /\ ~ActivityRefused(p, activityId, areaId)
        /\ ~Ambiguous(activity, activityId)
        /\ platform' =
             NewVersion(platform, [fid |-> p, name |-> name,
                                   createdAt |-> now', endedAt |-> NotEnded])
        /\ \E a \in CurrentVersions(area, areaId), fid \in ActivityIdFor(activityId) :
             /\ activity' =
                  NewVersion(activity, NewActivity(fid, Len(platform'), a, now'))
             /\ activityReply' = [status |-> 201, fids |-> <<fid>>,
                                  areaIds |-> <<areaId>>, verdicts |-> <<"OK">>]

-----------------------------------------------------------------------------
(***************************************************************************)
(* POST /str/activities/bulk                                               *)
(***************************************************************************)

IsValid(item) == item # InvalidItem

\* Step 1 gives each valid item without an id a UUID4 of its own.
ResolvedIds(batch) ==
  {f \in [DOMAIN batch -> ActivityIds \cup {NoId}] :
     \A i \in DOMAIN batch :
        IF IsValid(batch[i]) /\ batch[i].activityId = NoId
          THEN /\ f[i] # NoId
               /\ ~ExistsAny(activity, f[i])
               /\ \A j \in DOMAIN batch \ {i} : f[j] # f[i]
          ELSE f[i] = batch[i].activityId}

\* Wrong: duplicates are all stored, the first one wins, or the check for
\* deactivated activities is left out.
Bug_NoDeduplication(batch, fids, i) ==
  IF ~IsValid(batch[i]) THEN "invalid"
  ELSE IF CurrentVersions(area, batch[i].areaId) = {} THEN "unknown area"
  ELSE IF Deactivated(activity, fids[i]) THEN "deactivated" ELSE "OK"
Bug_FirstWins(batch, fids, i) ==
  IF IsValid(batch[i]) /\ \E j \in DOMAIN batch : j < i /\ fids[j] = fids[i]
    THEN "superseded" ELSE Bug_NoDeduplication(batch, fids, i)
Bug_NoDeactivationCheck(batch, fids, i) ==
  IF ~IsValid(batch[i]) THEN "invalid"
  ELSE IF \E j \in DOMAIN batch : i < j /\ fids[j] = fids[i] THEN "superseded"
  ELSE IF CurrentVersions(area, batch[i].areaId) = {} THEN "unknown area" ELSE "OK"

\* What becomes of item i: the checks of the flow, in the order in which the
\* service makes them.  Duplicates are discarded before areas are looked up.
Verdict(batch, fids, i) ==
  IF ~IsValid(batch[i]) THEN "invalid"
  ELSE IF \E j \in DOMAIN batch : i < j /\ fids[j] = fids[i] THEN "superseded"
  ELSE IF CurrentVersions(area, batch[i].areaId) = {} THEN "unknown area"
  ELSE IF Deactivated(activity, fids[i]) THEN "deactivated"
  ELSE "OK"

\* Wrong: the renamed platform is inserted next to its current version.
Bug_RenameWithoutEnd(p, name) ==
  IF \E i \in CurrentVersions(platform, p) : platform[i].name = name
    THEN platform
    ELSE Append(platform, [fid |-> p, name |-> name,
                           createdAt |-> now', endedAt |-> NotEnded])

\* The bulk flow re-versions the platform only when its name has changed.
PlatformForBatch(p, name) ==
  IF \E i \in CurrentVersions(platform, p) : platform[i].name = name
    THEN platform
    ELSE NewVersion(platform, [fid |-> p, name |-> name,
                               createdAt |-> now', endedAt |-> NotEnded])

\* The ids whose current versions the batch ends: those of accepted items.
Bug_EndRefusedToo(batch, fids, accepted) == {fids[i] : i \in DOMAIN batch}
IdsForVersioning(batch, fids, accepted) == {fids[i] : i \in accepted}

\* Wrong: the area lookup ignores ended_at, or rows are taken by position in
\* the batch instead of by position among the accepted items.
Bug_EndedArea(batch, fids, order, pid) ==
  [n \in DOMAIN order |->
     NewActivity(fids[order[n]], pid,
                 CHOOSE a \in Versions(area, batch[order[n]].areaId) : TRUE, now')]
Bug_WrongIndex(batch, fids, order, pid) ==
  [n \in DOMAIN order |->
     NewActivity(fids[n], pid,
                 CHOOSE a \in CurrentVersions(area, batch[order[n]].areaId) : TRUE, now')]

\* The rows of the multi-row INSERT, in the order of the batch.
BatchRows(batch, fids, order, pid) ==
  [n \in DOMAIN order |->
     NewActivity(fids[order[n]], pid,
                 CHOOSE a \in CurrentVersions(area, batch[order[n]].areaId) : TRUE,
                 now')]

\* 201 if every item was accepted, 200 if some were, 422 if none was.  The
\* 422 is an ordinary return value: the transaction commits.
BatchStatus(accepted, batch) ==
  IF accepted = DOMAIN batch THEN 201 ELSE IF accepted # {} THEN 200 ELSE 422

PostActivitiesBulk(p, name, batch) ==
  /\ ActivityTransaction
  /\ \/ /\ Deactivated(platform, p)
        /\ activityReply' = Failure(422)
        /\ UNCHANGED <<platform, activity>>
     \/ /\ ~Deactivated(platform, p)
        /\ platform' = PlatformForBatch(p, name)
        /\ \E fids \in ResolvedIds(batch), pid \in CurrentVersions(platform', p) :
             LET accepted == {i \in DOMAIN batch : Verdict(batch, fids, i) = "OK"}
             IN  /\ \E order \in InOrder(accepted) :
                      activity' =
                        EndVersions(activity,
                                    CurrentUnder(pid, IdsForVersioning(batch, fids, accepted)), now')
                        \o BatchRows(batch, fids, order, pid)
                 /\ activityReply' =
                      [status |-> BatchStatus(accepted, batch),
                       fids |-> fids,
                       areaIds |-> [i \in DOMAIN batch |-> batch[i].areaId],
                       verdicts |-> [i \in DOMAIN batch |-> Verdict(batch, fids, i)]]

-----------------------------------------------------------------------------
(***************************************************************************)
(* Rows ended outside the API, as the tests of the guards do: no endpoint  *)
(* ends a platform or an activity for good.                                *)
(***************************************************************************)
DeactivatePlatform(p) ==
  /\ ActivityTransaction
  /\ CurrentVersions(platform, p) # {}
  /\ platform' = EndVersions(platform, CurrentVersions(platform, p), now')
  /\ activityReply' = NoActivityReply
  /\ UNCHANGED activity

DeactivateActivity(fid) ==
  /\ ActivityTransaction
  /\ \E i \in CurrentVersions(activity, fid) :
        activity' = EndVersions(activity, CurrentUnder(activity[i].platform, {fid}), now')
  /\ activityReply' = NoActivityReply
  /\ UNCHANGED platform

ActivityInit ==
  /\ platform = <<>>
  /\ activity = <<>>
  /\ activityReply = NoActivityReply

ActivityRequest ==
  \/ \E p \in Platforms :
       \/ \E name \in Names :
            \/ \E activityId \in ActivityIds \cup {NoId}, areaId \in AreaIds :
                  PostActivity(p, name, activityId, areaId)
            \/ \E batch \in Batches : PostActivitiesBulk(p, name, batch)
       \/ DeactivatePlatform(p)
  \/ \E fid \in ActivityIds : DeactivateActivity(fid)
=============================================================================
