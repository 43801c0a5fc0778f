-------------------------------- MODULE Sdep --------------------------------
(***************************************************************************)
(* The data exchange as a whole: authorities announce areas, platforms     *)
(* report activities under them, over the four versioned tables.  Requests *)
(* are served one at a time (docs/DATAMODEL.md calls this "single          *)
(* concurrency"): this is the serial specification of the services.        *)
(***************************************************************************)
EXTENDS ActivityService

vars == <<areaVars, activityVars>>

Init == AreaInit /\ ActivityInit

\* The requests of both sides share the clock and nothing else is written by
\* both: an area request leaves the activity tables alone and vice versa.
Next ==
  \/ AreaRequest /\ activityReply' = NoActivityReply /\ UNCHANGED <<platform, activity>>
  \/ ActivityRequest

Spec == Init /\ [][Next]_vars

-----------------------------------------------------------------------------
(***************************************************************************)
(* Invariants                                                              *)
(***************************************************************************)

\* All tables hold well-formed rows and the three foreign keys refer to rows.
TypeOK ==
  /\ AreaTypeOK
  /\ platform \in Seq(PlatformRow)
  /\ activity \in Seq(ActivityRow)
  /\ \A i \in DOMAIN activity : /\ activity[i].platform \in DOMAIN platform
                                /\ activity[i].area \in DOMAIN area
  /\ activityReply.status \in {0, 200, 201, 422, 500}
  /\ activityReply.verdicts \in Seq(Verdicts)
  /\ Len(activityReply.fids) = Len(activityReply.verdicts)

\* At most one version of a platform is current, and versions do not overlap:
\* crud/platform.get_by_platform_id never raises.
PlatformVersionsStacked == Stacked(platform)

\* A platform that reports again is never absent in between.
NoPlatformGap == Gapless(platform)

\* The versions of a platform form one line in time, although two endpoints
\* with different rules make them.
PlatformTimelinesKept == PlatformVersionsStacked /\ NoPlatformGap

\* Within one version of a platform an activity id has one current version,
\* and versions do not overlap.  This is what the bulk flow relies on when it
\* ends versions by (activity id, platform version), and it keeps the unique
\* constraint on both and created_at.
SubmissionsStacked ==
  \A i, j \in DOMAIN activity :
     (/\ i < j
      /\ activity[i].fid = activity[j].fid
      /\ activity[i].platform = activity[j].platform)
       => ~IsCurrent(activity[i]) /\ activity[i].endedAt <= activity[j].createdAt

\* An activity is reported under a version of an area, and by a version of a
\* platform, that was in force at the time.
ReportedUnderVersionsInForce ==
  \A i \in DOMAIN activity :
     /\ InForceAt(area[activity[i].area], activity[i].createdAt)
     /\ InForceAt(platform[activity[i].platform], activity[i].createdAt)

\* Every current activity is in the list of exactly one authority, also after
\* its area or the authority was re-versioned or deleted.
EveryActivityReachesOneAuthority ==
  \A i \in DOMAIN activity :
     IsCurrent(activity[i]) =>
       \E ca \in CompetentAuthorities :
          /\ i \in ActivitiesOf(ca)
          /\ \A other \in CompetentAuthorities \ {ca} : i \notin ActivitiesOf(other)

\* The stacking that docs/DATAMODEL.md promises for every functional id: the
\* last version is current, the previous ones have ended.  It holds while
\* platforms use the single endpoint only.
ActivityVersionsStacked == Stacked(activity)

-----------------------------------------------------------------------------
(***************************************************************************)
(* Action properties                                                       *)
(***************************************************************************)

\* History is never rewritten, by either side: rows are only added, and a
\* version ends once.
HistoryKept ==
  [][/\ Continues(competentAuthority, competentAuthority') /\ Continues(area, area')
     /\ Continues(platform, platform') /\ Continues(activity, activity')]_vars

\* Soft delete is final for all functional ids, through all endpoints.
NoResurrection ==
  [][/\ NeverResurrects(competentAuthority, competentAuthority', CompetentAuthorities)
     /\ NeverResurrects(area, area', AreaIds)
     /\ NeverResurrects(platform, platform', Platforms)
     /\ NeverResurrects(activity, activity', ActivityIds)]_vars

\* Some activity row is inserted in this step.
Inserted == (DOMAIN activity') \ DOMAIN activity

\* An activity that ends in this step is replaced in it.
EndedAreReplaced ==
  activityReply'.status # 0 =>
    \A i \in DOMAIN activity :
       (IsCurrent(activity[i]) /\ ~IsCurrent(activity'[i])) =>
          \E k \in Inserted : activity'[k].fid = activity[i].fid

\* A request never ends an activity without putting a new version of it in
\* its place (an item that is refused later must not have ended anything).
EndsOnlyByReplacement == [][EndedAreReplaced]_vars

\* The accepted items of the answer are the rows inserted in this step.
AnswerIsTrue ==
  LET accepted == {n \in DOMAIN activityReply'.verdicts :
                     activityReply'.verdicts[n] = "OK"}
      Stores(n, k) == /\ activity'[k].fid = activityReply'.fids[n]
                      /\ area'[activity'[k].area].fid = activityReply'.areaIds[n]
                      /\ IsCurrent(activity'[k])
  IN  /\ Cardinality(Inserted) = Cardinality(accepted)
      /\ \A n \in accepted : \E k \in Inserted : Stores(n, k)

\* The answer tells the truth: each accepted item is the one current row that
\* was inserted for its id, under the area it named, and no other row was
\* inserted.
AnswerMatchesStore == [][AnswerIsTrue]_vars

\* Item n of the answer is the last one with its id.
IsLastOfItsId(n) ==
  /\ activityReply'.fids[n] # NoId
  /\ \A m \in DOMAIN activityReply'.fids :
        m > n => activityReply'.fids[m] # activityReply'.fids[n]

\* What this step stores for an id is what the last item with it asks for.
LastItemsAreFinal ==
  \A n \in DOMAIN activityReply'.fids :
     IsLastOfItsId(n) =>
       IF activityReply'.verdicts[n] = "OK"
         THEN \A k \in Inserted :
                activity'[k].fid = activityReply'.fids[n] =>
                  area'[activity'[k].area].fid = activityReply'.areaIds[n]
         ELSE CurrentVersions(activity', activityReply'.fids[n])
                = CurrentVersions(activity, activityReply'.fids[n])

\* The last valid item of a batch with a given id decides alone: if it is
\* accepted the id is stored as that item says, otherwise no version of the id
\* starts or ends, whatever the earlier items said.
LastItemDecides == [][LastItemsAreFinal]_vars

\* What docs/DATAMODEL.md and create_activity say of ownership: an activity id
\* may be used by several platforms, so a platform ends only its own versions.
OnlyOwnPlatformEnds ==
  [][\A i \in DOMAIN activity :
       (IsCurrent(activity[i]) /\ ~IsCurrent(activity'[i])) =>
          \A k \in Inserted :
             platform'[activity'[k].platform].fid = platform[activity[i].platform].fid]_vars

\* What docs/DATAMODEL.md says of versioning: an id can be submitted again.
\* A request never fails with an internal error.
NoInternalError == [][activityReply'.status # 500]_vars

\* What docs/ARCHITECTURE_TECH.md says of POST requests: on an error the
\* entire operation is rolled back.
ErrorChangesNothing ==
  [][activityReply'.status \in {422, 500} => UNCHANGED <<platform, activity>>]_vars
=============================================================================
