----------------------------- MODULE AreaService ----------------------------
(***************************************************************************)
(* The area side of SDEP: competent authorities and the areas they         *)
(* announce (services/area.py on crud/area.py and                          *)
(* crud/competent_authority.py, reached through routers/ca_areas.py).      *)
(*                                                                         *)
(* Every request is one transaction (db/config.py, get_async_db) and the   *)
(* transactions of this module run one at a time: each step is a whole     *)
(* handler, from its first query to its commit or its rollback.            *)
(***************************************************************************)
EXTENDS Versioning

CONSTANTS
  CompetentAuthorities,  \* functional ids of authorities (token claim client_id)
  AreaIds,               \* functional ids of areas, given by clients or generated
  NoId,                  \* a request that leaves the functional id out
  MaxTime                \* bound: the number of transactions of a behaviour

ASSUME AreaConstantsAssumption ==
  /\ NoId \notin AreaIds
  /\ MaxTime \in Nat

VARIABLES
  competentAuthority,  \* table of [fid, createdAt, endedAt]
  area,                \* table of [fid, competentAuthority, createdAt, endedAt]
  now,                 \* the timestamp of the latest transaction
  areaReply            \* the answer to the latest request, if it was an area request

areaVars == <<competentAuthority, area, now, areaReply>>

CompetentAuthorityRow ==
  [fid: CompetentAuthorities, createdAt: Nat \ {0}, endedAt: Nat]

AreaRow ==
  [fid: AreaIds, competentAuthority: Nat \ {0}, createdAt: Nat \ {0}, endedAt: Nat]

NoAreaReply == [status |-> 0, fid |-> NoId]
AreaReply(status, fid) == [status |-> status, fid |-> fid]

-----------------------------------------------------------------------------
(***************************************************************************)
(* Queries                                                                 *)
(***************************************************************************)

\* The functional id of the authority that a version of an area belongs to:
\* the join of area with competent_authority on the technical id.
OwnerOf(i) == competentAuthority[area[i].competentAuthority].fid

\* Wrong: only the areas announced under the authority's current version.
Bug_OwnAreas(ca) ==
  {i \in DOMAIN area : /\ IsCurrent(area[i])
                       /\ OwnerOf(i) = ca
                       /\ IsCurrent(competentAuthority[area[i].competentAuthority])}

\* GET /ca/areas: the current areas of an authority, whichever of its own
\* versions they were announced under.
OwnAreas(ca) == {i \in DOMAIN area : IsCurrent(area[i]) /\ OwnerOf(i) = ca}

\* GET /ca/areas/{id} and the lookup of DELETE /ca/areas/{id}.
OwnAreaById(ca, fid) == {i \in CurrentVersions(area, fid) : OwnerOf(i) = ca}

\* GET /str/areas, the areas a platform can refer to.
AllAreas == {i \in DOMAIN area : IsCurrent(area[i])}

-----------------------------------------------------------------------------
(***************************************************************************)
(* Requests                                                                *)
(***************************************************************************)

\* A transaction starts: func.now() is its timestamp everywhere in it.
Begin ==
  /\ now < MaxTime
  /\ now' = now + 1

\* The functional ids the new row may get: the client's own, or a UUID4 that
\* no row carries yet.
AreaIdFor(areaId) ==
  IF areaId = NoId THEN {fid \in AreaIds : ~ExistsAny(area, fid)} ELSE {areaId}

\* The deactivation guards of create_area.
Bug_AreaGuard(ca, areaId) == Deactivated(competentAuthority, ca)
AreaRefused(ca, areaId) ==
  Deactivated(competentAuthority, ca) \/ Deactivated(area, areaId)

\* The row of a new area, under the version of its authority inserted last;
\* wrong: under the row before it, or under any version of the authority.
Bug_StaleOwner(authorities, fid, t) ==
  [fid |-> fid, competentAuthority |-> Len(authorities) - 1,
   createdAt |-> t, endedAt |-> NotEnded]
Bug_EndedOwner(authorities, fid, t) ==
  [fid |-> fid, createdAt |-> t, endedAt |-> NotEnded,
   competentAuthority |-> CHOOSE i \in DOMAIN authorities :
                            authorities[i].fid = authorities[Len(authorities)].fid]
NewArea(authorities, fid, t) ==
  [fid |-> fid, competentAuthority |-> Len(authorities),
   createdAt |-> t, endedAt |-> NotEnded]

\* POST /ca/areas.  The authority is created or re-versioned on every
\* request, then the current version of the area, whoever owns it, ends.
PostArea(ca, areaId) ==
  /\ Begin
  /\ \/ /\ AreaRefused(ca, areaId)
        /\ areaReply' = AreaReply(422, areaId)
        /\ UNCHANGED <<competentAuthority, area>>
     \/ /\ ~AreaRefused(ca, areaId)
        /\ competentAuthority' =
             NewVersion(competentAuthority,
                        [fid |-> ca, createdAt |-> now', endedAt |-> NotEnded])
        /\ \E fid \in AreaIdFor(areaId) :
             /\ area' = NewVersion(area, NewArea(competentAuthority', fid, now'))
             /\ areaReply' = AreaReply(201, fid)

\* DELETE /ca/areas/{id}: soft delete, for the owner only.
DeleteArea(ca, areaId) ==
  /\ Begin
  /\ UNCHANGED competentAuthority
  /\ \/ /\ OwnAreaById(ca, areaId) = {}
        /\ areaReply' = AreaReply(404, areaId)
        /\ UNCHANGED area
     \/ \E i \in OwnAreaById(ca, areaId) :
          /\ area' =
               EndVersions(area,
                 {k \in CurrentVersions(area, areaId) :
                    area[k].competentAuthority = area[i].competentAuthority},
                 now')
          /\ areaReply' = AreaReply(204, areaId)

\* An administrator ends an authority outside the API: no endpoint does, the
\* guard of PostArea exists for it.
DeactivateCompetentAuthority(ca) ==
  /\ Begin
  /\ CurrentVersions(competentAuthority, ca) # {}
  /\ competentAuthority' =
       EndVersions(competentAuthority, CurrentVersions(competentAuthority, ca), now')
  /\ areaReply' = NoAreaReply
  /\ UNCHANGED area

\* A transaction that touches neither table (an activity request).
OtherTransaction ==
  /\ Begin
  /\ areaReply' = NoAreaReply
  /\ UNCHANGED <<competentAuthority, area>>

AreaInit ==
  /\ competentAuthority = <<>>
  /\ area = <<>>
  /\ now = 0
  /\ areaReply = NoAreaReply

AreaRequest ==
  \E ca \in CompetentAuthorities :
     \/ \E areaId \in AreaIds \cup {NoId} : PostArea(ca, areaId)
     \/ \E areaId \in AreaIds : DeleteArea(ca, areaId)
     \/ DeactivateCompetentAuthority(ca)

AreaNext == AreaRequest \/ OtherTransaction

AreaSpec == AreaInit /\ [][AreaNext]_areaVars

-----------------------------------------------------------------------------
(***************************************************************************)
(* Properties                                                              *)
(***************************************************************************)

\* The tables hold well-formed rows and every area refers to an existing
\* version of an authority (the foreign key of area).
AreaTypeOK ==
  /\ competentAuthority \in Seq(CompetentAuthorityRow)
  /\ area \in Seq(AreaRow)
  /\ \A i \in DOMAIN area : area[i].competentAuthority \in DOMAIN competentAuthority
  /\ now \in Nat
  /\ areaReply \in [status: {0, 201, 204, 404, 422}, fid: AreaIds \cup {NoId}]

\* Versions of an authority follow each other without overlap: at most one
\* is current, so the scalar_one_or_none() of
\* crud/competent_authority.get_by_competent_authority_id never raises.
AuthorityVersionsStacked == Stacked(competentAuthority)

\* The same for areas, over all authorities: crud/area.get_by_area_id filters
\* on the functional id alone and never finds two rows.
AreaVersionsStacked == Stacked(area)

\* An authority or an area that has been submitted again was never absent in
\* between: its next version starts at the instant the previous one ended.
NoAreaGap == Gapless(competentAuthority) /\ Gapless(area)

\* The versions of every authority and of every area form one line in time,
\* although an area may change hands between them.
AreaTimelinesKept == AuthorityVersionsStacked /\ AreaVersionsStacked /\ NoAreaGap

\* An area is announced under the version of its authority that was in force
\* at that moment (create_area re-versions the authority first).
AnnouncedByAuthorityInForce ==
  \A i \in DOMAIN area :
     InForceAt(competentAuthority[area[i].competentAuthority], area[i].createdAt)

\* Re-versioning an authority hides none of its areas: each area a platform
\* can see is in the own list of exactly one authority, which can delete it.
EveryAreaHasOneOwner ==
  \A i \in AllAreas :
     \E ca \in CompetentAuthorities :
        /\ i \in OwnAreas(ca)
        /\ OwnAreaById(ca, area[i].fid) = {i}
        /\ \A other \in CompetentAuthorities \ {ca} : i \notin OwnAreas(other)

\* The inductive invariant of the area side: the properties above and the
\* order of the timestamps, on which the stacking of the next version rests.
AreaInv ==
  /\ AreaTypeOK
  /\ AuthorityVersionsStacked
  /\ AreaVersionsStacked
  /\ NoAreaGap
  /\ AnnouncedByAuthorityInForce
  /\ ProperIntervals(competentAuthority, now)
  /\ ProperIntervals(area, now)

\* History is never rewritten: rows are only added, and a version ends once.
AreaHistoryKept ==
  [][/\ Continues(competentAuthority, competentAuthority')
     /\ Continues(area, area')]_areaVars

\* Soft delete is final: a functional id whose versions have all ended is
\* never revived by a later POST (the deactivation guard).
NoAreaResurrection ==
  [][/\ NeverResurrects(competentAuthority, competentAuthority', CompetentAuthorities)
     /\ NeverResurrects(area, area', AreaIds)]_areaVars

\* What docs/DATAMODEL.md says of ownership: an area id may be used by several
\* authorities, so an authority's request ends only its own versions.
OnlyOwnerEndsArea ==
  [][\A i \in DOMAIN area :
        (IsCurrent(area[i]) /\ ~IsCurrent(area'[i]))
          => \A k \in (DOMAIN area') \ DOMAIN area :
                OwnerOf(i)' = OwnerOf(k)']_areaVars
=============================================================================
