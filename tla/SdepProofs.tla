----------------------------- MODULE SdepProofs -----------------------------
(***************************************************************************)
(* What the two services keep, for any number of authorities, platforms,   *)
(* ids, names and transactions and any batch size: first the area side     *)
(* alone, then the composition, which implements it.                       *)
(***************************************************************************)
EXTENDS Sdep, VersioningLemmas, FiniteSetTheorems

(***************************************************************************)
(* The area side keeps its versions stacked and gapless, never rewrites    *)
(* history and never revives a deleted area.                               *)
(***************************************************************************)
LEMMA AuthorityRowStampable == Stampable(CompetentAuthorityRow)
BY SMT DEF Stampable, CompetentAuthorityRow

LEMMA AreaRowStampable == Stampable(AreaRow)
BY SMT DEF Stampable, AreaRow

\* The write each kind of request makes to the two tables, at time now'.
AreaWrites(caIds, areaIds) ==
  /\ now' = now + 1
  /\ competentAuthority' \in Seq(CompetentAuthorityRow)
  /\ area' \in Seq(AreaRow)
  /\ Writes(competentAuthority, competentAuthority', caIds, now')
  /\ Writes(area, area', areaIds, now')

\* A table that is not written is a write of nothing.
LEMMA NoWrite ==
  ASSUME NEW table, NEW t, Len(table) <= Len(table)
  PROVE  Writes(table, table, {}, t)
BY DEF Writes

LEMMA PostAreaWrites ==
  ASSUME AreaInv, NEW ca \in CompetentAuthorities, NEW areaId \in AreaIds \cup {NoId},
         PostArea(ca, areaId), ~AreaRefused(ca, areaId)
  PROVE  \E fid \in AreaIdFor(areaId) :
           /\ fid \in AreaIds
           /\ ~Deactivated(area, fid)
           /\ AreaWrites(CurrentVersions(competentAuthority, ca), CurrentVersions(area, fid))
           /\ Len(competentAuthority') = Len(competentAuthority) + 1
           /\ competentAuthority'[Len(competentAuthority) + 1]
                = [fid |-> ca, createdAt |-> now', endedAt |-> NotEnded]
           /\ Len(area') = Len(area) + 1
           /\ area'[Len(area) + 1]
                = [fid |-> fid, competentAuthority |-> Len(competentAuthority'),
                   createdAt |-> now', endedAt |-> NotEnded]
           /\ areaReply' = AreaReply(201, fid)
<1>1. /\ competentAuthority \in Seq(CompetentAuthorityRow)
      /\ area \in Seq(AreaRow)
      /\ now \in Nat
  BY DEF AreaInv, AreaTypeOK
<1> DEFINE caRow == [fid |-> ca, createdAt |-> now', endedAt |-> NotEnded]
           areaRow(fid) == [fid |-> fid, competentAuthority |-> Len(competentAuthority'),
                            createdAt |-> now', endedAt |-> NotEnded]
<1>2. /\ now' = now + 1
      /\ now' \in Nat \ {0}
      /\ competentAuthority' = NewVersion(competentAuthority, caRow)
  BY <1>1 DEF PostArea, Begin
<1>3. PICK fid \in AreaIdFor(areaId) : /\ area' = NewVersion(area, areaRow(fid))
                                       /\ areaReply' = AreaReply(201, fid)
  BY DEF PostArea, NewArea
<1>4. fid \in AreaIds /\ ~Deactivated(area, fid)
  BY <1>3 DEF AreaIdFor, AreaRefused, Deactivated
<1>5. caRow \in CompetentAuthorityRow /\ caRow.endedAt = NotEnded
      /\ caRow.fid = ca /\ caRow.createdAt = now'
  BY <1>2 DEF CompetentAuthorityRow, NotEnded
<1> HIDE DEF caRow
<1>6. /\ competentAuthority' \in Seq(CompetentAuthorityRow)
      /\ Len(competentAuthority') = Len(competentAuthority) + 1
      /\ competentAuthority'[Len(competentAuthority) + 1] = caRow
      /\ Writes(competentAuthority, competentAuthority',
                CurrentVersions(competentAuthority, ca), now')
  BY <1>1, <1>2, <1>5, AuthorityRowStampable, NewVersionWrites
<1>7. areaRow(fid) \in AreaRow /\ areaRow(fid).endedAt = NotEnded
      /\ areaRow(fid).fid = fid /\ areaRow(fid).createdAt = now'
  <2>1. Len(competentAuthority') \in Nat \ {0}
    BY <1>1, <1>6
  <2> QED
    BY <1>2, <1>4, <2>1 DEF AreaRow, NotEnded
<1> HIDE DEF areaRow
<1>8. /\ area' \in Seq(AreaRow)
      /\ Len(area') = Len(area) + 1
      /\ area'[Len(area) + 1] = areaRow(fid)
      /\ Writes(area, area', CurrentVersions(area, fid), now')
  BY <1>1, <1>3, <1>7, AreaRowStampable, NewVersionWrites
<1> QED
  BY <1>2, <1>3, <1>4, <1>6, <1>8 DEF AreaWrites, caRow, areaRow

\* Requests other than an accepted POST append no row: they end some current
\* versions, or none.
LEMMA OtherAreaWrites ==
  ASSUME AreaInv, AreaNext,
         \A ca \in CompetentAuthorities, areaId \in AreaIds \cup {NoId} :
            PostArea(ca, areaId) => AreaRefused(ca, areaId)
  PROVE  /\ \E caIds, areaIds : AreaWrites(caIds, areaIds)
         /\ Len(competentAuthority') = Len(competentAuthority)
         /\ Len(area') = Len(area)
         /\ areaReply' \in [status: {0, 201, 204, 404, 422}, fid: AreaIds \cup {NoId}]
<1>1. /\ competentAuthority \in Seq(CompetentAuthorityRow)
      /\ area \in Seq(AreaRow)
      /\ now \in Nat
  BY DEF AreaInv, AreaTypeOK
<1>2. /\ Writes(competentAuthority, competentAuthority, {}, now')
      /\ Writes(area, area, {}, now')
  <2>1. Len(competentAuthority) \in Nat /\ Len(area) \in Nat
    BY <1>1
  <2> QED
    BY <2>1, NoWrite
<1>3. ASSUME NEW ca \in CompetentAuthorities, NEW areaId \in AreaIds \cup {NoId},
             PostArea(ca, areaId)
      PROVE  /\ now' = now + 1
             /\ UNCHANGED <<competentAuthority, area>>
             /\ areaReply' = AreaReply(422, areaId)
  BY <1>3 DEF PostArea, Begin
<1>4. ASSUME NEW ca \in CompetentAuthorities, NEW areaId \in AreaIds, DeleteArea(ca, areaId)
      PROVE  /\ now' = now + 1 /\ UNCHANGED competentAuthority
             /\ area' \in Seq(AreaRow) /\ Len(area') = Len(area)
             /\ \E ids : Writes(area, area', ids, now')
             /\ areaReply' \in {AreaReply(404, areaId), AreaReply(204, areaId)}
  <2>1. CASE UNCHANGED area
    BY <1>1, <1>2, <1>4, <2>1 DEF DeleteArea, Begin
  <2>2. CASE ~UNCHANGED area
    <3>1. PICK i \in OwnAreaById(ca, areaId) :
             /\ area' = EndVersions(area,
                          {k \in CurrentVersions(area, areaId) :
                             area[k].competentAuthority = area[i].competentAuthority}, now')
             /\ areaReply' = AreaReply(204, areaId)
      BY <1>4, <2>2 DEF DeleteArea
    <3> DEFINE ids == {k \in CurrentVersions(area, areaId) :
                         area[k].competentAuthority = area[i].competentAuthority}
    <3>2. \A k \in ids : k \in DOMAIN area /\ IsCurrent(area[k])
      BY DEF CurrentVersions, Versions
    <3>3. now' = now + 1 /\ now' \in Nat /\ UNCHANGED competentAuthority
      BY <1>1, <1>4 DEF DeleteArea, Begin
    <3> HIDE DEF ids
    <3>4. /\ area' \in Seq(AreaRow)
          /\ Len(area') = Len(area)
          /\ Writes(area, area', ids, now')
      BY <1>1, <3>1, <3>2, <3>3, AreaRowStampable, EndVersionsWrites DEF ids
    <3> QED
      BY <3>1, <3>3, <3>4
  <2> QED
    BY <2>1, <2>2
<1>5. ASSUME NEW ca \in CompetentAuthorities, DeactivateCompetentAuthority(ca)
      PROVE  /\ now' = now + 1 /\ UNCHANGED area /\ areaReply' = NoAreaReply
             /\ competentAuthority' \in Seq(CompetentAuthorityRow)
             /\ Len(competentAuthority') = Len(competentAuthority)
             /\ \E ids : Writes(competentAuthority, competentAuthority', ids, now')
  <2> DEFINE ids == CurrentVersions(competentAuthority, ca)
  <2>1. \A k \in ids : k \in DOMAIN competentAuthority /\ IsCurrent(competentAuthority[k])
    BY DEF CurrentVersions, Versions
  <2>2. /\ now' = now + 1 /\ now' \in Nat /\ UNCHANGED area /\ areaReply' = NoAreaReply
        /\ competentAuthority' = EndVersions(competentAuthority, ids, now')
    BY <1>1, <1>5 DEF DeactivateCompetentAuthority, Begin
  <2> HIDE DEF ids
  <2>3. /\ competentAuthority' \in Seq(CompetentAuthorityRow)
        /\ Len(competentAuthority') = Len(competentAuthority)
        /\ Writes(competentAuthority, competentAuthority', ids, now')
    BY <1>1, <2>1, <2>2, AuthorityRowStampable, EndVersionsWrites
  <2> QED
    BY <2>2, <2>3
<1>6. CASE OtherTransaction
  BY <1>1, <1>2, <1>6 DEF OtherTransaction, Begin, AreaWrites, NoAreaReply
<1>7. CASE \E ca \in CompetentAuthorities, areaId \in AreaIds \cup {NoId} : PostArea(ca, areaId)
  BY <1>1, <1>2, <1>3, <1>7 DEF AreaWrites, AreaReply
<1>8. CASE \E ca \in CompetentAuthorities, areaId \in AreaIds : DeleteArea(ca, areaId)
  BY <1>1, <1>2, <1>4, <1>8 DEF AreaWrites, AreaReply
<1>9. CASE \E ca \in CompetentAuthorities : DeactivateCompetentAuthority(ca)
  BY <1>1, <1>2, <1>5, <1>9 DEF AreaWrites, NoAreaReply
<1> QED
  BY <1>6, <1>7, <1>8, <1>9 DEF AreaNext, AreaRequest

-----------------------------------------------------------------------------
(***************************************************************************)
(* Preservation of the invariant                                           *)
(***************************************************************************)

LEMMA AreaInitInv == AreaInit => AreaInv
<1> SUFFICES ASSUME AreaInit PROVE AreaInv
  OBVIOUS
<1>1. competentAuthority = <<>> /\ area = <<>> /\ now = 0 /\ areaReply = NoAreaReply
  BY DEF AreaInit
<1>2. AreaTypeOK
  BY <1>1 DEF AreaTypeOK, NoAreaReply
<1> QED
  BY <1>1, <1>2 DEF AreaInv, AuthorityVersionsStacked, AreaVersionsStacked, NoAreaGap,
     AnnouncedByAuthorityInForce, ProperIntervals, Stacked, Gapless

\* The foreign key of area, and the interval of the authority it refers to,
\* survive any write to the two tables.
LEMMA OwnersSurvive ==
  ASSUME AreaInv, NEW caIds, NEW areaIds, AreaWrites(caIds, areaIds),
         NEW i \in DOMAIN area
  PROVE  /\ area'[i].competentAuthority \in DOMAIN competentAuthority'
         /\ InForceAt(competentAuthority'[area'[i].competentAuthority], area'[i].createdAt)
<1> DEFINE o == area[i].competentAuthority
<1>1. /\ area[i] \in AreaRow /\ o \in DOMAIN competentAuthority
      /\ competentAuthority \in Seq(CompetentAuthorityRow)
      /\ now \in Nat /\ now' = now + 1
      /\ InForceAt(competentAuthority[o], area[i].createdAt)
      /\ area[i].createdAt <= now
  BY DEF AreaInv, AreaTypeOK, AnnouncedByAuthorityInForce, ProperIntervals, AreaWrites
<1>2. area'[i].competentAuthority = o /\ area'[i].createdAt = area[i].createdAt
  <2>1. area'[i] = area[i] \/ area'[i] = [area[i] EXCEPT !.endedAt = now']
    BY DEF AreaWrites, Writes
  <2> QED
    BY <1>1, <2>1 DEF AreaRow
<1>3. /\ o \in DOMAIN competentAuthority'
      /\ competentAuthority'[o].createdAt = competentAuthority[o].createdAt
      /\ \/ competentAuthority'[o] = competentAuthority[o]
         \/ IsCurrent(competentAuthority[o]) /\ competentAuthority'[o].endedAt = now'
  <2>1. /\ competentAuthority' \in Seq(CompetentAuthorityRow)
        /\ Writes(competentAuthority, competentAuthority', caIds, now')
    BY DEF AreaWrites
  <2>2. o \in DOMAIN competentAuthority /\ competentAuthority \in Seq(CompetentAuthorityRow)
    BY <1>1
  <2> HIDE DEF o
  <2>3. /\ o \in DOMAIN competentAuthority'
        /\ competentAuthority'[o].createdAt = competentAuthority[o].createdAt
        /\ \/ competentAuthority'[o] = competentAuthority[o]
           \/ /\ IsCurrent(competentAuthority[o])
              /\ competentAuthority'[o].endedAt = now'
    BY <2>1, <2>2, WritesKeep
  <2> QED
    BY <2>3
<1>4. InForceAt(competentAuthority'[o], area[i].createdAt)
  <2>1. area[i].createdAt \in Nat /\ area[i].createdAt < now'
    BY <1>1 DEF AreaRow
  <2> QED
    BY <1>1, <1>3, <2>1 DEF InForceAt
<1> QED
  BY <1>2, <1>3, <1>4

LEMMA PostAreaInv ==
  ASSUME AreaInv, NEW ca \in CompetentAuthorities, NEW areaId \in AreaIds \cup {NoId},
         PostArea(ca, areaId), ~AreaRefused(ca, areaId)
  PROVE  AreaInv'
<1>1. PICK fid \in AreaIds :
           /\ ~Deactivated(area, fid)
           /\ AreaWrites(CurrentVersions(competentAuthority, ca), CurrentVersions(area, fid))
           /\ Len(competentAuthority') = Len(competentAuthority) + 1
           /\ competentAuthority'[Len(competentAuthority) + 1]
                = [fid |-> ca, createdAt |-> now', endedAt |-> NotEnded]
           /\ Len(area') = Len(area) + 1
           /\ area'[Len(area) + 1]
                = [fid |-> fid, competentAuthority |-> Len(competentAuthority'),
                   createdAt |-> now', endedAt |-> NotEnded]
           /\ areaReply' = AreaReply(201, fid)
  BY PostAreaWrites
<1> DEFINE caIds == CurrentVersions(competentAuthority, ca)
           areaIds == CurrentVersions(area, fid)
<1>2. /\ competentAuthority \in Seq(CompetentAuthorityRow)
      /\ competentAuthority' \in Seq(CompetentAuthorityRow)
      /\ area \in Seq(AreaRow) /\ area' \in Seq(AreaRow)
      /\ now \in Nat /\ now' \in Nat /\ now < now'
      /\ Writes(competentAuthority, competentAuthority', caIds, now')
      /\ Writes(area, area', areaIds, now')
  BY <1>1 DEF AreaInv, AreaTypeOK, AreaWrites
<1>3. /\ DOMAIN competentAuthority = 1..Len(competentAuthority)
      /\ DOMAIN competentAuthority' = 1..(Len(competentAuthority) + 1)
      /\ DOMAIN area = 1..Len(area)
      /\ DOMAIN area' = 1..(Len(area) + 1)
      /\ Len(area) \in Nat /\ Len(competentAuthority) \in Nat
  BY <1>1, <1>2
<1>4. /\ competentAuthority'[Len(competentAuthority) + 1].fid = ca
      /\ area'[Len(area) + 1].fid = fid
      /\ area'[Len(area) + 1].competentAuthority = Len(competentAuthority) + 1
      /\ area'[Len(area) + 1].createdAt = now'
      /\ competentAuthority'[Len(competentAuthority) + 1].createdAt = now'
      /\ competentAuthority'[Len(competentAuthority) + 1].endedAt = NotEnded
  BY <1>1
\* The appended rows take the place of the current version, if there was one.
<1>5. \A i, k \in DOMAIN competentAuthority' :
         (i < k /\ k \notin DOMAIN competentAuthority
                /\ competentAuthority'[i].fid = competentAuthority'[k].fid)
           => i \in DOMAIN competentAuthority /\ competentAuthority[i].fid = ca
  <2> HIDE DEF caIds
  <2> QED
    BY <1>1, <1>2, <1>4, OneRowAppended
<1>6. \A i, k \in DOMAIN area' :
         (i < k /\ k \notin DOMAIN area /\ area'[i].fid = area'[k].fid)
           => i \in DOMAIN area /\ area[i].fid = fid
  <2> HIDE DEF areaIds
  <2> QED
    BY <1>1, <1>2, <1>4, OneRowAppended
<1>7. AreaTypeOK'
  <2>1. \A i \in DOMAIN area' : area'[i].competentAuthority \in DOMAIN competentAuthority'
    BY <1>1, <1>3, <1>4, OwnersSurvive
  <2>2. areaReply' \in [status: {0, 201, 204, 404, 422}, fid: AreaIds \cup {NoId}]
    BY <1>1 DEF AreaReply
  <2> QED
    BY <1>2, <2>1, <2>2 DEF AreaTypeOK
<1>8. AuthorityVersionsStacked' /\ AreaVersionsStacked'
  <2>1. \A i \in DOMAIN competentAuthority :
           competentAuthority[i].fid = ca => i \in caIds \/ ~IsCurrent(competentAuthority[i])
    BY DEF CurrentVersions, Versions
  <2>2. \A i \in DOMAIN area : area[i].fid = fid => i \in areaIds \/ ~IsCurrent(area[i])
    BY DEF CurrentVersions, Versions
  <2>3. Stacked(competentAuthority')
    <3> HIDE DEF caIds
    <3> QED
      BY <1>2, <1>5, <2>1, AuthorityRowStampable, WritesStacked
         DEF AreaInv, AuthorityVersionsStacked
  <2>4. Stacked(area')
    <3> HIDE DEF areaIds
    <3> QED
      BY <1>2, <1>6, <2>2, AreaRowStampable, WritesStacked DEF AreaInv, AreaVersionsStacked
  <2> QED
    BY <2>3, <2>4 DEF AuthorityVersionsStacked, AreaVersionsStacked
<1>9. NoAreaGap'
  <2>1. \A i \in DOMAIN competentAuthority :
           competentAuthority[i].fid = ca =>
             \E c \in DOMAIN competentAuthority :
                /\ c \in caIds
                /\ IsCurrent(competentAuthority[c])
                /\ competentAuthority[c].fid = competentAuthority[i].fid
    <3>1. ~Deactivated(competentAuthority, ca)
      BY DEF AreaRefused
    <3> QED
      BY <3>1 DEF Deactivated, ExistsAny, CurrentVersions, Versions
  <2>2. \A i \in DOMAIN area :
           area[i].fid = fid =>
             \E c \in DOMAIN area : c \in areaIds /\ IsCurrent(area[c]) /\ area[c].fid = area[i].fid
    BY <1>1 DEF Deactivated, ExistsAny, CurrentVersions, Versions
  <2>3. Gapless(competentAuthority')
    <3> HIDE DEF caIds
    <3> QED
      BY <1>2, <1>5, <2>1, AuthorityRowStampable, WritesGapless
         DEF AreaInv, AuthorityVersionsStacked, NoAreaGap
  <2>4. Gapless(area')
    <3> HIDE DEF areaIds
    <3> QED
      BY <1>2, <1>6, <2>2, AreaRowStampable, WritesGapless
         DEF AreaInv, AreaVersionsStacked, NoAreaGap
  <2> QED
    BY <2>3, <2>4 DEF NoAreaGap
<1>10. AnnouncedByAuthorityInForce'
  <2> SUFFICES ASSUME NEW i \in DOMAIN area'
               PROVE  InForceAt(competentAuthority'[area'[i].competentAuthority],
                                area'[i].createdAt)
    BY DEF AnnouncedByAuthorityInForce, InForceAt, IsCurrent
  <2>1. CASE i \in DOMAIN area
    BY <1>1, <2>1, OwnersSurvive
  <2>2. CASE i = Len(area) + 1
    BY <1>2, <1>4, <2>2 DEF InForceAt, IsCurrent
  <2> QED
    BY <1>3, <2>1, <2>2
<1>11. ProperIntervals(competentAuthority, now)' /\ ProperIntervals(area, now)'
  <2>1. ProperIntervals(competentAuthority, now) /\ ProperIntervals(area, now)
    BY DEF AreaInv
  <2> HIDE DEF caIds, areaIds
  <2>2. ProperIntervals(competentAuthority', now')
    BY <1>2, <2>1, AuthorityRowStampable, WritesProperIntervals
  <2>3. ProperIntervals(area', now')
    BY <1>2, <2>1, AreaRowStampable, WritesProperIntervals
  <2> QED
    BY <2>2, <2>3 DEF ProperIntervals, IsCurrent
<1> QED
  BY <1>7, <1>8, <1>9, <1>10, <1>11 DEF AreaInv

LEMMA OtherAreaInv ==
  ASSUME AreaInv, AreaNext,
         \A ca \in CompetentAuthorities, areaId \in AreaIds \cup {NoId} :
            PostArea(ca, areaId) => AreaRefused(ca, areaId)
  PROVE  AreaInv'
<1>1. PICK caIds, areaIds : AreaWrites(caIds, areaIds)
  BY OtherAreaWrites
<1>2. /\ Len(competentAuthority') = Len(competentAuthority)
      /\ Len(area') = Len(area)
      /\ areaReply' \in [status: {0, 201, 204, 404, 422}, fid: AreaIds \cup {NoId}]
  BY OtherAreaWrites
<1>3. /\ competentAuthority \in Seq(CompetentAuthorityRow)
      /\ competentAuthority' \in Seq(CompetentAuthorityRow)
      /\ area \in Seq(AreaRow) /\ area' \in Seq(AreaRow)
      /\ now \in Nat /\ now' \in Nat /\ now < now'
      /\ Writes(competentAuthority, competentAuthority', caIds, now')
      /\ Writes(area, area', areaIds, now')
  BY <1>1 DEF AreaInv, AreaTypeOK, AreaWrites
<1>4. /\ DOMAIN competentAuthority' = DOMAIN competentAuthority
      /\ DOMAIN area' = DOMAIN area
  BY <1>2, <1>3
<1>5. AreaTypeOK' /\ AnnouncedByAuthorityInForce'
  <2>1. \A i \in DOMAIN area' :
          /\ area'[i].competentAuthority \in DOMAIN competentAuthority'
          /\ InForceAt(competentAuthority'[area'[i].competentAuthority], area'[i].createdAt)
    BY <1>1, <1>4, OwnersSurvive
  <2> QED
    BY <1>2, <1>3, <2>1 DEF AreaTypeOK, AnnouncedByAuthorityInForce, InForceAt, IsCurrent
<1>6. Stacked(competentAuthority') /\ Stacked(area')
  BY <1>3, <1>4, AuthorityRowStampable, AreaRowStampable, WritesStacked
     DEF AreaInv, AuthorityVersionsStacked, AreaVersionsStacked
<1>7. Gapless(competentAuthority') /\ Gapless(area')
  BY <1>3, <1>4, AuthorityRowStampable, AreaRowStampable, WritesGapless
     DEF AreaInv, AuthorityVersionsStacked, AreaVersionsStacked, NoAreaGap
<1>8. ProperIntervals(competentAuthority', now') /\ ProperIntervals(area', now')
  BY <1>3, AuthorityRowStampable, AreaRowStampable, WritesProperIntervals DEF AreaInv
<1> QED
  BY <1>5, <1>6, <1>7, <1>8 DEF AreaInv, AuthorityVersionsStacked, AreaVersionsStacked,
     NoAreaGap, Stacked, Gapless, ProperIntervals, IsCurrent

\* Every step of the area side keeps its invariant.
LEMMA AreaStepInv ==
  ASSUME AreaInv, [AreaNext]_areaVars
  PROVE  AreaInv'
<1>1. CASE \E ca \in CompetentAuthorities, areaId \in AreaIds \cup {NoId} :
             PostArea(ca, areaId) /\ ~AreaRefused(ca, areaId)
  BY <1>1, PostAreaInv
<1>2. CASE /\ AreaNext
           /\ ~\E ca \in CompetentAuthorities, areaId \in AreaIds \cup {NoId} :
                 PostArea(ca, areaId) /\ ~AreaRefused(ca, areaId)
  BY <1>2, OtherAreaInv
<1>3. CASE UNCHANGED areaVars
  BY <1>3 DEF areaVars, AreaInv, AreaTypeOK, AuthorityVersionsStacked,
     AreaVersionsStacked, NoAreaGap, AnnouncedByAuthorityInForce,
     ProperIntervals, Stacked, Gapless, InForceAt, IsCurrent
<1> QED
  BY <1>1, <1>2, <1>3

\* The inductive invariant of the area side holds in every reachable state.
THEOREM AreaInvariant == AreaSpec => []AreaInv
<1>1. AreaInit => AreaInv
  BY AreaInitInv
<1>2. AreaInv /\ [AreaNext]_areaVars => AreaInv'
  BY AreaStepInv
<1> QED
  BY <1>1, <1>2, PTL DEF AreaSpec

-----------------------------------------------------------------------------
(***************************************************************************)
(* The properties                                                          *)
(***************************************************************************)

\* The tables stay well formed and the foreign key of area holds.
THEOREM AreaTypeCorrect == AreaSpec => []AreaTypeOK
BY AreaInvariant, PTL DEF AreaInv

\* At most one version of an authority or an area is current, versions never
\* overlap, and a version that is replaced ends when its successor starts.
THEOREM AreaTimelines == AreaSpec => []AreaTimelinesKept
BY AreaInvariant, PTL DEF AreaInv, AreaTimelinesKept

\* Every area was announced by the version of its authority in force.
THEOREM AreaAnnouncements == AreaSpec => []AnnouncedByAuthorityInForce
BY AreaInvariant, PTL DEF AreaInv

\* Each visible area has exactly one owner, and exactly that row is what the
\* owner's GET and DELETE by id find.
THEOREM AreaOwnership == AreaSpec => []EveryAreaHasOneOwner
<1>1. AreaInv => EveryAreaHasOneOwner
  <2> SUFFICES ASSUME AreaInv, NEW i \in AllAreas
               PROVE  \E ca \in CompetentAuthorities :
                        /\ i \in OwnAreas(ca)
                        /\ OwnAreaById(ca, area[i].fid) = {i}
                        /\ \A other \in CompetentAuthorities \ {ca} : i \notin OwnAreas(other)
    BY DEF EveryAreaHasOneOwner
  <2>1. /\ i \in DOMAIN area /\ IsCurrent(area[i])
        /\ competentAuthority \in Seq(CompetentAuthorityRow)
        /\ area \in Seq(AreaRow)
        /\ area[i].competentAuthority \in DOMAIN competentAuthority
        /\ Stacked(area)
    BY DEF AllAreas, AreaInv, AreaTypeOK, AreaVersionsStacked
  <2>2. OwnerOf(i) \in CompetentAuthorities
    <3>1. competentAuthority[area[i].competentAuthority] \in CompetentAuthorityRow
      BY <2>1
    <3> QED
      BY <3>1 DEF OwnerOf, CompetentAuthorityRow
  <2>3. CurrentVersions(area, area[i].fid) = {i}
    <3>1. \A j \in CurrentVersions(area, area[i].fid) : ~(i < j) /\ ~(j < i)
      BY <2>1 DEF CurrentVersions, Versions, Stacked
    <3>2. \A j \in CurrentVersions(area, area[i].fid) : j \in Int
      BY <2>1 DEF CurrentVersions, Versions
    <3>3. i \in CurrentVersions(area, area[i].fid) /\ i \in Int
      BY <2>1 DEF CurrentVersions, Versions
    <3> QED
      BY <3>1, <3>2, <3>3
  <2> QED
    BY <2>1, <2>2, <2>3 DEF OwnAreas, OwnAreaById
<1> QED
  BY <1>1, AreaInvariant, PTL

\* Every step writes both tables, in the sense of Writes, or stutters.
LEMMA AreaStepWrites ==
  ASSUME AreaInv, AreaNext
  PROVE  \E caIds, areaIds :
           /\ AreaWrites(caIds, areaIds)
           /\ \A k \in (DOMAIN competentAuthority') \ DOMAIN competentAuthority :
                 ~Deactivated(competentAuthority, competentAuthority'[k].fid)
           /\ \A k \in (DOMAIN area') \ DOMAIN area : ~Deactivated(area, area'[k].fid)
<1>0. competentAuthority \in Seq(CompetentAuthorityRow) /\ area \in Seq(AreaRow)
  BY DEF AreaInv, AreaTypeOK
<1>1. CASE \E ca \in CompetentAuthorities, areaId \in AreaIds \cup {NoId} :
             PostArea(ca, areaId) /\ ~AreaRefused(ca, areaId)
  <2>1. PICK ca \in CompetentAuthorities, areaId \in AreaIds \cup {NoId} :
             PostArea(ca, areaId) /\ ~AreaRefused(ca, areaId)
    BY <1>1
  <2>2. PICK fid \in AreaIds :
           /\ ~Deactivated(area, fid)
           /\ AreaWrites(CurrentVersions(competentAuthority, ca), CurrentVersions(area, fid))
           /\ Len(competentAuthority') = Len(competentAuthority) + 1
           /\ competentAuthority'[Len(competentAuthority) + 1]
                = [fid |-> ca, createdAt |-> now', endedAt |-> NotEnded]
           /\ Len(area') = Len(area) + 1
           /\ area'[Len(area) + 1]
                = [fid |-> fid, competentAuthority |-> Len(competentAuthority'),
                   createdAt |-> now', endedAt |-> NotEnded]
    BY <2>1, PostAreaWrites
  <2>3. competentAuthority' \in Seq(CompetentAuthorityRow) /\ area' \in Seq(AreaRow)
    BY <2>2 DEF AreaWrites
  <2>4. /\ \A k \in (DOMAIN competentAuthority') \ DOMAIN competentAuthority :
              k = Len(competentAuthority) + 1
        /\ \A k \in (DOMAIN area') \ DOMAIN area : k = Len(area) + 1
    BY <1>0, <2>2, <2>3
  <2>5. ~Deactivated(competentAuthority, ca)
    BY <2>1 DEF AreaRefused
  <2> QED
    BY <2>2, <2>4, <2>5
<1>2. CASE ~\E ca \in CompetentAuthorities, areaId \in AreaIds \cup {NoId} :
             PostArea(ca, areaId) /\ ~AreaRefused(ca, areaId)
  <2>1. PICK caIds, areaIds : AreaWrites(caIds, areaIds)
    BY <1>2, OtherAreaWrites
  <2>2. Len(competentAuthority') = Len(competentAuthority) /\ Len(area') = Len(area)
    BY <1>2, OtherAreaWrites
  <2>3. competentAuthority' \in Seq(CompetentAuthorityRow) /\ area' \in Seq(AreaRow)
    BY <2>1 DEF AreaWrites
  <2>4. (DOMAIN competentAuthority') \ DOMAIN competentAuthority = {}
        /\ (DOMAIN area') \ DOMAIN area = {}
    BY <1>0, <2>2, <2>3
  <2> QED
    BY <2>1, <2>4
<1> QED
  BY <1>1, <1>2

\* No request rewrites the history of authorities or areas.
THEOREM AreaHistory == AreaSpec => AreaHistoryKept
<1>1. AreaInv /\ [AreaNext]_areaVars
        => [Continues(competentAuthority, competentAuthority')
            /\ Continues(area, area')]_areaVars
  <2> SUFFICES ASSUME AreaInv, AreaNext
               PROVE  Continues(competentAuthority, competentAuthority')
                      /\ Continues(area, area')
    OBVIOUS
  <2>1. PICK caIds, areaIds : AreaWrites(caIds, areaIds)
    BY AreaStepWrites
  <2> QED
    BY <2>1, WritesContinue DEF AreaWrites
<1> QED
  BY <1>1, AreaInvariant, PTL DEF AreaSpec, AreaHistoryKept

\* A deleted area, or an authority that was ended, is never revived.
THEOREM AreaResurrection == AreaSpec => NoAreaResurrection
<1>1. AreaInv /\ [AreaNext]_areaVars
        => [/\ NeverResurrects(competentAuthority, competentAuthority', CompetentAuthorities)
            /\ NeverResurrects(area, area', AreaIds)]_areaVars
  <2> SUFFICES ASSUME AreaInv, AreaNext
               PROVE  /\ NeverResurrects(competentAuthority, competentAuthority',
                                         CompetentAuthorities)
                      /\ NeverResurrects(area, area', AreaIds)
    OBVIOUS
  <2>1. PICK caIds, areaIds :
           /\ AreaWrites(caIds, areaIds)
           /\ \A k \in (DOMAIN competentAuthority') \ DOMAIN competentAuthority :
                 ~Deactivated(competentAuthority, competentAuthority'[k].fid)
           /\ \A k \in (DOMAIN area') \ DOMAIN area : ~Deactivated(area, area'[k].fid)
    BY AreaStepWrites
  <2>2. /\ competentAuthority \in Seq(CompetentAuthorityRow)
        /\ competentAuthority' \in Seq(CompetentAuthorityRow)
        /\ area \in Seq(AreaRow) /\ area' \in Seq(AreaRow)
        /\ Writes(competentAuthority, competentAuthority', caIds, now')
        /\ Writes(area, area', areaIds, now')
    BY <2>1 DEF AreaInv, AreaTypeOK, AreaWrites
  <2>3. \A fid : Deactivated(competentAuthority, fid) => Deactivated(competentAuthority', fid)
    BY <2>1, <2>2, WritesNeverResurrect
  <2>4. \A fid : Deactivated(area, fid) => Deactivated(area', fid)
    BY <2>1, <2>2, WritesNeverResurrect
  <2> QED
    BY <2>3, <2>4 DEF NeverResurrects
<1> QED
  BY <1>1, AreaInvariant, PTL DEF AreaSpec, NoAreaResurrection

-----------------------------------------------------------------------------
(***************************************************************************)
(* The composition                                                         *)
(***************************************************************************)

\* An activity request is, for the area side, a transaction of someone else.
LEMMA ActivityRequestIsOther ==
  ASSUME ActivityRequest
  PROVE  OtherTransaction
<1>1. ActivityTransaction
  BY DEF ActivityRequest, PostActivity, PostActivitiesBulk, DeactivatePlatform,
         DeactivateActivity
<1> QED
  BY <1>1 DEF ActivityTransaction, OtherTransaction

\* Every step of the composition is a step of the area side, or a stutter.
LEMMA StepIsAreaStep ==
  ASSUME [Next]_vars
  PROVE  [AreaNext]_areaVars
<1>1. CASE AreaRequest
  BY <1>1 DEF AreaNext
<1>2. CASE ActivityRequest
  BY <1>2, ActivityRequestIsOther DEF AreaNext
<1>3. CASE UNCHANGED vars
  BY <1>3 DEF vars, areaVars
<1> QED
  BY <1>1, <1>2, <1>3 DEF Next

\* What has been proved of the area side by itself can be cited of the system.
LEMMA SdepAreaSpec == Spec => AreaSpec
<1>1. Init => AreaInit
  BY DEF Init
<1>2. [Next]_vars => [AreaNext]_areaVars
  BY StepIsAreaStep
<1> QED
  BY <1>1, <1>2, PTL DEF Spec, AreaSpec

\* The inductive invariant of the area side holds in the composition.
THEOREM SdepAreaInvariant == Spec => []AreaInv
BY SdepAreaSpec, AreaInvariant, PTL

-----------------------------------------------------------------------------
(***************************************************************************)
(* The invariant of the whole system.  Stacking compares the end of an old *)
(* version with the creation of a new one, and an activity with the version*)
(* it refers to: both need that no row is from the future.                 *)
(***************************************************************************)
SdepInv ==
  /\ AreaInv
  /\ TypeOK
  /\ PlatformTimelinesKept
  /\ SubmissionsStacked
  /\ ReportedUnderVersionsInForce
  /\ ProperIntervals(platform, now)
  /\ ProperIntervals(activity, now)

LEMMA PlatformRowStampable == Stampable(PlatformRow)
BY SMT DEF Stampable, PlatformRow

LEMMA ActivityRowStampable == Stampable(ActivityRow)
BY SMT DEF Stampable, ActivityRow

\* What the invariant says of the types, for the lemmas to cite.
LEMMA SdepTypes ==
  ASSUME SdepInv
  PROVE  /\ now \in Nat
         /\ area \in Seq(AreaRow)
         /\ platform \in Seq(PlatformRow) /\ activity \in Seq(ActivityRow)
         /\ Stacked(platform) /\ Gapless(platform)
         /\ ProperIntervals(platform, now) /\ ProperIntervals(activity, now)
BY DEF SdepInv, TypeOK, AreaTypeOK, PlatformTimelinesKept, PlatformVersionsStacked, NoPlatformGap

(***************************************************************************)
(* What an activity request does to the two tables, at time now'.          *)
(***************************************************************************)
ActivityWrites(pIds, aIds) ==
  /\ now' = now + 1
  /\ UNCHANGED <<competentAuthority, area>>
  /\ platform' \in Seq(PlatformRow)
  /\ activity' \in Seq(ActivityRow)
  /\ Writes(platform, platform', pIds, now')
  /\ Writes(activity, activity', aIds, now')

\* A new version of a platform takes the place of the current one.
PlatformReplaced(pIds) ==
  \A k \in (DOMAIN platform') \ DOMAIN platform :
     /\ k = Len(platform) + 1
     /\ ~Deactivated(platform, platform'[k].fid)
     /\ CurrentVersions(platform, platform'[k].fid) \subseteq pIds

\* A new activity is reported under current versions and takes the place of
\* the current one of its platform version; no two have the same id.
ActivitiesReplaced(aIds) ==
  \A k \in (DOMAIN activity') \ DOMAIN activity :
     /\ activity'[k].platform \in DOMAIN platform'
     /\ IsCurrent(platform'[activity'[k].platform])
     /\ activity'[k].area \in DOMAIN area'
     /\ IsCurrent(area'[activity'[k].area])
     /\ ~Deactivated(activity, activity'[k].fid)
     /\ \A i \in DOMAIN activity :
          (/\ activity[i].fid = activity'[k].fid
           /\ activity[i].platform = activity'[k].platform
           /\ IsCurrent(activity[i])) => i \in aIds
     /\ \A m \in (DOMAIN activity') \ DOMAIN activity :
          m # k => activity'[m].fid # activity'[k].fid

ReplyTyped ==
  /\ activityReply'.status \in {0, 200, 201, 422, 500}
  /\ activityReply'.verdicts \in Seq(Verdicts)
  /\ Len(activityReply'.fids) = Len(activityReply'.verdicts)

\* What every activity request leaves behind: an answer that is true, and
\* tables in which the current versions it ended are replaced.
ActivityOutcome ==
  /\ ReplyTyped
  /\ EndedAreReplaced
  /\ AnswerIsTrue
  /\ LastItemsAreFinal
  /\ \E pIds, aIds : /\ ActivityWrites(pIds, aIds)
                     /\ PlatformReplaced(pIds)
                     /\ ActivitiesReplaced(aIds)

\* A request that is refused, or has none of its items stored, writes nothing.
LEMMA NothingWritten ==
  ASSUME SdepInv, ActivityTransaction, UNCHANGED <<platform, activity>>
  PROVE  ActivityWrites({}, {}) /\ PlatformReplaced({}) /\ ActivitiesReplaced({})
<1>1. /\ now' = now + 1 /\ UNCHANGED <<competentAuthority, area>>
  BY DEF ActivityTransaction, Begin
<1>2. Len(platform) \in Nat /\ Len(activity) \in Nat
  BY SdepTypes
<1>3. Writes(platform, platform, {}, now') /\ Writes(activity, activity, {}, now')
  BY <1>2, NoWrite
<1> QED
  BY <1>1, <1>3, SdepTypes DEF ActivityWrites, PlatformReplaced, ActivitiesReplaced

LEMMA FailureTyped ==
  ASSUME NEW s \in {422, 500}, activityReply' = Failure(s)
  PROVE  ReplyTyped
BY DEF ReplyTyped, Failure, NoActivityReply

LEMMA NoReplyTyped ==
  ASSUME activityReply' = NoActivityReply
  PROVE  ReplyTyped
BY DEF ReplyTyped, NoActivityReply

\* An answer without items is true of a step that inserts nothing.
LEMMA NoItemsAnswered ==
  ASSUME activityReply'.fids = <<>>, activityReply'.verdicts = <<>>,
         DOMAIN activity' = DOMAIN activity
  PROVE  AnswerIsTrue /\ LastItemsAreFinal
<1>1. Inserted = {}
  BY DEF Inserted
<1>2. {n \in DOMAIN activityReply'.verdicts : activityReply'.verdicts[n] = "OK"} = {}
  OBVIOUS
<1>3. DOMAIN activityReply'.fids = {}
  OBVIOUS
<1>4. AnswerIsTrue
  BY <1>1, <1>2 DEF AnswerIsTrue
<1>5. LastItemsAreFinal
  BY <1>3 DEF LastItemsAreFinal
<1> QED
  BY <1>4, <1>5

\* A request answered with an error.
LEMMA RefusedOutcome ==
  ASSUME SdepInv, ActivityTransaction, UNCHANGED <<platform, activity>>,
         NEW s \in {422, 500}, activityReply' = Failure(s)
  PROVE  ActivityOutcome
<1>1. /\ ActivityWrites({}, {}) /\ PlatformReplaced({}) /\ ActivitiesReplaced({})
      /\ ReplyTyped
  BY NothingWritten, FailureTyped
<1>2. activityReply'.fids = <<>> /\ activityReply'.verdicts = <<>>
  BY DEF Failure, NoActivityReply
<1>3. AnswerIsTrue /\ LastItemsAreFinal
  BY <1>2, NoItemsAnswered
<1>4. EndedAreReplaced
  BY DEF EndedAreReplaced
<1> QED
  BY <1>1, <1>3, <1>4 DEF ActivityOutcome

\* The new version of a platform that a request makes.
LEMMA PlatformVersion ==
  ASSUME SdepInv, NEW p \in Platforms, NEW name \in Names,
         now' = now + 1, ~Deactivated(platform, p),
         platform' = NewVersion(platform, [fid |-> p, name |-> name,
                                           createdAt |-> now', endedAt |-> NotEnded])
  PROVE  /\ platform' \in Seq(PlatformRow)
         /\ Writes(platform, platform', CurrentVersions(platform, p), now')
         /\ PlatformReplaced(CurrentVersions(platform, p))
         /\ Len(platform') = Len(platform) + 1
         /\ Len(platform') \in DOMAIN platform'
         /\ Len(platform') \in Nat \ {0}
         /\ Len(platform') \notin DOMAIN platform
         /\ IsCurrent(platform'[Len(platform')])
<1> DEFINE row == [fid |-> p, name |-> name, createdAt |-> now', endedAt |-> NotEnded]
<1>1. /\ row \in PlatformRow /\ row.endedAt = NotEnded
      /\ row.fid = p /\ row.createdAt = now'
  BY SdepTypes DEF PlatformRow, NotEnded
<1>2. platform' = NewVersion(platform, row)
  OBVIOUS
<1> HIDE DEF row
<1>3. /\ platform' \in Seq(PlatformRow)
      /\ Len(platform') = Len(platform) + 1
      /\ platform'[Len(platform) + 1] = row
      /\ Writes(platform, platform', CurrentVersions(platform, p), now')
  BY <1>1, <1>2, SdepTypes, PlatformRowStampable, NewVersionWrites
<1>4. /\ DOMAIN platform = 1..Len(platform) /\ DOMAIN platform' = 1..(Len(platform) + 1)
      /\ Len(platform) \in Nat
  BY <1>3, SdepTypes
<1>5. PlatformReplaced(CurrentVersions(platform, p))
  <2>1. \A k \in (DOMAIN platform') \ DOMAIN platform : k = Len(platform) + 1
    BY <1>4
  <2> QED
    BY <1>1, <1>3, <2>1 DEF PlatformReplaced
<1> QED
  BY <1>1, <1>3, <1>4, <1>5 DEF IsCurrent

\* POST /str/activities writes both tables, or nothing.
LEMMA SingleWrites ==
  ASSUME SdepInv, NEW p \in Platforms, NEW name \in Names,
         NEW activityId \in ActivityIds \cup {NoId}, NEW areaId \in AreaIds,
         PostActivity(p, name, activityId, areaId)
  PROVE  ActivityOutcome
<1>0. /\ ActivityTransaction
      /\ now' = now + 1 /\ UNCHANGED <<competentAuthority, area>>
  BY DEF PostActivity, ActivityTransaction, Begin
<1>1. CASE UNCHANGED <<platform, activity>> /\ activityReply' = Failure(422)
  BY <1>0, <1>1, RefusedOutcome
<1>2. CASE UNCHANGED <<platform, activity>> /\ activityReply' = Failure(500)
  BY <1>0, <1>2, RefusedOutcome
<1> DEFINE platformRow == [fid |-> p, name |-> name, createdAt |-> now', endedAt |-> NotEnded]
           row(fid, a) == NewActivity(fid, Len(platform'), a, now')
<1>3. ASSUME ~ActivityRefused(p, activityId, areaId),
             platform' = NewVersion(platform, platformRow),
             NEW a \in CurrentVersions(area, areaId), NEW fid \in ActivityIdFor(activityId),
             activity' = NewVersion(activity, row(fid, a)),
             activityReply' = [status |-> 201, fids |-> <<fid>>,
                               areaIds |-> <<areaId>>, verdicts |-> <<"OK">>]
      PROVE  ActivityOutcome
  <2>1. ReplyTyped
    BY <1>3 DEF ReplyTyped, Verdicts
  <2>2. /\ platform' \in Seq(PlatformRow)
        /\ Writes(platform, platform', CurrentVersions(platform, p), now')
        /\ PlatformReplaced(CurrentVersions(platform, p))
        /\ Len(platform') = Len(platform) + 1
        /\ Len(platform') \in DOMAIN platform'
        /\ Len(platform') \in Nat \ {0}
        /\ IsCurrent(platform'[Len(platform')])
    BY <1>0, <1>3, PlatformVersion DEF ActivityRefused
  <2>3. /\ fid \in ActivityIds /\ ~Deactivated(activity, fid)
        /\ a \in DOMAIN area /\ IsCurrent(area[a]) /\ area[a].fid = areaId
        /\ a \in Nat \ {0}
    <3>1. fid \in ActivityIds /\ ~Deactivated(activity, fid)
      BY <1>3 DEF ActivityIdFor, ActivityRefused, Deactivated
    <3>2. a \in DOMAIN area /\ IsCurrent(area[a]) /\ area[a].fid = areaId
      BY DEF CurrentVersions, Versions
    <3> QED
      BY <3>1, <3>2, SdepTypes
  <2>4. /\ row(fid, a) \in ActivityRow /\ row(fid, a).endedAt = NotEnded
        /\ row(fid, a).fid = fid /\ row(fid, a).createdAt = now'
        /\ row(fid, a).platform = Len(platform') /\ row(fid, a).area = a
    BY <1>0, <2>2, <2>3, SdepTypes DEF ActivityRow, NewActivity, NotEnded
  <2> HIDE DEF row
  <2>5. /\ activity' \in Seq(ActivityRow)
        /\ Len(activity') = Len(activity) + 1
        /\ activity'[Len(activity) + 1] = row(fid, a)
        /\ Writes(activity, activity', CurrentVersions(activity, fid), now')
    BY <1>3, <2>4, SdepTypes, ActivityRowStampable, NewVersionWrites
  <2>6. \A k \in (DOMAIN activity') \ DOMAIN activity : k = Len(activity) + 1
    <3>1. /\ DOMAIN activity = 1..Len(activity) /\ DOMAIN activity' = 1..(Len(activity) + 1)
          /\ Len(activity) \in Nat
      BY <2>5, SdepTypes
    <3> QED
      BY <3>1
  <2>7. \A i \in DOMAIN activity :
          (activity[i].fid = fid /\ IsCurrent(activity[i]))
            => i \in CurrentVersions(activity, fid)
    BY DEF CurrentVersions, Versions
  <2>8. ActivitiesReplaced(CurrentVersions(activity, fid))
    BY <1>0, <2>2, <2>3, <2>4, <2>5, <2>6, <2>7 DEF ActivitiesReplaced
  <2>9. ActivityWrites(CurrentVersions(platform, p), CurrentVersions(activity, fid))
    BY <1>0, <2>2, <2>5 DEF ActivityWrites
  <2>10. /\ Inserted = {Len(activity) + 1}
         /\ activity'[Len(activity) + 1].fid = fid
         /\ area'[activity'[Len(activity) + 1].area].fid = areaId
         /\ IsCurrent(activity'[Len(activity) + 1])
    <3>1. Inserted = {Len(activity) + 1}
      <4>1. /\ DOMAIN activity = 1..Len(activity) /\ DOMAIN activity' = 1..(Len(activity) + 1)
            /\ Len(activity) \in Nat
        BY <2>5, SdepTypes
      <4> QED
        BY <4>1 DEF Inserted
    <3> QED
      BY <1>0, <2>3, <2>4, <2>5, <3>1 DEF IsCurrent
  <2>11. EndedAreReplaced
    <3>1. \A i \in DOMAIN activity :
            (IsCurrent(activity[i]) /\ ~IsCurrent(activity'[i])) => activity[i].fid = fid
      BY <2>5 DEF Writes, CurrentVersions, Versions
    <3> QED
      BY <2>10, <3>1 DEF EndedAreReplaced
  <2>12. AnswerIsTrue
    <3>1. {n \in DOMAIN activityReply'.verdicts : activityReply'.verdicts[n] = "OK"} = {1}
      BY <1>3
    <3>2. Cardinality(Inserted) = 1 /\ Cardinality({1}) = 1
      BY <2>10, FS_Singleton
    <3>3. activityReply'.fids[1] = fid /\ activityReply'.areaIds[1] = areaId
      BY <1>3
    <3> QED
      BY <2>10, <3>1, <3>2, <3>3 DEF AnswerIsTrue
  <2>13. LastItemsAreFinal
    <3>1. /\ DOMAIN activityReply'.fids = {1}
          /\ activityReply'.verdicts[1] = "OK" /\ activityReply'.areaIds[1] = areaId
      BY <1>3
    <3> QED
      BY <2>10, <3>1 DEF LastItemsAreFinal
  <2> QED
    BY <2>1, <2>2, <2>8, <2>9, <2>11, <2>12, <2>13 DEF ActivityOutcome
<1> QED
  BY <1>1, <1>2, <1>3 DEF PostActivity

\* Rows that are ended outside the API.
LEMMA DeactivationWrites ==
  ASSUME SdepInv,
         \/ \E p \in Platforms : DeactivatePlatform(p)
         \/ \E fid \in ActivityIds : DeactivateActivity(fid)
  PROVE  ActivityOutcome
<1>1. /\ ActivityTransaction
      /\ activityReply' = NoActivityReply
  BY DEF DeactivatePlatform, DeactivateActivity
<1>2. /\ now' = now + 1 /\ now' \in Nat /\ UNCHANGED <<competentAuthority, area>>
      /\ ReplyTyped
  BY <1>1, NoReplyTyped, SdepTypes DEF ActivityTransaction, Begin
<1>3. ASSUME NEW p \in Platforms, DeactivatePlatform(p)
      PROVE  /\ DOMAIN activity' = DOMAIN activity
             /\ \E pIds, aIds : /\ ActivityWrites(pIds, aIds)
                                /\ PlatformReplaced(pIds)
                                /\ ActivitiesReplaced(aIds)
  <2> DEFINE ids == CurrentVersions(platform, p)
  <2>1. \A i \in ids : i \in DOMAIN platform /\ IsCurrent(platform[i])
    BY DEF CurrentVersions, Versions
  <2>2. platform' = EndVersions(platform, ids, now') /\ UNCHANGED activity
    BY <1>3 DEF DeactivatePlatform
  <2> HIDE DEF ids
  <2>3. /\ platform' \in Seq(PlatformRow)
        /\ Len(platform') = Len(platform)
        /\ Writes(platform, platform', ids, now')
    BY <1>2, <2>1, <2>2, SdepTypes, PlatformRowStampable, EndVersionsWrites
  <2>4. DOMAIN platform' = DOMAIN platform
    BY <2>3, SdepTypes
  <2>5. Len(activity) \in Nat
    BY SdepTypes
  <2>6. Writes(activity, activity', {}, now')
    BY <2>2, <2>5, NoWrite
  <2>7. ActivityWrites(ids, {})
    BY <1>2, <2>2, <2>3, <2>6, SdepTypes DEF ActivityWrites
  <2>8. PlatformReplaced(ids) /\ ActivitiesReplaced({})
    BY <2>2, <2>4 DEF PlatformReplaced, ActivitiesReplaced
  <2> QED
    BY <2>2, <2>7, <2>8
<1>4. ASSUME NEW fid \in ActivityIds, DeactivateActivity(fid)
      PROVE  /\ DOMAIN activity' = DOMAIN activity
             /\ \E pIds, aIds : /\ ActivityWrites(pIds, aIds)
                                /\ PlatformReplaced(pIds)
                                /\ ActivitiesReplaced(aIds)
  <2>1. PICK i \in CurrentVersions(activity, fid) :
          activity' = EndVersions(activity, CurrentUnder(activity[i].platform, {fid}), now')
    BY <1>4 DEF DeactivateActivity
  <2> DEFINE ids == CurrentUnder(activity[i].platform, {fid})
  <2>2. \A j \in ids : j \in DOMAIN activity /\ IsCurrent(activity[j])
    BY DEF CurrentUnder
  <2>3. activity' = EndVersions(activity, ids, now') /\ UNCHANGED platform
    BY <1>4, <2>1 DEF DeactivateActivity
  <2> HIDE DEF ids
  <2>4. /\ activity' \in Seq(ActivityRow)
        /\ Len(activity') = Len(activity)
        /\ Writes(activity, activity', ids, now')
    BY <1>2, <2>2, <2>3, SdepTypes, ActivityRowStampable, EndVersionsWrites
  <2>5. DOMAIN activity' = DOMAIN activity
    BY <2>4, SdepTypes
  <2>6. Len(platform) \in Nat
    BY SdepTypes
  <2>7. Writes(platform, platform', {}, now')
    BY <2>3, <2>6, NoWrite
  <2>8. ActivityWrites({}, ids)
    BY <1>2, <2>3, <2>4, <2>7, SdepTypes DEF ActivityWrites
  <2>9. PlatformReplaced({}) /\ ActivitiesReplaced(ids)
    BY <2>3, <2>5 DEF PlatformReplaced, ActivitiesReplaced
  <2> QED
    BY <2>5, <2>8, <2>9
<1>5. DOMAIN activity' = DOMAIN activity
      => AnswerIsTrue /\ LastItemsAreFinal /\ EndedAreReplaced
  BY <1>1, NoItemsAnswered DEF NoActivityReply, EndedAreReplaced
<1> QED
  BY <1>2, <1>3, <1>4, <1>5 DEF ActivityOutcome

-----------------------------------------------------------------------------
(***************************************************************************)
(* POST /str/activities/bulk                                               *)
(***************************************************************************)

\* An accepted item has an id and a current area, and no later item its id.
LEMMA AcceptedItem ==
  ASSUME NEW batch \in Batches, NEW fids \in ResolvedIds(batch), NEW i \in DOMAIN batch,
         Verdict(batch, fids, i) = "OK"
  PROVE  /\ fids[i] \in ActivityIds
         /\ ~Deactivated(activity, fids[i])
         /\ CurrentVersions(area, batch[i].areaId) # {}
         /\ \A j \in DOMAIN batch : i < j => fids[j] # fids[i]
<1>1. /\ IsValid(batch[i])
      /\ ~Deactivated(activity, fids[i])
      /\ CurrentVersions(area, batch[i].areaId) # {}
      /\ \A j \in DOMAIN batch : i < j => fids[j] # fids[i]
  BY DEF Verdict
<1>2. batch[i] \in ValidItem
  <2>1. PICK n \in 1..MaxBatch : batch \in [1..n -> ValidItem \cup {InvalidItem}]
    BY DEF Batches
  <2>2. batch[i] \in ValidItem \cup {InvalidItem}
    BY <2>1
  <2> QED
    BY <1>1, <2>2 DEF IsValid
<1>3. batch[i].activityId \in ActivityIds \cup {NoId}
  BY <1>2 DEF ValidItem
<1>4. /\ fids[i] \in ActivityIds \cup {NoId}
      /\ batch[i].activityId = NoId => fids[i] # NoId
      /\ batch[i].activityId # NoId => fids[i] = batch[i].activityId
  BY <1>1 DEF ResolvedIds
<1> QED
  BY <1>1, <1>3, <1>4

\* A finite set of indexes in order: every index is listed, and once.
LEMMA OrderListsOnce ==
  ASSUME NEW batch \in Batches, NEW S, S \subseteq DOMAIN batch, NEW order \in InOrder(S)
  PROVE  /\ order \in Seq(S)
         /\ DOMAIN order \subseteq Nat
         /\ \A m, n \in DOMAIN order : order[m] = order[n] => m = n
         /\ \A i \in S : \E n \in DOMAIN order : order[n] = i
         /\ Len(order) = Cardinality(S)
<1>1. PICK b \in 1..MaxBatch : DOMAIN batch = 1..b
  BY DEF Batches
<1>2. IsFiniteSet(S) /\ S \subseteq Nat
  <2>1. b \in Nat
    BY ActivityConstantsAssumption
  <2> QED
    BY <1>1, <2>1, FS_Interval, FS_Subset
<1>3. Cardinality(S) \in Nat
  BY <1>2, FS_CardinalityType
<1>4. /\ order \in [1..Cardinality(S) -> S]
      /\ \A m, n \in DOMAIN order : m < n => order[m] < order[n]
  BY DEF InOrder
<1>5. order \in Seq(S) /\ DOMAIN order \subseteq Nat
  BY <1>3, <1>4
<1>6. \A m, n \in DOMAIN order : order[m] = order[n] => m = n
  <2> SUFFICES ASSUME NEW m \in DOMAIN order, NEW n \in DOMAIN order, m # n
               PROVE  order[m] # order[n]
    OBVIOUS
  <2>1. /\ m \in Nat /\ n \in Nat
        /\ order[m] \in Nat /\ order[n] \in Nat
        /\ m < n => order[m] < order[n]
        /\ n < m => order[n] < order[m]
    BY <1>2, <1>4, <1>5
  <2> QED
    BY <2>1
<1>7. \A i \in S : \E n \in DOMAIN order : order[n] = i
  <2> DEFINE N == 1..Cardinality(S)
  <2>1. IsFiniteSet(N) /\ Cardinality(N) = Cardinality(S)
    BY <1>3, FS_Interval
  <2>2. order \in [N -> S] /\ DOMAIN order = N
    BY <1>4
  <2> HIDE DEF N
  <2>3. order \in Injection(N, S)
    BY <1>6, <2>2 DEF Injection, IsInjective
  <2>4. order \in Surjection(N, S)
    BY <1>2, <2>1, <2>3, FS_Injection
  <2> QED
    BY <2>2, <2>4 DEF Surjection
<1>8. Len(order) = Cardinality(S)
  BY <1>3, <1>4
<1> QED
  BY <1>5, <1>6, <1>7, <1>8

\* The platform version that a batch is reported under.
LEMMA BatchPlatform ==
  ASSUME SdepInv, NEW p \in Platforms, NEW name \in Names,
         now' = now + 1, ~Deactivated(platform, p),
         platform' = PlatformForBatch(p, name)
  PROVE  /\ platform' \in Seq(PlatformRow)
         /\ \E pIds : /\ Writes(platform, platform', pIds, now')
                      /\ PlatformReplaced(pIds)
<1>1. CASE platform' = platform
  <2>1. Len(platform) \in Nat
    BY SdepTypes
  <2>2. Writes(platform, platform', {}, now')
    BY <1>1, <2>1, NoWrite
  <2>3. PlatformReplaced({})
    BY <1>1 DEF PlatformReplaced
  <2> QED
    BY <1>1, <2>2, <2>3, SdepTypes
<1>2. CASE platform' = NewVersion(platform, [fid |-> p, name |-> name,
                                             createdAt |-> now', endedAt |-> NotEnded])
  BY <1>2, PlatformVersion
<1> QED
  BY <1>1, <1>2 DEF PlatformForBatch

\* The rows of the INSERT.
LEMMA BatchRowsInserted ==
  ASSUME SdepInv, NEW batch \in Batches, NEW fids \in ResolvedIds(batch),
         NEW S, S = {i \in DOMAIN batch : Verdict(batch, fids, i) = "OK"},
         NEW order \in InOrder(S), NEW pid \in Nat \ {0}, now' = now + 1
  PROVE  LET rows == BatchRows(batch, fids, order, pid)
         IN  /\ rows \in Seq(ActivityRow)
             /\ DOMAIN rows = DOMAIN order
             /\ \A n \in DOMAIN order :
                  /\ order[n] \in S
                  /\ rows[n].fid = fids[order[n]]
                  /\ rows[n].platform = pid
                  /\ rows[n].area \in DOMAIN area /\ IsCurrent(area[rows[n].area])
                  /\ area[rows[n].area].fid = batch[order[n]].areaId
                  /\ rows[n].createdAt = now' /\ rows[n].endedAt = NotEnded
<1> DEFINE rows == BatchRows(batch, fids, order, pid)
<1>1. /\ order \in Seq(S) /\ DOMAIN order = 1..Len(order) /\ Len(order) \in Nat
      /\ \A n \in DOMAIN order : order[n] \in S
  BY OrderListsOnce
<1>2. ASSUME NEW n \in DOMAIN order
      PROVE  /\ rows[n] \in ActivityRow
             /\ rows[n].fid = fids[order[n]]
             /\ rows[n].platform = pid
             /\ rows[n].area \in DOMAIN area /\ IsCurrent(area[rows[n].area])
             /\ area[rows[n].area].fid = batch[order[n]].areaId
             /\ rows[n].createdAt = now' /\ rows[n].endedAt = NotEnded
  <2> DEFINE a == CHOOSE a \in CurrentVersions(area, batch[order[n]].areaId) : TRUE
  <2>1. rows[n] = NewActivity(fids[order[n]], pid, a, now')
    BY DEF BatchRows
  <2>2. order[n] \in DOMAIN batch /\ Verdict(batch, fids, order[n]) = "OK"
    BY <1>1
  <2>3. /\ fids[order[n]] \in ActivityIds
        /\ CurrentVersions(area, batch[order[n]].areaId) # {}
    BY <2>2, AcceptedItem
  <2>4. a \in CurrentVersions(area, batch[order[n]].areaId)
    BY <2>3
  <2> HIDE DEF a, rows
  <2>5. /\ a \in DOMAIN area /\ IsCurrent(area[a]) /\ a \in Nat \ {0}
        /\ area[a].fid = batch[order[n]].areaId
    BY <2>4, SdepTypes DEF CurrentVersions, Versions
  <2>6. now' \in Nat \ {0}
    BY SdepTypes
  <2> QED
    BY <2>1, <2>3, <2>5, <2>6 DEF NewActivity, ActivityRow, NotEnded
<1>3. DOMAIN rows = DOMAIN order
  BY DEF BatchRows
<1>4. rows = [n \in 1..Len(order) |-> rows[n]]
  BY <1>1 DEF BatchRows
<1> HIDE DEF rows
<1>5. rows \in Seq(ActivityRow)
  BY <1>1, <1>2, <1>3, <1>4
<1> QED
  BY <1>1, <1>2, <1>3, <1>5 DEF rows

\* POST /str/activities/bulk writes both tables, or nothing.
LEMMA BulkWrites ==
  ASSUME SdepInv, NEW p \in Platforms, NEW name \in Names, NEW batch \in Batches,
         PostActivitiesBulk(p, name, batch)
  PROVE  ActivityOutcome
<1>0. /\ ActivityTransaction
      /\ now' = now + 1 /\ now' \in Nat /\ UNCHANGED <<competentAuthority, area>>
  BY SdepTypes DEF PostActivitiesBulk, ActivityTransaction, Begin
<1>1. CASE UNCHANGED <<platform, activity>> /\ activityReply' = Failure(422)
  BY <1>0, <1>1, RefusedOutcome
<1> DEFINE accepted(fids) == {i \in DOMAIN batch : Verdict(batch, fids, i) = "OK"}
           ended(fids, pid) == CurrentUnder(pid, IdsForVersioning(batch, fids, accepted(fids)))
<1>2. ASSUME ~Deactivated(platform, p),
             platform' = PlatformForBatch(p, name),
             NEW fids \in ResolvedIds(batch), NEW pid \in CurrentVersions(platform', p),
             NEW order \in InOrder(accepted(fids)),
             activity' = EndVersions(activity, ended(fids, pid), now')
                           \o BatchRows(batch, fids, order, pid),
             activityReply' =
               [status |-> BatchStatus(accepted(fids), batch),
                fids |-> fids,
                areaIds |-> [i \in DOMAIN batch |-> batch[i].areaId],
                verdicts |-> [i \in DOMAIN batch |-> Verdict(batch, fids, i)]]
      PROVE  ActivityOutcome
  <2>1. ReplyTyped
    <3>1. PICK b \in 1..MaxBatch : DOMAIN batch = 1..b
      BY DEF Batches
    <3>2. b \in Nat
      BY <3>1, ActivityConstantsAssumption
    <3> DEFINE verdicts == [i \in DOMAIN batch |-> Verdict(batch, fids, i)]
    <3>3. \A i \in DOMAIN batch : Verdict(batch, fids, i) \in Verdicts
      BY DEF Verdict, Verdicts
    <3>4. verdicts \in Seq(Verdicts) /\ Len(verdicts) = b
      BY <3>1, <3>2, <3>3
    <3>5. fids \in Seq(ActivityIds \cup {NoId}) /\ Len(fids) = b
      BY <3>1, <3>2 DEF ResolvedIds
    <3>6. BatchStatus(accepted(fids), batch) \in {200, 201, 422}
      BY DEF BatchStatus
    <3> HIDE DEF verdicts, accepted
    <3> QED
      BY <1>2, <3>4, <3>5, <3>6 DEF ReplyTyped, verdicts
  <2>2. /\ platform' \in Seq(PlatformRow)
        /\ \E pIds : Writes(platform, platform', pIds, now') /\ PlatformReplaced(pIds)
    BY <1>0, <1>2, BatchPlatform
  <2>3. pid \in DOMAIN platform' /\ IsCurrent(platform'[pid]) /\ pid \in Nat \ {0}
    BY <2>2 DEF CurrentVersions, Versions
  <2> DEFINE S == accepted(fids)
             ids == ended(fids, pid)
             rows == BatchRows(batch, fids, order, pid)
  <2>4. /\ rows \in Seq(ActivityRow)
        /\ DOMAIN rows = DOMAIN order
        /\ \A n \in DOMAIN order :
             /\ order[n] \in S
             /\ rows[n].fid = fids[order[n]]
             /\ rows[n].platform = pid
             /\ rows[n].area \in DOMAIN area /\ IsCurrent(area[rows[n].area])
             /\ area[rows[n].area].fid = batch[order[n]].areaId
             /\ rows[n].createdAt = now' /\ rows[n].endedAt = NotEnded
    BY <1>0, <2>3, BatchRowsInserted
  <2>5. /\ \A m, n \in DOMAIN order : order[m] = order[n] => m = n
        /\ \A i \in S : \E n \in DOMAIN order : order[n] = i
        /\ Len(order) = Cardinality(S) /\ order \in Seq(S)
    <3>1. S \subseteq DOMAIN batch /\ order \in InOrder(S)
      OBVIOUS
    <3> HIDE DEF S
    <3> QED
      BY <3>1, OrderListsOnce
  <2>6. \A i \in S : /\ i \in DOMAIN batch
                     /\ ~Deactivated(activity, fids[i])
                     /\ \A j \in DOMAIN batch : i < j => fids[j] # fids[i]
    BY AcceptedItem
  <2>7. \A i \in ids : i \in DOMAIN activity /\ IsCurrent(activity[i])
    BY DEF CurrentUnder
  <2>8. \A i \in DOMAIN activity, k \in S :
           (activity[i].fid = fids[k] /\ activity[i].platform = pid /\ IsCurrent(activity[i]))
             => i \in ids
    BY DEF CurrentUnder, IdsForVersioning
  <2>9. \A i, j \in S : i # j => fids[i] # fids[j]
    <3>1. DOMAIN batch \subseteq Nat
      BY ActivityConstantsAssumption DEF Batches
    <3> SUFFICES ASSUME NEW i \in S, NEW j \in S, i # j
                 PROVE  fids[i] # fids[j]
      OBVIOUS
    <3>2. i \in Nat /\ j \in Nat
      BY <2>6, <3>1
    <3>3. i < j \/ j < i
      BY <3>2
    <3> QED
      BY <2>6, <3>3
  <2> HIDE DEF ids, rows, S
  <2>10. activity' = EndVersions(activity, ids, now') \o rows
    BY <1>2 DEF ids, rows
  <2>11. /\ activity' \in Seq(ActivityRow)
         /\ Len(activity') = Len(activity) + Len(rows)
         /\ Writes(activity, activity', ids, now')
         /\ \A n \in DOMAIN rows :
               /\ Len(activity) + n \in (DOMAIN activity') \ DOMAIN activity
               /\ activity'[Len(activity) + n] = rows[n]
         /\ \A k \in (DOMAIN activity') \ DOMAIN activity :
               \E n \in DOMAIN rows : k = Len(activity) + n /\ activity'[k] = rows[n]
    <3>1. \A n \in DOMAIN rows : rows[n].createdAt = now' /\ rows[n].endedAt = NotEnded
      BY <2>4
    <3>2. activity \in Seq(ActivityRow) /\ Stampable(ActivityRow) /\ now' \in Nat
      BY <1>0, SdepTypes, ActivityRowStampable
    <3> DEFINE t == now'
               new == EndVersions(activity, ids, t) \o rows
    <3>3. t \in Nat /\ \A n \in DOMAIN rows : rows[n].createdAt = t /\ rows[n].endedAt = NotEnded
      BY <3>1, <3>2
    <3> HIDE DEF t
    <3>4. /\ new \in Seq(ActivityRow)
          /\ Len(new) = Len(activity) + Len(rows)
          /\ Writes(activity, new, ids, t)
          /\ \A n \in DOMAIN rows :
                /\ Len(activity) + n \in (DOMAIN new) \ DOMAIN activity
                /\ new[Len(activity) + n] = rows[n]
          /\ \A k \in (DOMAIN new) \ DOMAIN activity :
                \E n \in DOMAIN rows : k = Len(activity) + n /\ new[k] = rows[n]
      BY <2>4, <2>7, <3>2, <3>3, AppendedRowsWrite
    <3>5. activity' = new
      BY <2>10 DEF t
    <3> HIDE DEF new
    <3> QED
      BY <3>4, <3>5 DEF t
  <2>12. ActivitiesReplaced(ids)
    <3> SUFFICES ASSUME NEW k \in (DOMAIN activity') \ DOMAIN activity
                 PROVE  /\ activity'[k].platform \in DOMAIN platform'
                        /\ IsCurrent(platform'[activity'[k].platform])
                        /\ activity'[k].area \in DOMAIN area'
                        /\ IsCurrent(area'[activity'[k].area])
                        /\ ~Deactivated(activity, activity'[k].fid)
                        /\ \A i \in DOMAIN activity :
                             (/\ activity[i].fid = activity'[k].fid
                              /\ activity[i].platform = activity'[k].platform
                              /\ IsCurrent(activity[i])) => i \in ids
                        /\ \A m \in (DOMAIN activity') \ DOMAIN activity :
                             m # k => activity'[m].fid # activity'[k].fid
      BY DEF ActivitiesReplaced
    <3>1. PICK n \in DOMAIN rows : k = Len(activity) + n /\ activity'[k] = rows[n]
      BY <2>11
    <3>2. /\ order[n] \in S
          /\ activity'[k].fid = fids[order[n]]
          /\ activity'[k].platform = pid
          /\ activity'[k].area \in DOMAIN area /\ IsCurrent(area[activity'[k].area])
      BY <2>4, <3>1
    <3>3. ASSUME NEW m \in (DOMAIN activity') \ DOMAIN activity, m # k
          PROVE  activity'[m].fid # activity'[k].fid
      <4>1. PICK o \in DOMAIN rows : m = Len(activity) + o /\ activity'[m] = rows[o]
        BY <2>11
      <4>2. o # n
        BY <3>1, <3>3, <4>1
      <4>3. order[o] \in S /\ order[o] # order[n]
        BY <2>4, <2>5, <4>2
      <4>4. activity'[m].fid = fids[order[o]]
        BY <2>4, <4>1
      <4> QED
        BY <2>9, <3>2, <4>3, <4>4
    <3> QED
      BY <1>0, <2>3, <2>6, <2>8, <3>2, <3>3
  <2>13. /\ activityReply'.fids = fids
         /\ DOMAIN activityReply'.fids = DOMAIN batch
         /\ {n \in DOMAIN activityReply'.verdicts : activityReply'.verdicts[n] = "OK"} = S
         /\ \A n \in DOMAIN batch :
               /\ activityReply'.areaIds[n] = batch[n].areaId
               /\ n \in S <=> activityReply'.verdicts[n] = "OK"
    BY <1>2 DEF S, ResolvedIds
  <2>14. ASSUME NEW k \in Inserted
         PROVE  \E i \in S : /\ activity'[k].fid = fids[i]
                             /\ area'[activity'[k].area].fid = batch[i].areaId
    <3>1. PICK n \in DOMAIN rows : activity'[k] = rows[n]
      BY <2>11 DEF Inserted
    <3> QED
      BY <1>0, <2>4, <3>1
  <2>15. ASSUME NEW i \in S
         PROVE  \E k \in Inserted : /\ activity'[k].fid = fids[i]
                                    /\ area'[activity'[k].area].fid = batch[i].areaId
                                    /\ IsCurrent(activity'[k])
    <3>1. PICK n \in DOMAIN order : order[n] = i
      BY <2>5
    <3> DEFINE k == Len(activity) + n
    <3>2. k \in Inserted /\ activity'[k] = rows[n]
      BY <2>4, <2>11 DEF Inserted
    <3> HIDE DEF k
    <3> QED
      BY <1>0, <2>4, <3>1, <3>2 DEF IsCurrent
  <2>16. EndedAreReplaced
    <3> SUFFICES ASSUME NEW i \in DOMAIN activity,
                        IsCurrent(activity[i]), ~IsCurrent(activity'[i])
                 PROVE  \E k \in Inserted : activity'[k].fid = activity[i].fid
      BY DEF EndedAreReplaced
    <3>1. i \in ids
      BY <2>11 DEF Writes
    <3>2. \E n \in S : activity[i].fid = fids[n]
      BY <3>1 DEF ids, CurrentUnder, IdsForVersioning, S
    <3> QED
      BY <2>15, <3>2
  <2>17. Cardinality(Inserted) = Cardinality(S)
    <3>1. /\ DOMAIN rows = 1..Len(rows) /\ Len(rows) = Len(order) /\ Len(rows) \in Nat
      <4>1. DOMAIN rows = 1..Len(rows) /\ Len(rows) \in Nat
        BY <2>4
      <4>2. DOMAIN order = 1..Len(order) /\ Len(order) \in Nat
        BY <2>5
      <4>3. 1..Len(rows) = 1..Len(order)
        BY <2>4, <4>1, <4>2
      <4>4. Len(rows) = Len(order)
        <5> DEFINE r == Len(rows)
                   o == Len(order)
        <5>1. r \in Nat /\ o \in Nat /\ 1..r = 1..o
          BY <4>1, <4>2, <4>3
        <5> HIDE DEF r, o
        <5>2. ~(r < o) /\ ~(o < r)
          <6>1. r < o => o \in 1..o /\ o \notin 1..r
            BY <5>1
          <6>2. o < r => r \in 1..r /\ r \notin 1..o
            BY <5>1
          <6> QED
            BY <5>1, <6>1, <6>2
        <5> QED
          BY <5>1, <5>2 DEF r, o
      <4> QED
        BY <4>1, <4>4
    <3>2. /\ Len(activity) \in Nat /\ DOMAIN activity = 1..Len(activity)
          /\ DOMAIN activity' = 1..(Len(activity) + Len(rows))
      BY <2>11, SdepTypes
    <3>3. Inserted = (Len(activity) + 1)..(Len(activity) + Len(rows))
      BY <3>1, <3>2 DEF Inserted
    <3>4. Cardinality(Inserted) = Len(rows)
      <4> DEFINE a == Len(activity) + 1
                 b == Len(activity) + Len(rows)
      <4>1. a \in Int /\ b \in Int /\ (IF a > b THEN 0 ELSE b - a + 1) = Len(rows)
        BY <3>1, <3>2
      <4>2. Inserted = a..b
        BY <3>3
      <4> HIDE DEF a, b
      <4>3. Cardinality(a..b) = IF a > b THEN 0 ELSE b - a + 1
        BY <4>1, FS_Interval
      <4> QED
        BY <4>1, <4>2, <4>3
    <3> QED
      BY <2>5, <3>1, <3>4
  <2>18. AnswerIsTrue
    <3> DEFINE OK == {n \in DOMAIN activityReply'.verdicts :
                        activityReply'.verdicts[n] = "OK"}
    <3>1. OK = S /\ Cardinality(Inserted) = Cardinality(OK)
      BY <2>13, <2>17
    <3>2. ASSUME NEW n \in OK
          PROVE  \E k \in Inserted :
                   /\ activity'[k].fid = activityReply'.fids[n]
                   /\ area'[activity'[k].area].fid = activityReply'.areaIds[n]
                   /\ IsCurrent(activity'[k])
      <4>1. n \in S /\ n \in DOMAIN batch
        BY <2>6, <3>1
      <4>2. activityReply'.fids[n] = fids[n] /\ activityReply'.areaIds[n] = batch[n].areaId
        BY <2>13, <4>1
      <4> QED
        BY <2>15, <4>1, <4>2
    <3> QED
      BY <3>1, <3>2 DEF AnswerIsTrue
  <2>19. LastItemsAreFinal
    <3> SUFFICES ASSUME NEW n \in DOMAIN batch,
                        \A m \in DOMAIN batch : m > n => fids[m] # fids[n]
                 PROVE  /\ n \in S => \A k \in Inserted :
                                        activity'[k].fid = fids[n] =>
                                          area'[activity'[k].area].fid = batch[n].areaId
                        /\ n \notin S => CurrentVersions(activity', fids[n])
                                            = CurrentVersions(activity, fids[n])
      BY <2>13 DEF LastItemsAreFinal, IsLastOfItsId
    <3>1. ASSUME NEW i \in S, fids[i] = fids[n]
          PROVE  i = n
      <4>1. i \in Nat /\ n \in Nat
        BY <2>6, ActivityConstantsAssumption DEF Batches
      <4>2. ~(i < n) /\ ~(i > n)
        BY <2>6, <3>1
      <4> QED
        BY <4>1, <4>2
    <3>2. ASSUME n \in S, NEW k \in Inserted, activity'[k].fid = fids[n]
          PROVE  area'[activity'[k].area].fid = batch[n].areaId
      BY <2>14, <3>1, <3>2
    <3>3. ASSUME n \notin S
          PROVE  CurrentVersions(activity', fids[n]) = CurrentVersions(activity, fids[n])
      <4>1. \A i \in S : fids[i] # fids[n]
        BY <3>1, <3>3
      <4>2. \A k \in Inserted : activity'[k].fid # fids[n]
        BY <2>14, <4>1
      <4>3. \A i \in ids : activity[i].fid # fids[n]
        BY <4>1 DEF ids, CurrentUnder, IdsForVersioning, S
      <4>4. DOMAIN activity \subseteq DOMAIN activity'
        BY <2>11, SdepTypes
      <4>5. \A i \in DOMAIN activity :
               /\ activity'[i].fid = activity[i].fid
               /\ activity[i].fid = fids[n] => activity'[i] = activity[i]
        BY <2>11, <4>3 DEF Writes
      <4> QED
        BY <4>2, <4>4, <4>5 DEF CurrentVersions, Versions, Inserted
    <3> QED
      BY <3>2, <3>3
  <2> QED
    BY <1>0, <2>1, <2>2, <2>11, <2>12, <2>16, <2>18, <2>19
    DEF ActivityWrites, ActivityOutcome
<1> QED
  BY <1>1, <1>2 DEF PostActivitiesBulk

\* Every activity request ends current versions and appends rows that take
\* their place; nothing else.
LEMMA ActivityStepWrites ==
  ASSUME SdepInv, ActivityRequest
  PROVE  ActivityOutcome
<1>1. CASE \E p \in Platforms, name \in Names,
              activityId \in ActivityIds \cup {NoId}, areaId \in AreaIds :
                PostActivity(p, name, activityId, areaId)
  BY <1>1, SingleWrites
<1>2. CASE \E p \in Platforms, name \in Names, batch \in Batches :
              PostActivitiesBulk(p, name, batch)
  BY <1>2, BulkWrites
<1>3. CASE \/ \E p \in Platforms : DeactivatePlatform(p)
           \/ \E fid \in ActivityIds : DeactivateActivity(fid)
  BY <1>3, DeactivationWrites
<1> QED
  BY <1>1, <1>2, <1>3 DEF ActivityRequest

-----------------------------------------------------------------------------
(***************************************************************************)
(* Steps of both sides have one shape.                                     *)
(***************************************************************************)
SdepWrites(areaIds, pIds, aIds) ==
  /\ now' = now + 1
  /\ area' \in Seq(AreaRow)
  /\ platform' \in Seq(PlatformRow)
  /\ activity' \in Seq(ActivityRow)
  /\ Writes(area, area', areaIds, now')
  /\ Writes(platform, platform', pIds, now')
  /\ Writes(activity, activity', aIds, now')
  /\ PlatformReplaced(pIds)
  /\ ActivitiesReplaced(aIds)

\* The steps of the composition have it.
LEMMA SdepStepWrites ==
  ASSUME SdepInv, Next
  PROVE  ReplyTyped /\ \E areaIds, pIds, aIds : SdepWrites(areaIds, pIds, aIds)
<1>0. /\ Len(area) \in Nat /\ Len(platform) \in Nat /\ Len(activity) \in Nat
  BY SdepTypes
<1>1. CASE AreaRequest /\ activityReply' = NoActivityReply /\ UNCHANGED <<platform, activity>>
  <2>1. PICK caIds, areaIds : AreaWrites(caIds, areaIds)
    BY <1>1, AreaStepWrites DEF SdepInv, AreaNext
  <2>2. Writes(platform, platform', {}, now') /\ Writes(activity, activity', {}, now')
    BY <1>0, <1>1, NoWrite
  <2>3. PlatformReplaced({}) /\ ActivitiesReplaced({})
    BY <1>1 DEF PlatformReplaced, ActivitiesReplaced
  <2>4. SdepWrites(areaIds, {}, {})
    BY <1>1, <2>1, <2>2, <2>3, SdepTypes DEF SdepWrites, AreaWrites
  <2> QED
    BY <1>1, <2>4, NoReplyTyped
<1>2. CASE ActivityRequest
  <2>1. ReplyTyped
    BY <1>2, ActivityStepWrites DEF ActivityOutcome
  <2>2. PICK pIds, aIds : /\ ActivityWrites(pIds, aIds)
                          /\ PlatformReplaced(pIds)
                          /\ ActivitiesReplaced(aIds)
    BY <1>2, ActivityStepWrites DEF ActivityOutcome
  <2>3. Writes(area, area', {}, now') /\ area' \in Seq(AreaRow)
    BY <1>0, <2>2, NoWrite, SdepTypes DEF ActivityWrites
  <2>4. SdepWrites({}, pIds, aIds)
    BY <2>2, <2>3 DEF SdepWrites, ActivityWrites
  <2> QED
    BY <2>1, <2>4
<1> QED
  BY <1>1, <1>2 DEF Next

\* An activity keeps its id, its references and its creation time.
LEMMA ActivityKept ==
  ASSUME SdepInv, NEW areaIds, NEW pIds, NEW aIds, SdepWrites(areaIds, pIds, aIds),
         NEW i \in DOMAIN activity
  PROVE  /\ i \in DOMAIN activity'
         /\ activity'[i].fid = activity[i].fid
         /\ activity'[i].platform = activity[i].platform
         /\ activity'[i].area = activity[i].area
         /\ activity'[i].createdAt = activity[i].createdAt
<1>1. activity[i] \in ActivityRow
  BY SdepTypes
<1>2. activity'[i] = activity[i] \/ activity'[i] = [activity[i] EXCEPT !.endedAt = now']
  BY DEF SdepWrites, Writes
<1>3. i \in DOMAIN activity'
  BY SdepTypes DEF SdepWrites, Writes
<1> QED
  BY <1>1, <1>2, <1>3 DEF ActivityRow

\* References of activities stay valid, and new ones are.
LEMMA ReferencesKept ==
  ASSUME SdepInv, NEW areaIds, NEW pIds, NEW aIds, SdepWrites(areaIds, pIds, aIds),
         NEW i \in DOMAIN activity'
  PROVE  /\ activity'[i].platform \in DOMAIN platform'
         /\ activity'[i].area \in DOMAIN area'
<1>1. CASE i \in DOMAIN activity
  <2>1. /\ activity[i].platform \in DOMAIN platform
        /\ activity[i].area \in DOMAIN area
    BY <1>1 DEF SdepInv, TypeOK
  <2>2. DOMAIN platform \subseteq DOMAIN platform' /\ DOMAIN area \subseteq DOMAIN area'
    BY SdepTypes DEF SdepWrites, Writes
  <2> QED
    BY <1>1, <2>1, <2>2, ActivityKept
<1>2. CASE i \notin DOMAIN activity
  BY <1>2 DEF SdepWrites, ActivitiesReplaced
<1> QED
  BY <1>1, <1>2

\* The versions of platforms still follow each other without a gap.
LEMMA PlatformStacks ==
  ASSUME SdepInv, NEW areaIds, NEW pIds, NEW aIds, SdepWrites(areaIds, pIds, aIds)
  PROVE  PlatformTimelinesKept'
<1>1. /\ now \in Nat /\ now' \in Nat /\ now < now'
      /\ platform \in Seq(PlatformRow) /\ platform' \in Seq(PlatformRow)
      /\ Writes(platform, platform', pIds, now')
      /\ Stacked(platform) /\ Gapless(platform) /\ ProperIntervals(platform, now)
      /\ PlatformReplaced(pIds)
  BY SdepTypes DEF SdepWrites
<1>2. ASSUME NEW i \in DOMAIN platform', NEW k \in DOMAIN platform',
             i < k, k \notin DOMAIN platform, platform'[i].fid = platform'[k].fid
      PROVE  /\ i \in DOMAIN platform
             /\ i \in pIds \/ ~IsCurrent(platform[i])
             /\ \E c \in DOMAIN platform : /\ c \in pIds
                                           /\ IsCurrent(platform[c])
                                           /\ platform[c].fid = platform[i].fid
  <2>1. /\ k = Len(platform) + 1
        /\ ~Deactivated(platform, platform'[k].fid)
        /\ CurrentVersions(platform, platform'[k].fid) \subseteq pIds
    BY <1>1, <1>2 DEF PlatformReplaced
  <2>2. i \in DOMAIN platform
    BY <1>1, <1>2, <2>1
  <2>3. platform'[i].fid = platform[i].fid
    BY <1>1, <2>2 DEF Writes
  <2>4. i \in Versions(platform, platform'[k].fid)
    BY <1>2, <2>2, <2>3 DEF Versions
  <2>5. i \in pIds \/ ~IsCurrent(platform[i])
    BY <2>1, <2>4 DEF CurrentVersions
  <2>6. PICK c \in CurrentVersions(platform, platform'[k].fid) : TRUE
    BY <2>1, <2>4 DEF Deactivated, ExistsAny
  <2>7. c \in DOMAIN platform /\ c \in pIds /\ IsCurrent(platform[c])
        /\ platform[c].fid = platform[i].fid
    BY <1>2, <2>1, <2>3, <2>6 DEF CurrentVersions, Versions
  <2> QED
    BY <2>2, <2>5, <2>7
<1>3. Stacked(platform')
  BY <1>1, <1>2, PlatformRowStampable, WritesStacked
<1>4. Gapless(platform')
  BY <1>1, <1>2, PlatformRowStampable, WritesGapless
<1> QED
  BY <1>3, <1>4 DEF PlatformTimelinesKept, PlatformVersionsStacked, NoPlatformGap,
     Stacked, Gapless, IsCurrent

\* Under one platform version the versions of an id still follow each other.
LEMMA SubmissionsStack ==
  ASSUME SdepInv, NEW areaIds, NEW pIds, NEW aIds, SdepWrites(areaIds, pIds, aIds)
  PROVE  SubmissionsStacked'
<1> SUFFICES ASSUME NEW i \in DOMAIN activity', NEW j \in DOMAIN activity',
                    i < j, activity'[i].fid = activity'[j].fid,
                    activity'[i].platform = activity'[j].platform
             PROVE  /\ ~IsCurrent(activity'[i])
                    /\ activity'[i].endedAt <= activity'[j].createdAt
  BY DEF SubmissionsStacked, IsCurrent
<1>0. /\ now \in Nat /\ now' = now + 1
      /\ activity \in Seq(ActivityRow) /\ activity' \in Seq(ActivityRow)
      /\ Writes(activity, activity', aIds, now')
      /\ ProperIntervals(activity, now)
      /\ DOMAIN activity = 1..Len(activity) /\ Len(activity) \in Nat
      /\ DOMAIN activity' = 1..Len(activity') /\ Len(activity') \in Nat
  BY SdepTypes DEF SdepWrites
<1>1. CASE j \in DOMAIN activity
  <2>1. i \in DOMAIN activity
    BY <1>0, <1>1
  <2>2. ~IsCurrent(activity[i]) /\ activity[i].endedAt <= activity[j].createdAt
    BY <1>1, <2>1, ActivityKept DEF SdepInv, SubmissionsStacked
  <2>3. activity'[i] = activity[i]
    BY <1>0, <2>1, <2>2 DEF Writes
  <2> QED
    BY <1>1, <2>2, <2>3, ActivityKept
<1>2. CASE j \notin DOMAIN activity
  <2>1. i \in DOMAIN activity
    BY <1>2 DEF SdepWrites, ActivitiesReplaced
  <2>2. i \in aIds \/ ~IsCurrent(activity[i])
    BY <1>2, <2>1, ActivityKept DEF SdepWrites, ActivitiesReplaced
  <2>3. activity'[j].createdAt = now'
    BY <1>0, <1>2 DEF Writes
  <2>4. CASE i \in aIds
    <3>1. activity'[i].endedAt = now'
      BY <1>0, <2>1, <2>4 DEF Writes
    <3>2. now' # NotEnded /\ now' <= now'
      BY <1>0 DEF NotEnded
    <3> QED
      BY <2>3, <3>1, <3>2 DEF IsCurrent
  <2>5. CASE i \notin aIds
    <3>1. activity'[i] = activity[i] /\ ~IsCurrent(activity[i])
      BY <1>0, <2>1, <2>2, <2>5 DEF Writes
    <3>2. activity[i].endedAt \in Nat /\ activity[i].endedAt <= now
      <4>1. activity[i] \in ActivityRow
        BY <1>0, <2>1
      <4>2. activity[i].endedAt <= now
        BY <1>0, <2>1, <3>1 DEF ProperIntervals
      <4> QED
        BY <4>1, <4>2 DEF ActivityRow
    <3> QED
      BY <1>0, <2>3, <3>1, <3>2 DEF IsCurrent
  <2> QED
    BY <2>4, <2>5
<1> QED
  BY <1>1, <1>2

\* What an activity refers to was in force when it was reported.
LEMMA ReportsStayInForce ==
  ASSUME SdepInv, AreaInv',
         NEW areaIds, NEW pIds, NEW aIds, SdepWrites(areaIds, pIds, aIds),
         ProperIntervals(platform', now')
  PROVE  ReportedUnderVersionsInForce'
<1> SUFFICES ASSUME NEW i \in DOMAIN activity'
             PROVE  /\ InForceAt(area'[activity'[i].area], activity'[i].createdAt)
                    /\ InForceAt(platform'[activity'[i].platform], activity'[i].createdAt)
  BY DEF ReportedUnderVersionsInForce, InForceAt, IsCurrent
<1>0. /\ now \in Nat /\ now' = now + 1
      /\ area \in Seq(AreaRow) /\ area' \in Seq(AreaRow)
      /\ platform \in Seq(PlatformRow) /\ platform' \in Seq(PlatformRow)
      /\ activity \in Seq(ActivityRow)
      /\ Writes(area, area', areaIds, now') /\ Writes(platform, platform', pIds, now')
      /\ Writes(activity, activity', aIds, now')
      /\ ProperIntervals(activity, now)
  BY SdepTypes DEF SdepWrites
<1>1. CASE i \in DOMAIN activity
  <2>1. /\ activity[i].createdAt \in Nat /\ activity[i].createdAt < now'
        /\ now' \in Nat
    <3>1. activity[i] \in ActivityRow
      BY <1>0, <1>1
    <3>2. activity[i].createdAt <= now
      BY <1>0, <1>1 DEF ProperIntervals
    <3>3. activity[i].createdAt \in Nat
      BY <3>1 DEF ActivityRow
    <3> QED
      BY <1>0, <3>2, <3>3
  <2>2. /\ activity[i].platform \in DOMAIN platform
        /\ activity[i].area \in DOMAIN area
        /\ InForceAt(area[activity[i].area], activity[i].createdAt)
        /\ InForceAt(platform[activity[i].platform], activity[i].createdAt)
    BY <1>1 DEF SdepInv, TypeOK, ReportedUnderVersionsInForce
  <2>3. InForceAt(area'[activity[i].area], activity[i].createdAt)
    BY <1>0, <2>1, <2>2, AreaRowStampable, InForceSurvives
  <2>4. InForceAt(platform'[activity[i].platform], activity[i].createdAt)
    BY <1>0, <2>1, <2>2, PlatformRowStampable, InForceSurvives
  <2> QED
    BY <1>1, <2>3, <2>4, ActivityKept
<1>2. CASE i \notin DOMAIN activity
  <2>1. /\ activity'[i].platform \in DOMAIN platform'
        /\ activity'[i].area \in DOMAIN area'
        /\ IsCurrent(platform'[activity'[i].platform])
        /\ IsCurrent(area'[activity'[i].area])
    BY <1>2 DEF SdepWrites, ActivitiesReplaced
  <2>2. activity'[i].createdAt = now'
    BY <1>0, <1>2 DEF Writes
  <2>3. /\ platform'[activity'[i].platform].createdAt <= now'
        /\ area'[activity'[i].area].createdAt <= now'
    BY <2>1 DEF AreaInv, ProperIntervals
  <2> QED
    BY <2>1, <2>2, <2>3 DEF InForceAt
<1> QED
  BY <1>1, <1>2

\* A step of that shape keeps the invariant, if the area side keeps its own.
LEMMA SdepWritesInv ==
  ASSUME SdepInv, AreaInv', ReplyTyped,
         NEW areaIds, NEW pIds, NEW aIds, SdepWrites(areaIds, pIds, aIds)
  PROVE  SdepInv'
<1>1. /\ now \in Nat /\ now' \in Nat /\ now < now'
      /\ platform' \in Seq(PlatformRow) /\ activity' \in Seq(ActivityRow)
  BY SdepTypes DEF SdepWrites
<1>2. TypeOK'
  BY <1>1, ReferencesKept DEF TypeOK, AreaInv, ReplyTyped
<1>3. ProperIntervals(platform', now') /\ ProperIntervals(activity', now')
  BY <1>1, SdepTypes, PlatformRowStampable, ActivityRowStampable,
     WritesProperIntervals DEF SdepWrites
<1>4. PlatformTimelinesKept' /\ SubmissionsStacked' /\ ReportedUnderVersionsInForce'
  BY <1>3, PlatformStacks, SubmissionsStack, ReportsStayInForce
<1> QED
  BY <1>2, <1>3, <1>4 DEF SdepInv, ProperIntervals, IsCurrent

LEMMA SdepStepInv ==
  ASSUME SdepInv, [Next]_vars
  PROVE  SdepInv'
<1>1. AreaInv'
  BY StepIsAreaStep, AreaStepInv DEF SdepInv
<1>2. CASE UNCHANGED vars
  BY <1>1, <1>2 DEF vars, areaVars, activityVars, SdepInv, TypeOK, AreaTypeOK,
     PlatformTimelinesKept, PlatformVersionsStacked, NoPlatformGap, SubmissionsStacked,
     ReportedUnderVersionsInForce, ProperIntervals, Stacked, Gapless, InForceAt, IsCurrent
<1>3. CASE Next
  BY <1>1, <1>3, SdepStepWrites, SdepWritesInv
<1> QED
  BY <1>2, <1>3

-----------------------------------------------------------------------------
(***************************************************************************)
(* The properties                                                          *)
(***************************************************************************)

LEMMA SdepInitInv == Init => SdepInv
<1> SUFFICES ASSUME Init PROVE SdepInv
  OBVIOUS
<1>1. AreaInv
  BY AreaInitInv DEF Init
<1>2. /\ platform = <<>> /\ activity = <<>> /\ activityReply = NoActivityReply
      /\ area = <<>>
  BY DEF Init, ActivityInit, AreaInit
<1> QED
  BY <1>1, <1>2 DEF SdepInv, TypeOK, AreaInv, NoActivityReply, PlatformTimelinesKept,
     PlatformVersionsStacked, NoPlatformGap, SubmissionsStacked,
     ReportedUnderVersionsInForce, ProperIntervals, Stacked, Gapless

\* The invariant of the whole system holds in every reachable state.
THEOREM SdepInvariant == Spec => []SdepInv
BY SdepInitInv, SdepStepInv, PTL DEF Spec

\* All four tables hold well-formed rows, the three foreign keys refer to
\* rows, and every answer has a verdict for each item.
THEOREM SdepTypeCorrect == Spec => []TypeOK
BY SdepInvariant, PTL DEF SdepInv

\* At most one version of a platform is current, versions never overlap and
\* leave no gap, whichever of the two endpoints made them.
THEOREM PlatformTimelines == Spec => []PlatformTimelinesKept
BY SdepInvariant, PTL DEF SdepInv

\* What the bulk flow relies on: an activity id has one current version per
\* platform version.
THEOREM Submissions == Spec => []SubmissionsStacked
BY SdepInvariant, PTL DEF SdepInv

\* Every activity was reported under versions that were in force.
THEOREM ReportedInForce == Spec => []ReportedUnderVersionsInForce
BY SdepInvariant, PTL DEF SdepInv

\* Every current activity is in the list of exactly one authority.
THEOREM ActivityReach == Spec => []EveryActivityReachesOneAuthority
<1>1. SdepInv => EveryActivityReachesOneAuthority
  <2> SUFFICES ASSUME SdepInv, NEW i \in DOMAIN activity, IsCurrent(activity[i])
               PROVE  \E ca \in CompetentAuthorities :
                        /\ i \in ActivitiesOf(ca)
                        /\ \A other \in CompetentAuthorities \ {ca} : i \notin ActivitiesOf(other)
    BY DEF EveryActivityReachesOneAuthority
  <2> DEFINE ca == OwnerOf(activity[i].area)
  <2>1. /\ activity[i].area \in DOMAIN area
        /\ competentAuthority \in Seq(CompetentAuthorityRow)
    BY DEF SdepInv, TypeOK, AreaTypeOK
  <2>2. area[activity[i].area].competentAuthority \in DOMAIN competentAuthority
    BY <2>1 DEF SdepInv, TypeOK, AreaTypeOK
  <2>3. ca \in CompetentAuthorities
    <3> DEFINE o == area[activity[i].area].competentAuthority
    <3>1. competentAuthority[o] \in CompetentAuthorityRow
      BY <2>1, <2>2
    <3> QED
      BY <3>1 DEF OwnerOf, CompetentAuthorityRow
  <2> QED
    BY <2>3 DEF ActivitiesOf
<1> QED
  BY <1>1, SdepInvariant, PTL

\* No request of either side rewrites the history of a table.
THEOREM SdepHistory == Spec => HistoryKept
<1>1. SdepInv /\ [Next]_vars
        => [/\ Continues(competentAuthority, competentAuthority')
            /\ Continues(area, area')
            /\ Continues(platform, platform')
            /\ Continues(activity, activity')]_vars
  <2> SUFFICES ASSUME SdepInv, Next
               PROVE  /\ Continues(competentAuthority, competentAuthority')
                      /\ Continues(area, area')
                      /\ Continues(platform, platform')
                      /\ Continues(activity, activity')
    OBVIOUS
  <2>1. PICK areaIds, pIds, aIds : SdepWrites(areaIds, pIds, aIds)
    BY SdepStepWrites
  <2>2. /\ Continues(area, area') /\ Continues(platform, platform')
        /\ Continues(activity, activity')
    BY <2>1, WritesContinue DEF SdepWrites
  <2>3. Continues(competentAuthority, competentAuthority')
    <3>1. AreaInv /\ AreaNext
      BY ActivityRequestIsOther DEF SdepInv, Next, AreaNext
    <3>2. PICK caIds, ids : AreaWrites(caIds, ids)
      BY <3>1, AreaStepWrites
    <3> QED
      BY <3>2, WritesContinue DEF AreaWrites
  <2> QED
    BY <2>2, <2>3
<1> QED
  BY <1>1, SdepInvariant, PTL DEF Spec, HistoryKept

\* A functional id of any kind whose versions have all ended stays so.
THEOREM SdepResurrection == Spec => NoResurrection
<1>1. SdepInv /\ [Next]_vars
        => [/\ NeverResurrects(competentAuthority, competentAuthority', CompetentAuthorities)
            /\ NeverResurrects(area, area', AreaIds)
            /\ NeverResurrects(platform, platform', Platforms)
            /\ NeverResurrects(activity, activity', ActivityIds)]_vars
  <2> SUFFICES ASSUME SdepInv, Next
               PROVE  /\ NeverResurrects(competentAuthority, competentAuthority',
                                         CompetentAuthorities)
                      /\ NeverResurrects(area, area', AreaIds)
                      /\ NeverResurrects(platform, platform', Platforms)
                      /\ NeverResurrects(activity, activity', ActivityIds)
    OBVIOUS
  <2>1. PICK areaIds, pIds, aIds : SdepWrites(areaIds, pIds, aIds)
    BY SdepStepWrites
  <2>2. \A fid : Deactivated(platform, fid) => Deactivated(platform', fid)
    BY <2>1, SdepTypes, WritesNeverResurrect DEF SdepWrites, PlatformReplaced
  <2>3. \A fid : Deactivated(activity, fid) => Deactivated(activity', fid)
    BY <2>1, SdepTypes, WritesNeverResurrect DEF SdepWrites, ActivitiesReplaced
  <2>4. /\ \A fid : Deactivated(competentAuthority, fid) => Deactivated(competentAuthority', fid)
        /\ \A fid : Deactivated(area, fid) => Deactivated(area', fid)
    <3>1. AreaInv /\ AreaNext
      BY ActivityRequestIsOther DEF SdepInv, Next, AreaNext
    <3>2. PICK caIds, ids :
             /\ AreaWrites(caIds, ids)
             /\ \A k \in (DOMAIN competentAuthority') \ DOMAIN competentAuthority :
                   ~Deactivated(competentAuthority, competentAuthority'[k].fid)
             /\ \A k \in (DOMAIN area') \ DOMAIN area : ~Deactivated(area, area'[k].fid)
      BY <3>1, AreaStepWrites
    <3>3. /\ competentAuthority \in Seq(CompetentAuthorityRow)
          /\ competentAuthority' \in Seq(CompetentAuthorityRow)
          /\ area \in Seq(AreaRow) /\ area' \in Seq(AreaRow)
          /\ Writes(competentAuthority, competentAuthority', caIds, now')
          /\ Writes(area, area', ids, now')
      BY <3>1, <3>2 DEF AreaInv, AreaTypeOK, AreaWrites
    <3>4. \A fid : Deactivated(competentAuthority, fid) => Deactivated(competentAuthority', fid)
      BY <3>2, <3>3, WritesNeverResurrect
    <3>5. \A fid : Deactivated(area, fid) => Deactivated(area', fid)
      BY <3>2, <3>3, WritesNeverResurrect
    <3> QED
      BY <3>4, <3>5
  <2> QED
    BY <2>2, <2>3, <2>4 DEF NeverResurrects
<1> QED
  BY <1>1, SdepInvariant, PTL DEF Spec, NoResurrection

\* What an answer says of the step, for area requests too.
LEMMA SdepStepAnswers ==
  ASSUME SdepInv, Next
  PROVE  EndedAreReplaced /\ AnswerIsTrue /\ LastItemsAreFinal
<1>1. CASE AreaRequest /\ activityReply' = NoActivityReply /\ UNCHANGED <<platform, activity>>
  <2>1. activityReply'.fids = <<>> /\ activityReply'.verdicts = <<>>
    BY <1>1 DEF NoActivityReply
  <2>2. EndedAreReplaced
    BY <1>1 DEF EndedAreReplaced
  <2> QED
    BY <1>1, <2>1, <2>2, NoItemsAnswered
<1>2. CASE ActivityRequest
  BY <1>2, ActivityStepWrites DEF ActivityOutcome
<1> QED
  BY <1>1, <1>2 DEF Next

\* No request ends an activity without a new version of it.
THEOREM SdepReplacement == Spec => EndsOnlyByReplacement
<1>1. SdepInv /\ [Next]_vars => [EndedAreReplaced]_vars
  BY SdepStepAnswers
<1> QED
  BY <1>1, SdepInvariant, PTL DEF Spec, EndsOnlyByReplacement

\* The accepted items of an answer are exactly the rows that were inserted.
THEOREM SdepAnswers == Spec => AnswerMatchesStore
<1>1. SdepInv /\ [Next]_vars => [AnswerIsTrue]_vars
  BY SdepStepAnswers
<1> QED
  BY <1>1, SdepInvariant, PTL DEF Spec, AnswerMatchesStore

\* Among the items of a batch with one id, the last decides alone.
THEOREM SdepLastItem == Spec => LastItemDecides
<1>1. SdepInv /\ [Next]_vars => [LastItemsAreFinal]_vars
  BY SdepStepAnswers
<1> QED
  BY <1>1, SdepInvariant, PTL DEF Spec, LastItemDecides

-----------------------------------------------------------------------------
(***************************************************************************)
(* While platforms use the single endpoint only                            *)
(***************************************************************************)

\* The versions of an activity id, whoever reported them, still follow each
\* other when one row is inserted and every current version of its id ends.
LEMMA ActivityReVersioned ==
  ASSUME SdepInv, ActivityVersionsStacked, now' = now + 1,
         NEW row \in ActivityRow, row.endedAt = NotEnded, row.createdAt = now',
         activity' = NewVersion(activity, row)
  PROVE  ActivityVersionsStacked'
<1>1. /\ activity' \in Seq(ActivityRow)
      /\ Len(activity') = Len(activity) + 1
      /\ activity'[Len(activity) + 1] = row
      /\ Writes(activity, activity', CurrentVersions(activity, row.fid), now')
  BY SdepTypes, ActivityRowStampable, NewVersionWrites
<1> DEFINE ids == CurrentVersions(activity, row.fid)
<1>2. ASSUME NEW i \in DOMAIN activity', NEW k \in DOMAIN activity',
             i < k, k \notin DOMAIN activity, activity'[i].fid = activity'[k].fid
      PROVE  i \in DOMAIN activity /\ (i \in ids \/ ~IsCurrent(activity[i]))
  <2>1. i \in DOMAIN activity /\ activity[i].fid = row.fid
    BY <1>1, <1>2, SdepTypes, OneRowAppended
  <2> QED
    BY <2>1 DEF CurrentVersions, Versions
<1>3. /\ now \in Nat /\ now' \in Nat /\ now < now'
      /\ activity \in Seq(ActivityRow) /\ ProperIntervals(activity, now)
      /\ Stacked(activity)
  BY SdepTypes DEF ActivityVersionsStacked
<1> HIDE DEF ids
<1>4. Writes(activity, activity', ids, now')
  BY <1>1 DEF ids
<1>5. Stacked(activity')
  BY <1>1, <1>2, <1>3, <1>4, ActivityRowStampable, WritesStacked
<1> QED
  BY <1>5 DEF ActivityVersionsStacked, Stacked, IsCurrent

\* They do when some of them end and nothing is inserted.
LEMMA ActivityEnded ==
  ASSUME SdepInv, ActivityVersionsStacked, now' = now + 1,
         NEW ids, \A i \in ids : i \in DOMAIN activity /\ IsCurrent(activity[i]),
         activity' = EndVersions(activity, ids, now')
  PROVE  ActivityVersionsStacked'
<1>1. /\ now \in Nat /\ now' \in Nat /\ now < now'
      /\ activity \in Seq(ActivityRow) /\ ProperIntervals(activity, now)
      /\ Stacked(activity)
  BY SdepTypes DEF ActivityVersionsStacked
<1>2. /\ activity' \in Seq(ActivityRow)
      /\ Len(activity') = Len(activity)
      /\ Writes(activity, activity', ids, now')
  BY <1>1, ActivityRowStampable, EndVersionsWrites
<1>3. DOMAIN activity' = DOMAIN activity
  BY <1>1, <1>2
<1>4. Stacked(activity')
  BY <1>1, <1>2, <1>3, ActivityRowStampable, WritesStacked
<1> QED
  BY <1>4 DEF ActivityVersionsStacked, Stacked, IsCurrent

\* When they follow each other the lookup by id finds at most one.
LEMMA StackedIsUnambiguous ==
  ASSUME SdepInv, ActivityVersionsStacked, NEW fid
  PROVE  ~Ambiguous(activity, fid)
<1> SUFFICES ASSUME NEW i \in CurrentVersions(activity, fid),
                    NEW j \in CurrentVersions(activity, fid), i # j
             PROVE  FALSE
  BY DEF Ambiguous
<1>1. /\ i \in DOMAIN activity /\ j \in DOMAIN activity
      /\ activity[i].fid = activity[j].fid
      /\ IsCurrent(activity[i]) /\ IsCurrent(activity[j])
  BY DEF CurrentVersions, Versions
<1>2. i \in Nat /\ j \in Nat
  BY <1>1, SdepTypes
<1>3. i < j \/ j < i
  BY <1>2
<1> QED
  BY <1>1, <1>3 DEF ActivityVersionsStacked, Stacked

\* Without bulk requests every step keeps the versions of activities stacked.
LEMMA SingleStep ==
  ASSUME MaxBatch = 0, SdepInv, ActivityVersionsStacked, Next
  PROVE  ActivityVersionsStacked'
<1>1. Batches = {}
  BY DEF Batches
<1>2. CASE AreaRequest /\ activityReply' = NoActivityReply /\ UNCHANGED <<platform, activity>>
  BY <1>2 DEF ActivityVersionsStacked, Stacked, IsCurrent, NoActivityReply
<1>3. ASSUME NEW p \in Platforms, NEW name \in Names,
             NEW activityId \in ActivityIds \cup {NoId}, NEW areaId \in AreaIds,
             PostActivity(p, name, activityId, areaId)
      PROVE  ActivityVersionsStacked'
  <2>0. now' = now + 1
    BY <1>3 DEF PostActivity, ActivityTransaction, Begin
  <2>1. ~Ambiguous(activity, activityId)
    BY StackedIsUnambiguous
  <2>2. CASE UNCHANGED activity /\ activityReply' = Failure(422)
    BY <2>2 DEF ActivityVersionsStacked, Stacked, IsCurrent, Failure, NoActivityReply
  <2> DEFINE platformRow == [fid |-> p, name |-> name, createdAt |-> now', endedAt |-> NotEnded]
             row(fid, a) == NewActivity(fid, Len(platform'), a, now')
  <2>3. ASSUME ~ActivityRefused(p, activityId, areaId),
               platform' = NewVersion(platform, platformRow),
               NEW a \in CurrentVersions(area, areaId), NEW fid \in ActivityIdFor(activityId),
               activity' = NewVersion(activity, row(fid, a))
        PROVE  ActivityVersionsStacked'
    <3>1. Len(platform') \in Nat \ {0}
      BY <2>0, <2>3, PlatformVersion DEF ActivityRefused
    <3>2. fid \in ActivityIds
      BY <2>3 DEF ActivityIdFor, ActivityRefused, Deactivated
    <3>3. a \in Nat \ {0}
      BY SdepTypes DEF CurrentVersions, Versions
    <3>4. /\ row(fid, a) \in ActivityRow /\ row(fid, a).endedAt = NotEnded
          /\ row(fid, a).createdAt = now'
      BY <2>0, <3>1, <3>2, <3>3, SdepTypes DEF ActivityRow, NewActivity, NotEnded
    <3> HIDE DEF row
    <3>5. ActivityVersionsStacked'
      BY <2>0, <2>3, <3>4, ActivityReVersioned
    <3> QED
      BY <2>3, <3>5
  <2> QED
    BY <1>3, <2>1, <2>2, <2>3 DEF PostActivity
<1>4. ASSUME NEW p \in Platforms, DeactivatePlatform(p)
      PROVE  ActivityVersionsStacked'
  BY <1>4 DEF DeactivatePlatform, ActivityVersionsStacked, Stacked, IsCurrent, NoActivityReply
<1>5. ASSUME NEW fid \in ActivityIds, DeactivateActivity(fid)
      PROVE  ActivityVersionsStacked'
  <2>1. now' = now + 1
    BY <1>5 DEF DeactivateActivity, ActivityTransaction, Begin, NoActivityReply
  <2>2. PICK i \in CurrentVersions(activity, fid) :
          activity' = EndVersions(activity, CurrentUnder(activity[i].platform, {fid}), now')
    BY <1>5 DEF DeactivateActivity
  <2> DEFINE ids == CurrentUnder(activity[i].platform, {fid})
  <2>3. \A j \in ids : j \in DOMAIN activity /\ IsCurrent(activity[j])
    BY DEF CurrentUnder
  <2>4. activity' = EndVersions(activity, ids, now')
    BY <2>2
  <2> HIDE DEF ids
  <2> QED
    BY <2>1, <2>3, <2>4, ActivityEnded
<1> QED
  BY <1>1, <1>2, <1>3, <1>4, <1>5 DEF Next, ActivityRequest

\* As long as platforms use the single endpoint only, the versions of every
\* activity id follow each other, whichever platforms report it: what
\* DATAMODEL.md promises of every functional id, and bulk requests break.
THEOREM SingleEndpointStacks ==
  ASSUME MaxBatch = 0
  PROVE  Spec => []ActivityVersionsStacked
<1>1. Init => ActivityVersionsStacked
  BY DEF Init, ActivityInit, ActivityVersionsStacked, Stacked
<1>2. SdepInv /\ ActivityVersionsStacked /\ [Next]_vars => ActivityVersionsStacked'
  <2>1. CASE UNCHANGED vars
    BY <2>1 DEF vars, activityVars, ActivityVersionsStacked, Stacked, IsCurrent
  <2> QED
    BY <2>1, SingleStep
<1> QED
  BY <1>1, <1>2, SdepInvariant, PTL DEF Spec
=============================================================================
