---------------------------- MODULE IntakeProofs ----------------------------
(***************************************************************************)
(* What is stored is valid, what the single endpoint stores is readable,   *)
(* and the items of a batch stand on their own, for any payloads and file  *)
(* names, batches of any size and any number of clients.                   *)
(***************************************************************************)
EXTENDS Intake, SdepProofs

(***************************************************************************)
(* The inductive invariant.  Row by row, what is stored is what the schema *)
(* accepted of some payload and the columns could hold: the list of an     *)
(* authority loads no other contents.  Nothing is ever deactivated by the  *)
(* requests of this module, so no check for it refuses an item of a batch. *)
(***************************************************************************)
Storable == {item \in Items : SchemaAccepts(item) /\ Fits(item)}
Contents == {ContentOf(item) : item \in Storable}
StoredNames == {file \in Filenames : file.length <= MaxName}

NothingDeactivated ==
  /\ \A p \in Platforms : ~Deactivated(platform, p)
  /\ \A fid \in ActivityIds : ~Deactivated(activity, fid)

IntakeInv ==
  /\ SdepInv
  /\ content \in Seq(Contents)
  /\ filename \in Seq(StoredNames)
  /\ Len(content) = Len(activity) /\ Len(filename) = Len(area)
  /\ NothingDeactivated

\* The id of an accepted payload.
LEMMA AcceptedId ==
  ASSUME NEW item \in Items, SchemaAccepts(item)
  PROVE  /\ item.activityId \in ActivityIds \cup {NoId, EmptyId}
         /\ NormalId(item.activityId) \in ActivityIds \cup {NoId}
         /\ NormalId(item.activityId) # NoId =>
              /\ NormalId(item.activityId) \in ActivityIds
              /\ NormalId(item.activityId) = item.activityId
<1>1. item.activityId \in ActivityIds \cup {NoId, EmptyId, NotText}
  BY IntakeConstantsAssumption DEF Payload
<1>2. item.activityId # NotText
  BY DEF SchemaAccepts
<1> QED
  BY <1>1, <1>2, IntakeConstantsAssumption DEF NormalId

\* What step 1 of the bulk flow hands on is a batch of ActivityService.
LEMMA ValidatedBatch ==
  ASSUME NEW n \in 1..MaxBatch, NEW batch \in [1..n -> Items], NEW areaId \in AreaIds
  PROVE  [i \in DOMAIN batch |-> Validated(batch[i], areaId)] \in Batches
<1>1. ASSUME NEW item \in Items
      PROVE  Validated(item, areaId) \in ValidItem \cup {InvalidItem}
  BY AcceptedId DEF Validated, ValidItem
<1>2. [i \in DOMAIN batch |-> Validated(batch[i], areaId)]
        \in [1..n -> ValidItem \cup {InvalidItem}]
  BY <1>1
<1> QED
  BY <1>2 DEF Batches

\* An index set of a batch has one listing only.
LEMMA OrderIsUnique ==
  ASSUME NEW batch \in Batches, NEW S, S \subseteq DOMAIN batch,
         NEW s \in InOrder(S), NEW t \in InOrder(S)
  PROVE  s = t
<1>1. PICK b \in 1..MaxBatch : DOMAIN batch = 1..b
  BY DEF Batches
<1>2. S \subseteq Nat
  BY <1>1, ActivityConstantsAssumption
<1>3. /\ s \in Seq(S) /\ t \in Seq(S) /\ Len(s) = Len(t) /\ Len(s) = Cardinality(S)
      /\ DOMAIN s \subseteq Nat /\ DOMAIN t \subseteq Nat
      /\ \A i \in S : \E n \in DOMAIN s : s[n] = i
      /\ \A i \in S : \E n \in DOMAIN t : t[n] = i
  BY OrderListsOnce
<1>4. /\ \A m, n \in DOMAIN s : m < n => s[m] < s[n]
      /\ \A m, n \in DOMAIN t : m < n => t[m] < t[n]
      /\ s \in [1..Cardinality(S) -> S] /\ t \in [1..Cardinality(S) -> S]
  BY DEF InOrder
<1>5. DOMAIN s = DOMAIN t
  BY <1>4
<1>6. \A n \in DOMAIN s : s[n] \in Nat /\ t[n] \in Nat /\ n \in Nat /\ s[n] \in S /\ t[n] \in S
  BY <1>2, <1>3, <1>4
<1> DEFINE Differ == {n \in DOMAIN s : s[n] # t[n]}
<1>7. Differ = {}
  <2> SUFFICES ASSUME Differ # {} PROVE FALSE
    OBVIOUS
  <2>1. Differ \subseteq Nat
    BY <1>6
  <2> HIDE DEF Differ
  <2>2. PICK n \in Differ : \A m \in Differ : <<m, n>> \notin OpToRel(<, Nat)
    BY <2>1, NatLessThanWellFounded, WFMin
  <2>3. n \in DOMAIN s /\ s[n] # t[n] /\ \A m \in DOMAIN s : m < n => s[m] = t[m]
    BY <2>1, <2>2, <1>6 DEF Differ, OpToRel
  <2>4. ASSUME s[n] < t[n]
        PROVE  FALSE
    <3>1. PICK m \in DOMAIN t : t[m] = s[n]
      BY <1>3, <1>6, <2>3
    <3>2. m \in Nat /\ n \in Nat /\ t[m] \in Nat /\ t[n] \in Nat /\ m \in DOMAIN s /\ n \in DOMAIN t
      BY <1>5, <1>6, <2>3, <3>1
    <3>3. m < n
      <4>1. ~(n < m)
        BY <1>4, <2>4, <3>1, <3>2
      <4>2. m # n
        BY <2>4, <3>1, <3>2
      <4> QED
        BY <3>2, <4>1, <4>2
    <3>4. s[m] < s[n] /\ s[m] = t[m]
      BY <1>4, <2>3, <3>2, <3>3
    <3> QED
      BY <3>1, <3>2, <3>4
  <2>5. ASSUME t[n] < s[n]
        PROVE  FALSE
    <3>1. PICK m \in DOMAIN s : s[m] = t[n]
      BY <1>3, <1>6, <2>3
    <3>2. m \in Nat /\ n \in Nat /\ s[m] \in Nat /\ s[n] \in Nat /\ m \in DOMAIN t /\ n \in DOMAIN t
      BY <1>5, <1>6, <2>3, <3>1
    <3>3. m < n
      <4>1. ~(n < m)
        BY <1>4, <2>3, <2>5, <3>1, <3>2
      <4>2. m # n
        BY <2>5, <3>1, <3>2
      <4> QED
        BY <3>2, <4>1, <4>2
    <3>4. t[m] < t[n] /\ s[m] = t[m]
      BY <1>4, <2>3, <3>2, <3>3
    <3> QED
      BY <3>1, <3>2, <3>4
  <2> QED
    BY <1>6, <2>3, <2>4, <2>5
<1>8. \A n \in DOMAIN s : s[n] = t[n]
  BY <1>7
<1> HIDE DEF Differ
<1>9. /\ s = [n \in 1..Cardinality(S) |-> s[n]]
      /\ t = [n \in 1..Cardinality(S) |-> t[n]]
      /\ \A n \in 1..Cardinality(S) : s[n] = t[n]
  BY <1>4, <1>8
<1> QED
  BY <1>9

\* An id is not deactivated by a write that replaces what it ends.
LEMMA ReplacedStaysAlive ==
  ASSUME NEW Row, NEW old \in Seq(Row), NEW new \in Seq(Row), NEW ids, NEW t,
         Writes(old, new, ids, t),
         \A i \in DOMAIN old : i \in ids =>
            \E k \in (DOMAIN new) \ DOMAIN old : new[k].fid = old[i].fid,
         NEW fid, ~Deactivated(old, fid)
  PROVE  ~Deactivated(new, fid)
<1>0. DOMAIN old \subseteq DOMAIN new
  BY DEF Writes
<1>1. \A k \in (DOMAIN new) \ DOMAIN old : IsCurrent(new[k])
  BY DEF Writes, IsCurrent
<1>2. CASE \E k \in (DOMAIN new) \ DOMAIN old : new[k].fid = fid
  BY <1>1, <1>2 DEF Deactivated, CurrentVersions, Versions
<1>3. CASE \A k \in (DOMAIN new) \ DOMAIN old : new[k].fid # fid
  <2> SUFFICES ASSUME ExistsAny(new, fid)
               PROVE  CurrentVersions(new, fid) # {}
    BY DEF Deactivated
  <2>1. PICK i \in DOMAIN new : new[i].fid = fid
    BY DEF ExistsAny, Versions
  <2>2. i \in DOMAIN old /\ old[i].fid = fid
    BY <1>3, <2>1 DEF Writes
  <2>3. PICK c \in DOMAIN old : old[c].fid = fid /\ IsCurrent(old[c])
    BY <2>2 DEF Deactivated, ExistsAny, CurrentVersions, Versions
  <2>4. c \notin ids
    BY <1>3, <2>3
  <2>5. new[c] = old[c]
    BY <2>3, <2>4 DEF Writes
  <2> QED
    BY <1>0, <2>3, <2>5 DEF CurrentVersions, Versions
<1> QED
  BY <1>2, <1>3

-----------------------------------------------------------------------------
(***************************************************************************)
(* The requests, seen from the tables of the services                      *)
(***************************************************************************)

\* An exception leaves everything as it was.
LEMMA FailedOutcome ==
  ASSUME SdepInv, NEW s \in {422, 500}, Failed(s)
  PROVE  /\ ActivityOutcome
         /\ ActivityTransaction
         /\ activityReply'.status = s
         /\ UNCHANGED <<platform, activity, area, content, filename>>
<1>1. /\ ActivityTransaction /\ activityReply' = Failure(s)
      /\ UNCHANGED <<platform, activity, area, content, filename>>
  BY DEF Failed, ActivityTransaction
<1>2. Failure(s).status = s
  BY DEF Failure, NoActivityReply
<1> QED
  BY <1>1, <1>2, RefusedOutcome

\* A single submission that is served inserts one row, or none.
LEMMA SingleRows ==
  ASSUME SdepInv, NEW p \in Platforms, NEW name \in Names,
         NEW activityId \in ActivityIds \cup {NoId}, NEW areaId \in AreaIds,
         PostActivity(p, name, activityId, areaId)
  PROVE  \/ /\ activityReply'.status = 201
            /\ Len(activity') = Len(activity) + 1
            /\ ~ActivityRefused(p, activityId, areaId)
            /\ platform' = NewVersion(platform, [fid |-> p, name |-> name,
                                                 createdAt |-> now', endedAt |-> NotEnded])
         \/ /\ activityReply'.status \in {422, 500}
            /\ UNCHANGED <<platform, activity>>
<1>1. CASE UNCHANGED <<platform, activity>> /\ activityReply' = Failure(422)
  BY <1>1 DEF Failure, NoActivityReply
<1>2. CASE UNCHANGED <<platform, activity>> /\ activityReply' = Failure(500)
  BY <1>2 DEF Failure, NoActivityReply
<1>3. ASSUME ~ActivityRefused(p, activityId, areaId),
             platform' = NewVersion(platform, [fid |-> p, name |-> name,
                                               createdAt |-> now', endedAt |-> NotEnded]),
             NEW a \in CurrentVersions(area, areaId), NEW fid \in ActivityIdFor(activityId),
             activity' = NewVersion(activity, NewActivity(fid, Len(platform'), a, now')),
             activityReply'.status = 201
      PROVE  Len(activity') = Len(activity) + 1
  <2> DEFINE row == NewActivity(fid, Len(platform'), a, now')
             ended == EndVersions(activity, CurrentVersions(activity, row.fid), row.createdAt)
  <2>1. Len(activity) \in Nat /\ DOMAIN activity = 1..Len(activity)
    BY SdepTypes
  <2>2. DOMAIN ended = DOMAIN activity
    BY DEF EndVersions
  <2>3. ended \in Seq({ended[i] : i \in DOMAIN activity}) /\ Len(ended) = Len(activity)
    <3>1. ended = [i \in 1..Len(activity) |-> ended[i]]
      BY <2>1 DEF EndVersions
    <3> HIDE DEF ended
    <3> QED
      BY <2>1, <3>1
  <2>4. activity' = Append(ended, row)
    BY <1>3 DEF NewVersion
  <2> HIDE DEF ended, row
  <2> QED
    BY <2>3, <2>4
<1> QED
  BY <1>1, <1>2, <1>3 DEF PostActivity

\* A bulk submission that is served inserts one row per accepted item.
LEMMA BulkRows ==
  ASSUME SdepInv, NEW p \in Platforms, NEW name \in Names, NEW batch \in Batches,
         ~Deactivated(platform, p),
         PostActivitiesBulk(p, name, batch)
  PROVE  /\ activityReply'.status # 0
         /\ platform' = PlatformForBatch(p, name)
         /\ activityReply'.fids \in ResolvedIds(batch)
         /\ \A i \in DOMAIN batch :
               activityReply'.verdicts[i] = Verdict(batch, activityReply'.fids, i)
         /\ DOMAIN activityReply'.verdicts = DOMAIN batch
         /\ \E order \in InOrder({i \in DOMAIN activityReply'.verdicts :
                                    activityReply'.verdicts[i] = "OK"}) :
              /\ Len(activity') = Len(activity) + Len(order)
              /\ \A n \in DOMAIN order :
                    activity'[Len(activity) + n].fid = activityReply'.fids[order[n]]
<1>1. /\ now' = now + 1 /\ now' \in Nat
      /\ activity \in Seq(ActivityRow)
      /\ platform' = PlatformForBatch(p, name)
  BY SdepTypes DEF PostActivitiesBulk, ActivityTransaction, Begin
<1>2. PICK fids \in ResolvedIds(batch), pid \in CurrentVersions(platform', p) :
        LET accepted == {i \in DOMAIN batch : Verdict(batch, fids, i) = "OK"}
        IN  /\ \E order \in InOrder(accepted) :
                 activity' =
                   EndVersions(activity,
                               CurrentUnder(pid, IdsForVersioning(batch, fids, accepted)), now')
                   \o BatchRows(batch, fids, order, pid)
            /\ activityReply' =
                 [status |-> BatchStatus(accepted, batch),
                  fids |-> fids,
                  areaIds |-> [i \in DOMAIN batch |-> batch[i].areaId],
                  verdicts |-> [i \in DOMAIN batch |-> Verdict(batch, fids, i)]]
  BY DEF PostActivitiesBulk
<1> DEFINE S == {i \in DOMAIN batch : Verdict(batch, fids, i) = "OK"}
           ids == CurrentUnder(pid, IdsForVersioning(batch, fids, S))
<1>3. PICK order \in InOrder(S) :
        activity' = EndVersions(activity, ids, now') \o BatchRows(batch, fids, order, pid)
  BY <1>2
<1>4. /\ activityReply'.fids = fids
      /\ activityReply'.verdicts = [i \in DOMAIN batch |-> Verdict(batch, fids, i)]
      /\ activityReply'.status = BatchStatus(S, batch)
  BY <1>2
<1>5. S = {i \in DOMAIN activityReply'.verdicts : activityReply'.verdicts[i] = "OK"}
  BY <1>4
<1>6. activityReply'.status # 0
  BY <1>4 DEF BatchStatus
<1>7. \A i \in ids : i \in DOMAIN activity /\ IsCurrent(activity[i])
  BY DEF CurrentUnder
<1>8. pid \in Nat \ {0}
  <2>1. platform' \in Seq(PlatformRow)
    BY <1>1, BatchPlatform
  <2> QED
    BY <2>1 DEF CurrentVersions, Versions
<1> DEFINE rows == BatchRows(batch, fids, order, pid)
<1>9. /\ rows \in Seq(ActivityRow)
      /\ DOMAIN rows = DOMAIN order
      /\ \A n \in DOMAIN order :
            rows[n].fid = fids[order[n]] /\ rows[n].createdAt = now' /\ rows[n].endedAt = NotEnded
  <2> DEFINE T == S
  <2>1. T = {i \in DOMAIN batch : Verdict(batch, fids, i) = "OK"} /\ order \in InOrder(T)
    OBVIOUS
  <2> HIDE DEF T, S
  <2> QED
    BY <1>1, <1>8, <2>1, BatchRowsInserted
<1>10. S \subseteq DOMAIN batch
  OBVIOUS
<1> HIDE DEF S, ids, rows
<1>11. order \in Seq(S) /\ Len(order) \in Nat /\ DOMAIN order = 1..Len(order)
  <2>1. order \in Seq(S)
    BY <1>10, OrderListsOnce
  <2> QED
    BY <2>1
<1>12. Len(rows) = Len(order)
  BY <1>9, <1>11
<1>13. /\ Len(activity') = Len(activity) + Len(rows)
       /\ \A n \in DOMAIN rows : activity'[Len(activity) + n] = rows[n]
  <2> DEFINE t == now'
             new == EndVersions(activity, ids, t) \o rows
  <2>1. activity' = new
    BY <1>3 DEF rows
  <2>2. t \in Nat /\ \A n \in DOMAIN rows : rows[n].createdAt = t /\ rows[n].endedAt = NotEnded
    BY <1>1, <1>9
  <2> HIDE DEF t
  <2>3. /\ Len(new) = Len(activity) + Len(rows)
        /\ \A n \in DOMAIN rows : new[Len(activity) + n] = rows[n]
    BY <1>1, <1>7, <1>9, <2>2, ActivityRowStampable, AppendedRowsWrite
  <2> HIDE DEF new
  <2> QED
    BY <2>1, <2>3
<1> DEFINE OK == {i \in DOMAIN activityReply'.verdicts : activityReply'.verdicts[i] = "OK"}
<1>14. /\ order \in InOrder(OK)
       /\ Len(activity') = Len(activity) + Len(order)
       /\ \A n \in DOMAIN order :
             activity'[Len(activity) + n].fid = activityReply'.fids[order[n]]
  BY <1>4, <1>5, <1>9, <1>12, <1>13
<1> HIDE DEF OK
<1>15. \E o \in InOrder(OK) :
         /\ Len(activity') = Len(activity) + Len(o)
         /\ \A n \in DOMAIN o :
               activity'[Len(activity) + n].fid = activityReply'.fids[o[n]]
  BY <1>14
<1>16. /\ \A i \in DOMAIN batch :
             activityReply'.verdicts[i] = Verdict(batch, activityReply'.fids, i)
       /\ DOMAIN activityReply'.verdicts = DOMAIN batch
       /\ activityReply'.fids \in ResolvedIds(batch)
  BY <1>4
<1> QED
  BY <1>1, <1>6, <1>15, <1>16 DEF OK

\* The platform of a request that is served is current afterwards, and the
\* others are as they were.
LEMMA PlatformsStayAlive ==
  ASSUME SdepInv, NothingDeactivated, NEW p \in Platforms, NEW name \in Names,
         now' = now + 1,
         \/ platform' = platform
         \/ platform' = NewVersion(platform, [fid |-> p, name |-> name,
                                              createdAt |-> now', endedAt |-> NotEnded])
  PROVE  \A q \in Platforms : ~Deactivated(platform', q)
<1>1. CASE platform' = platform
  BY <1>1 DEF NothingDeactivated
<1>2. CASE platform' = NewVersion(platform, [fid |-> p, name |-> name,
                                             createdAt |-> now', endedAt |-> NotEnded])
  <2> DEFINE ids == CurrentVersions(platform, p)
             k == Len(platform) + 1
  <2>1. /\ platform' \in Seq(PlatformRow) /\ platform \in Seq(PlatformRow)
        /\ Writes(platform, platform', ids, now')
        /\ Len(platform') = k /\ k \in DOMAIN platform' /\ k \notin DOMAIN platform
    BY <1>2, PlatformVersion, SdepTypes DEF NothingDeactivated
  <2>2. platform'[k].fid = p
    <3> DEFINE row == [fid |-> p, name |-> name, createdAt |-> now', endedAt |-> NotEnded]
    <3>1. row \in PlatformRow /\ row.endedAt = NotEnded /\ row.fid = p
      BY SdepTypes DEF PlatformRow, NotEnded
    <3>2. platform' = NewVersion(platform, row)
      BY <1>2
    <3> HIDE DEF row
    <3>3. NewVersion(platform, row)[Len(platform) + 1] = row
      BY <2>1, <3>1, PlatformRowStampable, NewVersionWrites
    <3> QED
      BY <3>1, <3>2, <3>3
  <2>3. \A i \in DOMAIN platform : i \in ids => platform[i].fid = p
    BY DEF CurrentVersions, Versions
  <2> HIDE DEF ids, k
  <2>4. \A i \in DOMAIN platform : i \in ids =>
           \E n \in (DOMAIN platform') \ DOMAIN platform : platform'[n].fid = platform[i].fid
    BY <2>1, <2>2, <2>3
  <2> QED
    BY <2>1, <2>4, ReplacedStaysAlive DEF NothingDeactivated
<1> QED
  BY <1>1, <1>2

\* An activity is ended by a request only to be replaced in it.
LEMMA ActivitiesStayAlive ==
  ASSUME SdepInv, NothingDeactivated, ActivityOutcome, activityReply'.status # 0
  PROVE  \A fid \in ActivityIds : ~Deactivated(activity', fid)
<1>1. PICK pIds, aIds : ActivityWrites(pIds, aIds)
  BY DEF ActivityOutcome
<1>2. /\ activity \in Seq(ActivityRow) /\ activity' \in Seq(ActivityRow)
      /\ Writes(activity, activity', aIds, now')
      /\ now' # NotEnded
  BY <1>1, SdepTypes DEF ActivityWrites, NotEnded
<1>3. \A i \in DOMAIN activity : i \in aIds =>
         \E k \in (DOMAIN activity') \ DOMAIN activity : activity'[k].fid = activity[i].fid
  <2> SUFFICES ASSUME NEW i \in DOMAIN activity, i \in aIds
               PROVE  \E k \in (DOMAIN activity') \ DOMAIN activity :
                         activity'[k].fid = activity[i].fid
    OBVIOUS
  <2>1. IsCurrent(activity[i]) /\ ~IsCurrent(activity'[i])
    BY <1>2 DEF Writes, IsCurrent
  <2> QED
    BY <2>1 DEF ActivityOutcome, EndedAreReplaced, Inserted
<1> QED
  BY <1>2, <1>3, ReplacedStaysAlive DEF NothingDeactivated

\* POST /str/activities.
LEMMA ItemStep ==
  ASSUME IntakeInv, NEW p \in Platforms, NEW name \in Names, NEW item \in Items,
         NEW areaId \in AreaIds, PostItem(p, name, item, areaId)
  PROVE  /\ ActivityOutcome /\ ActivityTransaction
         /\ sent'.endpoint = "single"
         /\ content' \in Seq(Contents) /\ Len(content') = Len(activity')
         /\ UNCHANGED filename
         /\ NothingDeactivated'
         /\ \A k \in NewRows : Loads(content'[k])
<1>0. /\ SdepInv /\ NothingDeactivated /\ content \in Seq(Contents)
      /\ Len(content) = Len(activity) /\ sent'.endpoint = "single"
  BY DEF IntakeInv, PostItem
<1>1. ASSUME NEW s \in {422, 500}, Failed(s)
      PROVE  /\ ActivityOutcome /\ ActivityTransaction
             /\ content' = content /\ UNCHANGED <<filename, activity, platform>>
  BY <1>0, <1>1, FailedOutcome
<1>2. CASE Failed(422) \/ Failed(500)
  <2>1. /\ ActivityOutcome /\ ActivityTransaction
        /\ content' = content /\ UNCHANGED <<filename, activity, platform>>
    BY <1>1, <1>2
  <2> QED
    BY <1>0, <2>1 DEF NothingDeactivated, NewRows, Deactivated, ExistsAny, CurrentVersions,
       Versions, IsCurrent
<1> DEFINE id == NormalId(item.activityId)
<1>3. ASSUME SchemaAccepts(item),
             ActivityRefused(p, id, areaId) \/ ~Unstorable(item),
             PostActivity(p, name, id, areaId),
             content' = IF activityReply'.status = 201
                          THEN Append(content, ContentOf(item)) ELSE content,
             UNCHANGED filename
      PROVE  /\ ActivityOutcome /\ ActivityTransaction
             /\ content' \in Seq(Contents) /\ Len(content') = Len(activity')
             /\ UNCHANGED filename
             /\ NothingDeactivated'
             /\ \A k \in NewRows : Loads(content'[k])
  <2>1. id \in ActivityIds \cup {NoId}
    BY <1>3, AcceptedId
  <2> HIDE DEF id
  <2>2. ActivityOutcome
    BY <1>0, <1>3, <2>1, SingleWrites
  <2>3. ActivityTransaction /\ now' = now + 1
    BY <1>3 DEF PostActivity, ActivityTransaction, Begin
  <2>4. CASE /\ activityReply'.status \in {422, 500}
             /\ UNCHANGED <<platform, activity>>
    <3>1. content' = content /\ UNCHANGED <<platform, activity>>
      BY <1>3, <2>4
    <3> QED
      BY <1>0, <1>3, <2>2, <2>3, <3>1 DEF NothingDeactivated, NewRows, Deactivated,
         ExistsAny, CurrentVersions, Versions, IsCurrent
  <2>5. CASE /\ activityReply'.status = 201
             /\ Len(activity') = Len(activity) + 1
             /\ ~ActivityRefused(p, id, areaId)
             /\ platform' = NewVersion(platform, [fid |-> p, name |-> name,
                                                  createdAt |-> now', endedAt |-> NotEnded])
    <3>1. content' = Append(content, ContentOf(item)) /\ ~Unstorable(item)
      BY <1>3, <2>5
    <3>2. item \in Storable /\ Loads(ContentOf(item))
      BY <1>3, <3>1 DEF Storable, Unstorable
    <3>3. ContentOf(item) \in Contents
      BY <3>2 DEF Contents
    <3> DEFINE c == ContentOf(item)
    <3> HIDE DEF c
    <3>4. /\ content' \in Seq(Contents) /\ Len(content') = Len(content) + 1
          /\ \A k \in (DOMAIN content') \ DOMAIN content : content'[k] = c
      <4>1. content' = Append(content, c) /\ c \in Contents
        BY <3>1, <3>3 DEF c
      <4>2. \A k \in (1..(Len(content) + 1)) \ (1..Len(content)) : k = Len(content) + 1
        BY <1>0
      <4> QED
        BY <1>0, <4>1, <4>2
    <3>5. \A q \in Platforms : ~Deactivated(platform', q)
      BY <1>0, <2>3, <2>5, PlatformsStayAlive
    <3>6. \A fid \in ActivityIds : ~Deactivated(activity', fid)
      BY <1>0, <2>2, <2>5, ActivitiesStayAlive
    <3>7. NothingDeactivated'
      BY <3>5, <3>6 DEF NothingDeactivated, Deactivated, ExistsAny, CurrentVersions,
         Versions, IsCurrent
    <3> QED
      BY <1>0, <1>3, <2>2, <2>3, <2>5, <3>2, <3>4, <3>7 DEF NewRows, c
  <2>6. \/ /\ activityReply'.status = 201
           /\ Len(activity') = Len(activity) + 1
           /\ ~ActivityRefused(p, id, areaId)
           /\ platform' = NewVersion(platform, [fid |-> p, name |-> name,
                                                createdAt |-> now', endedAt |-> NotEnded])
        \/ /\ activityReply'.status \in {422, 500}
           /\ UNCHANGED <<platform, activity>>
    BY <1>0, <1>3, <2>1, SingleRows
  <2> QED
    BY <2>4, <2>5, <2>6
<1> QED
  BY <1>0, <1>2, <1>3 DEF PostItem

\* The items of a batch after step 1.
LEMMA ValidatedItems ==
  ASSUME NEW n \in 1..MaxBatch, NEW batch \in [1..n -> Items], NEW areaId \in AreaIds,
         NEW items, items = [i \in DOMAIN batch |-> Validated(batch[i], areaId)],
         NEW i \in DOMAIN batch
  PROVE  /\ batch[i] \in Items
         /\ IsValid(items[i]) <=> SchemaAccepts(batch[i])
         /\ SchemaAccepts(batch[i]) => /\ items[i].activityId = NormalId(batch[i].activityId)
                                       /\ items[i].areaId = areaId
         /\ ~SchemaAccepts(batch[i]) => items[i].activityId = NoId
<1>1. CASE SchemaAccepts(batch[i])
  <2>1. items[i] = [activityId |-> NormalId(batch[i].activityId), areaId |-> areaId]
    BY <1>1 DEF Validated
  <2>2. items[i].areaId # InvalidItem.areaId
    BY <2>1, AreaConstantsAssumption DEF InvalidItem
  <2> QED
    BY <1>1, <2>1, <2>2 DEF IsValid
<1>2. CASE ~SchemaAccepts(batch[i])
  <2>1. items[i] = InvalidItem
    BY <1>2 DEF Validated
  <2> QED
    BY <1>2, <2>1 DEF IsValid, InvalidItem
<1> QED
  BY <1>1, <1>2

\* No check refuses an accepted item that prevails, if its area is current: a
\* generated id is nobody else's, and a given one no later item has.
LEMMA PrevailingIsOK ==
  ASSUME NothingDeactivated,
         NEW n \in 1..MaxBatch, NEW batch \in [1..n -> Items], NEW areaId \in AreaIds,
         NEW items, items = [i \in DOMAIN batch |-> Validated(batch[i], areaId)],
         CurrentVersions(area, areaId) # {},
         NEW fids \in ResolvedIds(items), NEW i \in DOMAIN batch, Prevails(batch, i)
  PROVE  Verdict(items, fids, i) = "OK"
<1>0. DOMAIN items = DOMAIN batch /\ SchemaAccepts(batch[i])
  BY DEF Prevails
<1>1. /\ batch[i] \in Items /\ IsValid(items[i]) /\ items[i].areaId = areaId
      /\ items[i].activityId = NormalId(batch[i].activityId)
  BY <1>0, ValidatedItems
<1>2. \A j \in DOMAIN items :
         /\ (IsValid(items[j]) /\ items[j].activityId = NoId) =>
              /\ ~ExistsAny(activity, fids[j])
              /\ \A k \in DOMAIN items \ {j} : fids[k] # fids[j]
         /\ ~(IsValid(items[j]) /\ items[j].activityId = NoId) =>
              fids[j] = items[j].activityId
  BY DEF ResolvedIds
<1>3. ASSUME NEW j \in DOMAIN items, i < j
      PROVE  fids[j] # fids[i]
  <2>0. i # j /\ j \in DOMAIN batch
    BY <1>0, <1>3
  <2>1. CASE items[i].activityId = NoId
    BY <1>0, <1>1, <1>2, <2>0, <2>1
  <2>2. CASE items[i].activityId # NoId
    <3>1. /\ fids[i] = batch[i].activityId /\ fids[i] # NoId
      BY <1>0, <1>1, <1>2, <2>2, AcceptedId
    <3>2. CASE ~SchemaAccepts(batch[j])
      <4>1. ~IsValid(items[j]) /\ items[j].activityId = NoId
        BY <2>0, <3>2, ValidatedItems
      <4> QED
        BY <1>2, <3>1, <4>1
    <3>3. CASE SchemaAccepts(batch[j]) /\ NormalId(batch[j].activityId) = NoId
      <4>1. IsValid(items[j]) /\ items[j].activityId = NoId
        BY <2>0, <3>3, ValidatedItems
      <4> QED
        BY <1>0, <1>2, <2>0, <4>1
    <3>4. CASE SchemaAccepts(batch[j]) /\ NormalId(batch[j].activityId) # NoId
      <4>1. /\ items[j].activityId = NormalId(batch[j].activityId)
            /\ batch[j] \in Items
        BY <2>0, <3>4, ValidatedItems
      <4>2. items[j].activityId = batch[j].activityId
        BY <3>4, <4>1, AcceptedId
      <4>3. fids[j] = batch[j].activityId
        BY <1>2, <3>4, <4>1, <4>2
      <4>4. batch[j].activityId # batch[i].activityId
        BY <1>3, <2>0, <3>4 DEF Prevails
      <4> QED
        BY <3>1, <4>3, <4>4
    <3> QED
      BY <3>2, <3>3, <3>4
  <2> QED
    BY <2>1, <2>2
<1>4. ~Deactivated(activity, fids[i])
  <2>1. CASE items[i].activityId = NoId
    BY <1>0, <1>1, <1>2, <2>1 DEF Deactivated
  <2>2. CASE items[i].activityId # NoId
    <3>1. fids[i] = items[i].activityId /\ items[i].activityId \in ActivityIds
      BY <1>0, <1>1, <1>2, <2>2, AcceptedId
    <3> QED
      BY <3>1 DEF NothingDeactivated
  <2> QED
    BY <2>1, <2>2
<1> QED
  BY <1>1, <1>3, <1>4 DEF Verdict

\* POST /str/activities/bulk.
LEMMA BatchStep ==
  ASSUME IntakeInv, NEW p \in Platforms, NEW name \in Names, NEW areaId \in AreaIds,
         NEW b \in 1..MaxBatch, NEW batch \in [1..b -> Items],
         PostBatch(p, name, batch, areaId)
  PROVE  /\ ActivityOutcome /\ ActivityTransaction
         /\ sent'.endpoint = "bulk" /\ sent'.areaId = areaId /\ sent'.items = batch
         /\ content' \in Seq(Contents) /\ Len(content') = Len(activity')
         /\ UNCHANGED filename
         /\ NothingDeactivated'
         /\ (CurrentVersions(area, areaId) # {} /\ activityReply'.status # 500) =>
              \A i \in DOMAIN batch :
                 Prevails(batch, i) =>
                   \E k \in NewRows : /\ content'[k] = ContentOf(batch[i])
                                     /\ activity'[k].fid = activityReply'.fids[i]
<1> DEFINE items == [i \in DOMAIN batch |-> Validated(batch[i], areaId)]
           OK == {i \in DOMAIN activityReply'.verdicts : activityReply'.verdicts[i] = "OK"}
<1>0. /\ SdepInv /\ NothingDeactivated /\ content \in Seq(Contents)
      /\ Len(content) = Len(activity)
      /\ sent'.endpoint = "bulk" /\ sent'.areaId = areaId /\ sent'.items = batch
      /\ ~Deactivated(platform, p)
  BY DEF IntakeInv, PostBatch, NothingDeactivated
<1>1. CASE Failed(500)
  <2>1. /\ ActivityOutcome /\ ActivityTransaction /\ activityReply'.status = 500
        /\ content' = content /\ UNCHANGED <<filename, activity, platform>>
    BY <1>0, <1>1, FailedOutcome
  <2> QED
    BY <1>0, <2>1 DEF NothingDeactivated, NewRows, Deactivated, ExistsAny, CurrentVersions,
       Versions, IsCurrent
<1>2. CASE /\ PostActivitiesBulk(p, name, items)
           /\ \E order \in InOrder(OK) :
                 /\ \A n \in DOMAIN order : Fits(batch[order[n]])
                 /\ content' = content \o [n \in DOMAIN order |-> ContentOf(batch[order[n]])]
           /\ UNCHANGED filename
  <2>1. items \in Batches /\ DOMAIN items = DOMAIN batch /\ DOMAIN batch = 1..b
    BY ValidatedBatch
  <2>2. PICK its : its = items
    OBVIOUS
  <2>3. /\ PostActivitiesBulk(p, name, its) /\ its \in Batches
        /\ DOMAIN its = DOMAIN batch
        /\ its = [i \in DOMAIN batch |-> Validated(batch[i], areaId)]
    BY <1>2, <2>1, <2>2
  <2> HIDE DEF items
  <2>4. ActivityOutcome
    BY <1>0, <2>3, BulkWrites
  <2>5. ActivityTransaction /\ now' = now + 1
    BY <2>3 DEF PostActivitiesBulk, ActivityTransaction, Begin
  <2>6. /\ activityReply'.status # 0
        /\ platform' = PlatformForBatch(p, name)
        /\ activityReply'.fids \in ResolvedIds(its)
        /\ \A i \in DOMAIN its :
              activityReply'.verdicts[i] = Verdict(its, activityReply'.fids, i)
        /\ DOMAIN activityReply'.verdicts = DOMAIN its
        /\ \E order \in InOrder(OK) :
             /\ Len(activity') = Len(activity) + Len(order)
             /\ \A n \in DOMAIN order :
                   activity'[Len(activity) + n].fid = activityReply'.fids[order[n]]
    BY <1>0, <2>3, BulkRows
  <2>7. PICK fids : fids = activityReply'.fids
    OBVIOUS
  <2>8. PICK S : S = OK
    OBVIOUS
  <2>9. /\ fids \in ResolvedIds(its)
        /\ S \subseteq DOMAIN batch
        /\ \A i \in DOMAIN batch : i \in S <=> Verdict(its, fids, i) = "OK"
    BY <2>3, <2>6, <2>7, <2>8
  <2>10. PICK order \in InOrder(S) :
            /\ Len(activity') = Len(activity) + Len(order)
            /\ \A n \in DOMAIN order : activity'[Len(activity) + n].fid = fids[order[n]]
    BY <2>6, <2>7, <2>8
  <2>11. /\ \A n \in DOMAIN order : Fits(batch[order[n]])
         /\ content' = content \o [n \in DOMAIN order |-> ContentOf(batch[order[n]])]
         /\ UNCHANGED filename
    <3>1. PICK listed \in InOrder(S) :
            /\ \A n \in DOMAIN listed : Fits(batch[listed[n]])
            /\ content' = content \o [n \in DOMAIN listed |-> ContentOf(batch[listed[n]])]
      BY <1>2, <2>8
    <3>2. listed = order
      BY <2>3, <2>9, OrderIsUnique
    <3> QED
      BY <1>2, <3>1, <3>2
  <2> HIDE DEF OK
  <2>12. /\ order \in Seq(S) /\ DOMAIN order = 1..Len(order) /\ Len(order) \in Nat
         /\ \A n \in DOMAIN order : order[n] \in S
         /\ \A i \in S : \E n \in DOMAIN order : order[n] = i
    <3>1. its \in Batches /\ S \subseteq DOMAIN its /\ order \in InOrder(S)
      BY <2>3, <2>9, <2>10
    <3>2. /\ order \in Seq(S)
          /\ \A i \in S : \E n \in DOMAIN order : order[n] = i
      BY <3>1, OrderListsOnce
    <3> QED
      BY <3>2
  <2> DEFINE new == [n \in DOMAIN order |-> ContentOf(batch[order[n]])]
  <2>13. \A n \in DOMAIN order : new[n] \in Contents
    <3> SUFFICES ASSUME NEW n \in DOMAIN order
                 PROVE  ContentOf(batch[order[n]]) \in Contents
      OBVIOUS
    <3>1. order[n] \in DOMAIN batch /\ Verdict(its, fids, order[n]) = "OK"
      BY <2>9, <2>12
    <3>2. IsValid(its[order[n]])
      BY <3>1 DEF Verdict
    <3>3. batch[order[n]] \in Items /\ SchemaAccepts(batch[order[n]])
      BY <2>3, <3>1, <3>2, ValidatedItems
    <3> QED
      BY <2>11, <3>3 DEF Contents, Storable
  <2>14. new \in Seq(Contents) /\ Len(new) = Len(order) /\ DOMAIN new = DOMAIN order
    <3>1. new = [n \in 1..Len(order) |-> new[n]]
      BY <2>12
    <3>2. DOMAIN new = DOMAIN order
      OBVIOUS
    <3> HIDE DEF new
    <3> QED
      BY <2>12, <2>13, <3>1, <3>2
  <2>15. \A n \in DOMAIN order : new[n] = ContentOf(batch[order[n]])
    OBVIOUS
  <2>16. content' = content \o new
    BY <2>11
  <2> HIDE DEF new
  <2>17. /\ content' \in Seq(Contents)
         /\ Len(content') = Len(content) + Len(order)
         /\ \A n \in DOMAIN order : content'[Len(content) + n] = new[n]
    <3> DEFINE all == content \o new
    <3>1. /\ all \in Seq(Contents) /\ Len(all) = Len(content) + Len(new)
          /\ \A n \in 1..Len(new) : all[Len(content) + n] = new[n]
      <4>1. content \in Seq(Contents) /\ new \in Seq(Contents)
        BY <1>0, <2>14
      <4>2. all \in Seq(Contents) /\ Len(all) = Len(content) + Len(new)
        BY <4>1
      <4>3. \A n \in 1..Len(new) : all[Len(content) + n] = new[n]
        BY <4>1
      <4> QED
        BY <4>2, <4>3
    <3>2. content' = all
      BY <2>16
    <3> HIDE DEF all
    <3> QED
      BY <2>12, <2>14, <3>1, <3>2
  <2>18. \A n \in DOMAIN order : Len(content) + n \in NewRows
    <3>1. /\ DOMAIN content' = 1..Len(content') /\ DOMAIN content = 1..Len(content)
          /\ Len(content) \in Nat
      BY <1>0, <2>17
    <3> QED
      BY <2>12, <2>17, <3>1 DEF NewRows
  <2>19. ASSUME CurrentVersions(area, areaId) # {}, NEW i \in DOMAIN batch, Prevails(batch, i)
         PROVE  \E k \in NewRows : /\ content'[k] = ContentOf(batch[i])
                                   /\ activity'[k].fid = activityReply'.fids[i]
    <3>1. Verdict(its, fids, i) = "OK"
      <4>1. /\ its = [k \in DOMAIN batch |-> Validated(batch[k], areaId)]
            /\ fids \in ResolvedIds(its) /\ NothingDeactivated
            /\ CurrentVersions(area, areaId) # {} /\ Prevails(batch, i)
        BY <1>0, <2>3, <2>9, <2>19
      <4> QED
        BY <4>1, PrevailingIsOK
    <3>2. PICK n \in DOMAIN order : order[n] = i
      BY <2>9, <2>12, <3>1
    <3>3. content'[Len(content) + n] = ContentOf(batch[i])
      BY <2>15, <2>17, <3>2
    <3>4. activity'[Len(content) + n].fid = activityReply'.fids[i]
      BY <1>0, <2>7, <2>10, <3>2
    <3> QED
      BY <2>18, <3>2, <3>3, <3>4
  <2>20. NothingDeactivated'
    <3>1. \A q \in Platforms : ~Deactivated(platform', q)
      BY <1>0, <2>5, <2>6, PlatformsStayAlive DEF PlatformForBatch
    <3>2. \A fid \in ActivityIds : ~Deactivated(activity', fid)
      BY <1>0, <2>4, <2>6, ActivitiesStayAlive
    <3> QED
      BY <3>1, <3>2 DEF NothingDeactivated, Deactivated, ExistsAny, CurrentVersions,
         Versions, IsCurrent
  <2>21. Len(content') = Len(activity')
    BY <1>0, <2>10, <2>17
  <2> QED
    BY <1>0, <2>4, <2>5, <2>11, <2>17, <2>19, <2>20, <2>21
<1> QED
  BY <1>1, <1>2 DEF PostBatch

\* What a platform's request leaves behind keeps the invariant of the tables.
LEMMA OutcomeKeepsTables ==
  ASSUME SdepInv, ActivityTransaction, ActivityOutcome
  PROVE  SdepInv'
<1>1. OtherTransaction
  BY DEF ActivityTransaction, OtherTransaction
<1>2. AreaInv'
  BY <1>1, AreaStepInv DEF SdepInv, AreaNext
<1>3. ReplyTyped
  BY DEF ActivityOutcome
<1>4. PICK pIds, aIds : /\ ActivityWrites(pIds, aIds)
                        /\ PlatformReplaced(pIds)
                        /\ ActivitiesReplaced(aIds)
  BY DEF ActivityOutcome
<1>5. Writes(area, area', {}, now') /\ area' \in Seq(AreaRow)
  <2>1. Len(area) \in Nat /\ area' = area
    BY <1>4, SdepTypes DEF ActivityWrites
  <2> QED
    BY <2>1, NoWrite, SdepTypes
<1>6. SdepWrites({}, pIds, aIds)
  BY <1>4, <1>5 DEF SdepWrites, ActivityWrites
<1> QED
  BY <1>2, <1>3, <1>6, SdepWritesInv

\* POST /ca/areas.
LEMMA UploadStep ==
  ASSUME IntakeInv, NEW ca \in CompetentAuthorities, NEW areaId \in AreaIds,
         NEW file \in Filenames, PostUpload(ca, areaId, file)
  PROVE  /\ SdepInv'
         /\ sent'.endpoint = "none"
         /\ filename' \in Seq(StoredNames) /\ Len(filename') = Len(area')
         /\ UNCHANGED <<platform, activity, content>>
<1>0. /\ SdepInv /\ filename \in Seq(StoredNames) /\ Len(filename) = Len(area)
      /\ sent'.endpoint = "none"
  BY DEF IntakeInv, PostUpload, Nothing
<1>1. CASE Failed(500)
  BY <1>0, <1>1, FailedOutcome, OutcomeKeepsTables
<1>2. CASE /\ AreaRefused(ca, areaId) \/ file.length <= MaxName
           /\ PostArea(ca, areaId)
           /\ filename' = IF areaReply'.status = 201 THEN Append(filename, file) ELSE filename
           /\ activityReply' = NoActivityReply
           /\ UNCHANGED <<platform, activity, content>>
  <2>1. SdepInv'
    <3>1. Next
      BY <1>2 DEF Next, AreaRequest
    <3> QED
      BY <1>0, <3>1, SdepStepInv
  <2>2. CASE AreaRefused(ca, areaId)
    <3>1. areaReply' = AreaReply(422, areaId) /\ UNCHANGED area
      BY <1>2, <2>2 DEF PostArea
    <3>2. areaReply'.status # 201
      BY <3>1 DEF AreaReply
    <3> QED
      BY <1>0, <1>2, <2>1, <3>1, <3>2
  <2>3. CASE ~AreaRefused(ca, areaId)
    <3>1. PICK fid \in AreaIdFor(areaId) : /\ Len(area') = Len(area) + 1
                                           /\ areaReply' = AreaReply(201, fid)
      BY <1>0, <1>2, <2>3, PostAreaWrites DEF SdepInv
    <3>2. areaReply'.status = 201
      BY <3>1 DEF AreaReply
    <3>3. filename' = Append(filename, file) /\ file \in StoredNames
      BY <1>2, <2>3, <3>2 DEF StoredNames
    <3>4. filename' \in Seq(StoredNames) /\ Len(filename') = Len(filename) + 1
      BY <1>0, <3>3
    <3> QED
      BY <1>0, <1>2, <2>1, <3>1, <3>4
  <2> QED
    BY <2>2, <2>3
<1> QED
  BY <1>1, <1>2 DEF PostUpload

-----------------------------------------------------------------------------
(***************************************************************************)
(* The invariant                                                           *)
(***************************************************************************)

LEMMA IntakeInitInv == IntakeInit => IntakeInv
<1> SUFFICES ASSUME IntakeInit PROVE IntakeInv
  OBVIOUS
<1>1. SdepInv
  BY SdepInitInv DEF IntakeInit, Init
<1>2. /\ platform = <<>> /\ activity = <<>> /\ area = <<>>
      /\ content = <<>> /\ filename = <<>>
  BY DEF IntakeInit, ActivityInit, AreaInit
<1> QED
  BY <1>1, <1>2 DEF IntakeInv, NothingDeactivated, Deactivated, ExistsAny, Versions

\* The requests of platforms.
LEMMA PlatformStepInv ==
  ASSUME IntakeInv, ActivityOutcome, ActivityTransaction,
         content' \in Seq(Contents), Len(content') = Len(activity'), UNCHANGED filename,
         NothingDeactivated'
  PROVE  IntakeInv'
<1>1. SdepInv'
  BY OutcomeKeepsTables DEF IntakeInv
<1>2. area' = area
  BY DEF ActivityTransaction
<1> QED
  BY <1>1, <1>2 DEF IntakeInv

LEMMA IntakeStepInv ==
  ASSUME IntakeInv, [IntakeNext]_intakeVars
  PROVE  IntakeInv'
<1>1. CASE \E p \in Platforms, name \in Names, areaId \in AreaIds, item \in Items :
              PostItem(p, name, item, areaId)
  BY <1>1, ItemStep, PlatformStepInv
<1>2. CASE \E p \in Platforms, name \in Names, areaId \in AreaIds, n \in 1..MaxBatch :
              \E batch \in [1..n -> Items] : PostBatch(p, name, batch, areaId)
  BY <1>2, BatchStep, PlatformStepInv
<1>3. CASE \E ca \in CompetentAuthorities, areaId \in AreaIds, file \in Filenames :
              PostUpload(ca, areaId, file)
  <2>1. /\ SdepInv'
        /\ filename' \in Seq(StoredNames) /\ Len(filename') = Len(area')
        /\ UNCHANGED <<platform, activity, content>>
    BY <1>3, UploadStep
  <2>2. NothingDeactivated'
    BY <2>1 DEF IntakeInv, NothingDeactivated, Deactivated, ExistsAny, CurrentVersions,
       Versions, IsCurrent
  <2> QED
    BY <2>1, <2>2 DEF IntakeInv
<1>4. CASE UNCHANGED intakeVars
  <2>1. UNCHANGED vars /\ UNCHANGED <<content, filename, platform, activity, area>>
    BY <1>4 DEF intakeVars, vars, areaVars, activityVars
  <2>2. SdepInv'
    BY <2>1, SdepStepInv DEF IntakeInv
  <2>3. NothingDeactivated'
    BY <2>1 DEF IntakeInv, NothingDeactivated, Deactivated, ExistsAny, CurrentVersions,
       Versions, IsCurrent
  <2> QED
    BY <2>1, <2>2, <2>3 DEF IntakeInv
<1> QED
  BY <1>1, <1>2, <1>3, <1>4 DEF IntakeNext

\* Every stored row has the contents of a payload that all layers accepted, in
\* every reachable state.
THEOREM IntakeInvariant == IntakeSpec => []IntakeInv
BY IntakeInitInv, IntakeStepInv, PTL DEF IntakeSpec

\* Accepted contents are sound, as instants.
LEMMA ContentIsSound ==
  ASSUME NEW c \in Contents
  PROVE  \E item \in Items :
           /\ c = ContentOf(item)
           /\ SchemaAccepts(item)
           /\ c.start = Instant(item.start) /\ c.start \in Int
           /\ c.start < c.end
           /\ c.number \in 1..MaxInteger
<1>1. PICK item \in Items : SchemaAccepts(item) /\ Fits(item) /\ c = ContentOf(item)
  BY DEF Contents, Storable
<1>2. /\ item.start.wall \in Int /\ item.start.offset \in Int /\ item.number \in Int
  BY IntakeConstantsAssumption DEF Payload, DateTime
<1>3. /\ c.start = Instant(item.start) /\ c.end = Instant(item.end)
      /\ c.number = item.number
  BY <1>1 DEF ContentOf
<1>4. c.start < c.end /\ c.number \in 1..MaxInteger
  BY <1>1, <1>2, <1>3, IntakeConstantsAssumption DEF SchemaAccepts, EndAccepted, Fits
<1> QED
  BY <1>1, <1>2, <1>3, <1>4 DEF Instant

\* What is stored is sound: an activity ends after it starts, whatever zones
\* its times were sent in, its house number is positive and fits, file names
\* fit, and every row has its contents.  Its start lies in 2025 or later only
\* where it was written.
THEOREM ContentsAreValid == IntakeSpec => []StoredIsValid
<1>1. IntakeInv => StoredIsValid
  <2> SUFFICES ASSUME IntakeInv PROVE StoredIsValid
    OBVIOUS
  <2>1. ASSUME NEW i \in DOMAIN content
        PROVE  /\ content[i].start < content[i].end /\ content[i].number \in 1..MaxInteger
               /\ \E item \in Items : /\ content[i] = ContentOf(item)
                                      /\ item.start.wall >= Begin2025
    <3>1. content[i] \in Contents
      BY DEF IntakeInv
    <3> QED
      BY <3>1, ContentIsSound DEF SchemaAccepts, StartAccepted
  <2>2. ASSUME NEW i \in DOMAIN filename
        PROVE  filename[i].length <= MaxName
    <3>1. filename[i] \in StoredNames
      BY DEF IntakeInv
    <3> QED
      BY <3>1 DEF StoredNames
  <2> QED
    BY <2>1, <2>2 DEF IntakeInv, StoredIsValid
<1> QED
  BY <1>1, IntakeInvariant, PTL

\* Only a row whose start lies in 2025 where it was written and in 2024 in UTC
\* can make the list of an authority fail.
THEOREM ListsFailAtYearTurnOnly == IntakeSpec => []ListFailsOnlyAtYearTurn
<1>1. IntakeInv => ListFailsOnlyAtYearTurn
  <2> SUFFICES ASSUME IntakeInv, NEW ca \in CompetentAuthorities, ListStatus(ca) = 500
               PROVE  \E i \in ActivitiesOf(ca), item \in Items :
                         /\ content[i] = ContentOf(item)
                         /\ Instant(item.start) < Begin2025 /\ Begin2025 <= item.start.wall
    BY DEF ListFailsOnlyAtYearTurn
  <2>1. PICK i \in ActivitiesOf(ca) : ~Loads(content[i])
    BY DEF ListStatus
  <2>2. i \in DOMAIN content
    <3>1. /\ i \in DOMAIN activity /\ activity \in Seq(ActivityRow)
          /\ content \in Seq(Contents) /\ Len(content) = Len(activity)
      BY SdepTypes DEF ActivitiesOf, IntakeInv
    <3> QED
      BY <3>1
  <2>3. content[i] \in Contents
    BY <2>2 DEF IntakeInv
  <2>4. PICK item \in Items :
           /\ content[i] = ContentOf(item) /\ SchemaAccepts(item)
           /\ content[i].start = Instant(item.start) /\ content[i].start \in Int
           /\ content[i].start < content[i].end
    BY <2>3, ContentIsSound
  <2>5. content[i].start < Begin2025
    BY <2>1, <2>4 DEF Loads, Begin2025
  <2>6. item.start.wall \in Int /\ Begin2025 <= item.start.wall
    BY <2>4, IntakeConstantsAssumption
       DEF SchemaAccepts, StartAccepted, Begin2025, Payload, DateTime
  <2> QED
    BY <2>4, <2>5, <2>6
<1> QED
  BY <1>1, IntakeInvariant, PTL

\* What the single endpoint answers with 201 can be loaded again: no row of it
\* ever makes a list fail.
THEOREM SingleStaysReadable == IntakeSpec => SingleIsReadable
<1>1. (IntakeInv /\ [IntakeNext]_intakeVars)
        => [sent'.endpoint = "single" => \A k \in NewRows : Loads(content'[k])]_intakeVars
  <2> SUFFICES ASSUME IntakeInv, IntakeNext, sent'.endpoint = "single"
               PROVE  \A k \in NewRows : Loads(content'[k])
    OBVIOUS
  <2>1. CASE \E p \in Platforms, name \in Names, areaId \in AreaIds, item \in Items :
                PostItem(p, name, item, areaId)
    BY <2>1, ItemStep
  <2>2. CASE \E p \in Platforms, name \in Names, areaId \in AreaIds, n \in 1..MaxBatch :
                \E batch \in [1..n -> Items] : PostBatch(p, name, batch, areaId)
    <3>1. sent'.endpoint = "bulk"
      BY <2>2 DEF PostBatch
    <3> QED
      BY <3>1
  <2>3. CASE \E ca \in CompetentAuthorities, areaId \in AreaIds, file \in Filenames :
                PostUpload(ca, areaId, file)
    <3>1. sent'.endpoint = "none"
      BY <2>3, UploadStep
    <3> QED
      BY <3>1
  <2> QED
    BY <2>1, <2>2, <2>3 DEF IntakeNext
<1> QED
  BY <1>1, IntakeInvariant, PTL DEF IntakeSpec, SingleIsReadable

\* The items of a batch stand on their own: an accepted item that no later
\* accepted item supersedes is stored as it was sent, whatever the others are.
THEOREM ItemsIndependent == IntakeSpec => ItemsStandAlone
<1> DEFINE Alone ==
      (/\ sent'.endpoint = "bulk"
       /\ CurrentVersions(area, sent'.areaId) # {}
       /\ activityReply'.status # 500) =>
        \A i \in DOMAIN sent'.items :
           Prevails(sent'.items, i) =>
             \E k \in NewRows : /\ content'[k] = ContentOf(sent'.items[i])
                               /\ activity'[k].fid = activityReply'.fids[i]
<1>1. (IntakeInv /\ [IntakeNext]_intakeVars) => [Alone]_intakeVars
  <2> SUFFICES ASSUME IntakeInv, IntakeNext, sent'.endpoint = "bulk",
                      CurrentVersions(area, sent'.areaId) # {},
                      activityReply'.status # 500
               PROVE  \A i \in DOMAIN sent'.items :
                         Prevails(sent'.items, i) =>
                           \E k \in NewRows :
                              /\ content'[k] = ContentOf(sent'.items[i])
                              /\ activity'[k].fid = activityReply'.fids[i]
    OBVIOUS
  <2>1. CASE \E p \in Platforms, name \in Names, areaId \in AreaIds, item \in Items :
                PostItem(p, name, item, areaId)
    <3>1. sent'.endpoint = "single"
      BY <2>1 DEF PostItem
    <3> QED
      BY <3>1
  <2>2. ASSUME NEW p \in Platforms, NEW name \in Names, NEW areaId \in AreaIds,
               NEW n \in 1..MaxBatch, NEW batch \in [1..n -> Items],
               PostBatch(p, name, batch, areaId)
        PROVE  \A i \in DOMAIN sent'.items :
                  Prevails(sent'.items, i) =>
                    \E k \in NewRows :
                       /\ content'[k] = ContentOf(sent'.items[i])
                       /\ activity'[k].fid = activityReply'.fids[i]
    <3>1. sent'.areaId = areaId /\ sent'.items = batch
      BY <2>2, BatchStep
    <3>2. CurrentVersions(area, areaId) # {}
      BY <3>1
    <3>3. \A i \in DOMAIN batch :
             Prevails(batch, i) =>
               \E k \in NewRows : /\ content'[k] = ContentOf(batch[i])
                                 /\ activity'[k].fid = activityReply'.fids[i]
      BY <2>2, <3>2, BatchStep
    <3> QED
      BY <3>1, <3>3
  <2>3. CASE \E ca \in CompetentAuthorities, areaId \in AreaIds, file \in Filenames :
                PostUpload(ca, areaId, file)
    <3>1. sent'.endpoint = "none"
      BY <2>3, UploadStep
    <3> QED
      BY <3>1
  <2> QED
    BY <2>1, <2>2, <2>3 DEF IntakeNext
<1> HIDE DEF Alone
<1>2. IntakeSpec => [][Alone]_intakeVars
  BY <1>1, IntakeInvariant, PTL DEF IntakeSpec
<1> QED
  BY <1>2 DEF Alone, ItemsStandAlone
=============================================================================
