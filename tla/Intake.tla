------------------------------- MODULE Intake -------------------------------
(***************************************************************************)
(* What clients may send, what is stored of it, and whether it can be read *)
(* back: the request schemas (schemas/activity.py, schemas/activity_bulk.py*)
(* and the form of routers/ca_areas.py), the columns and composites of the *)
(* models, and the status codes of exceptions/handlers.py, on top of the   *)
(* services of ActivityService.                                            *)
(*                                                                         *)
(* The three layers do not check the same things.  The schema compares     *)
(* times as they are written, in their own time zone; the column stores an *)
(* instant and gives it back in UTC; and the composite models/temporal.py  *)
(* checks the year again whenever a row is loaded.                         *)
(***************************************************************************)
EXTENDS ActivityService

CONSTANTS
  Items,      \* payloads of activities, see below
  Filenames,  \* of uploaded shapefiles, see below
  EmptyId,    \* the activityId "", which means none
  NotText,    \* an activityId that is no string
  MaxInteger  \* the largest value of an INTEGER column

VARIABLES
  content,    \* content[i]: the attributes of row i of activity
  filename,   \* filename[i]: the file name of row i of area
  sent        \* history: the latest request of a platform, for the properties

intakeVars == <<areaVars, activityVars, content, filename, sent>>

(***************************************************************************)
(* A datetime as it is sent: its wall clock, in hours since the beginning  *)
(* of 2025, and its distance from UTC, or no time zone at all (a date only,*)
(* for example), which is then taken for UTC, the zone of the server.      *)
(* countries is the shape of countryOfGuests: absent, a list, or a number. *)
(***************************************************************************)
DateTime == [wall: Int, offset: Int, zoned: BOOLEAN]

Payload ==
  [activityId: ActivityIds \cup {NoId, EmptyId, NotText},
   start: DateTime, end: DateTime, number: Int,
   countries: {"none", "list", "number"}]

ASSUME IntakeConstantsAssumption ==
  /\ Items \subseteq Payload
  /\ \A item \in Items : /\ ~item.start.zoned => item.start.offset = 0
                         /\ ~item.end.zoned => item.end.offset = 0
  /\ Filenames \subseteq [length: Nat, latin1: BOOLEAN]
  /\ {EmptyId, NotText, NoId} \cap ActivityIds = {}
  /\ MaxInteger \in Nat

Begin2025 == 0

Instant(d) == d.wall - d.offset

-----------------------------------------------------------------------------
(***************************************************************************)
(* The schema                                                              *)
(***************************************************************************)

\* validate_year_ge_2025 looks at the year as written; wrong: it is left out.
Bug_AnyYear(item) == TRUE
StartAccepted(item) == item.start.wall >= Begin2025

\* Wrong: the clocks are compared as they are written.
Bug_WallClocks(item) == item.start.wall < item.end.wall

\* validate_end_after_start, of two datetimes that Python can compare.
EndAccepted(item) == Instant(item.start) < Instant(item.end)

\* Exceptions that are no validation errors, and that Pydantic lets through:
\* comparing a datetime with a zone to one without, and iterating a number.
SchemaRaises(item) ==
  \/ StartAccepted(item) /\ item.start.zoned # item.end.zoned
  \/ item.countries = "number"

SchemaAccepts(item) ==
  /\ ~SchemaRaises(item)
  /\ item.activityId # NotText
  /\ StartAccepted(item) /\ EndAccepted(item)
  /\ item.number >= 1

\* empty_string_to_none.
NormalId(activityId) == IF activityId = EmptyId THEN NoId ELSE activityId

-----------------------------------------------------------------------------
(***************************************************************************)
(* The columns and the composites                                          *)
(***************************************************************************)

ContentOf(item) ==
  [start |-> Instant(item.start), end |-> Instant(item.end), number |-> item.number]

\* asyncpg refuses a value that is too large for its column.
Fits(item) == item.number <= MaxInteger

\* Temporal.__init__, which SQLAlchemy calls for every row it loads.
Loads(c) == c.start >= Begin2025 /\ c.start < c.end

\* GET /ca/activities loads all its rows, or fails as a whole.
ListStatus(ca) == IF \A i \in ActivitiesOf(ca) : Loads(content[i]) THEN 200 ELSE 500

\* GET /ca/areas/{id} and GET /str/areas/{id} put the name of the file into a
\* header, which is encoded as Latin-1.
FileStatus(i) == IF filename[i].latin1 THEN 200 ELSE 500

-----------------------------------------------------------------------------
(***************************************************************************)
(* Requests                                                                *)
(***************************************************************************)

Nothing == [endpoint |-> "none", areaId |-> NoId, items |-> <<>>]

\* An exception: its handler answers, the transaction is rolled back.
Failed(status) ==
  /\ ActivityTransaction
  /\ activityReply' = Failure(status)
  /\ UNCHANGED <<platform, activity, content, filename>>

\* Wrong: the new row is not loaded again, as in the bulk flow.
Bug_NoRefresh(item) ==
  \/ ~Fits(item)
  \/ \E i \in CurrentVersions(activity, item.activityId) : ~Loads(content[i])

\* create_activity loads the current version before it ends it, and the new
\* one after it has inserted it (session.refresh).
Unstorable(item) ==
  \/ ~Fits(item)
  \/ ~Loads(ContentOf(item))
  \/ \E i \in CurrentVersions(activity, item.activityId) : ~Loads(content[i])

\* POST /str/activities.
PostItem(p, name, item, areaId) ==
  LET id == NormalId(item.activityId)
  IN  /\ sent' = [endpoint |-> "single", areaId |-> areaId, items |-> <<item>>]
      /\ \/ SchemaRaises(item) /\ Failed(500)
         \/ ~SchemaRaises(item) /\ ~SchemaAccepts(item) /\ Failed(422)
         \/ /\ SchemaAccepts(item)
            /\ ~ActivityRefused(p, id, areaId) /\ Unstorable(item)
            /\ Failed(500)
         \/ /\ SchemaAccepts(item)
            /\ ActivityRefused(p, id, areaId) \/ ~Unstorable(item)
            /\ PostActivity(p, name, id, areaId)
            /\ content' = IF activityReply'.status = 201
                            THEN Append(content, ContentOf(item)) ELSE content
            /\ UNCHANGED filename

\* Wrong: duplicates are discarded before the items are validated.
Bug_LateValidation(item, areaId) ==
  IF SchemaAccepts(item) THEN [activityId |-> NormalId(item.activityId), areaId |-> areaId]
                         ELSE [activityId |-> NormalId(item.activityId), areaId |-> NoId]

\* What step 1 of create_activities_bulk makes of an item.
Validated(item, areaId) ==
  IF SchemaAccepts(item) THEN [activityId |-> NormalId(item.activityId), areaId |-> areaId]
                         ELSE InvalidItem

\* Step 1 itself fails: an exception of the schema, or an id that is no string
\* and cannot be given back with the error message.
StepOneRaises(item) ==
  SchemaRaises(item) \/ (~SchemaAccepts(item) /\ item.activityId = NotText)

\* POST /str/activities/bulk.  The INSERT has one statement for all items, and
\* no row is loaded.
PostBatch(p, name, batch, areaId) ==
  LET items == [i \in DOMAIN batch |-> Validated(batch[i], areaId)]
  IN  /\ sent' = [endpoint |-> "bulk", areaId |-> areaId, items |-> batch]
      /\ \/ /\ \E i \in DOMAIN batch : StepOneRaises(batch[i])
            /\ Failed(500)
         \/ /\ \A i \in DOMAIN batch : ~StepOneRaises(batch[i])
            /\ ~Deactivated(platform, p)
            /\ \E fids \in ResolvedIds(items), i \in DOMAIN batch :
                  Verdict(items, fids, i) = "OK" /\ ~Fits(batch[i])
            /\ Failed(500)
         \/ /\ \A i \in DOMAIN batch : ~StepOneRaises(batch[i])
            /\ PostActivitiesBulk(p, name, items)
            /\ \E order \in InOrder({i \in DOMAIN activityReply'.verdicts :
                                        activityReply'.verdicts[i] = "OK"}) :
                  /\ \A n \in DOMAIN order : Fits(batch[order[n]])
                  /\ content' = content \o [n \in DOMAIN order |-> ContentOf(batch[order[n]])]
            /\ UNCHANGED filename

\* POST /ca/areas.  The length of areaName is checked, that of the file name
\* (a column of 64 characters) is not.
MaxName == 64

PostUpload(ca, areaId, file) ==
  /\ sent' = Nothing
  /\ \/ /\ ~AreaRefused(ca, areaId) /\ file.length > MaxName
        /\ Failed(500)
     \/ /\ AreaRefused(ca, areaId) \/ file.length <= MaxName
        /\ PostArea(ca, areaId)
        /\ filename' = IF areaReply'.status = 201 THEN Append(filename, file) ELSE filename
        /\ activityReply' = NoActivityReply
        /\ UNCHANGED <<platform, activity, content>>

IntakeInit ==
  /\ AreaInit /\ ActivityInit
  /\ content = <<>> /\ filename = <<>> /\ sent = Nothing

IntakeNext ==
  \/ \E p \in Platforms, name \in Names, areaId \in AreaIds :
        \/ \E item \in Items : PostItem(p, name, item, areaId)
        \/ \E n \in 1..MaxBatch : \E batch \in [1..n -> Items] : PostBatch(p, name, batch, areaId)
  \/ \E ca \in CompetentAuthorities, areaId \in AreaIds, file \in Filenames :
        PostUpload(ca, areaId, file)

IntakeSpec == IntakeInit /\ [][IntakeNext]_intakeVars

-----------------------------------------------------------------------------
(***************************************************************************)
(* Properties                                                              *)
(***************************************************************************)

\* Each row has its contents.  A stay ends after it begins, as instants and
\* whatever zones it was sent in, and numbers and names fit their columns.  But
\* of the start docs/DATAMODEL.md also says that its year is 2025 or later, and
\* that holds only of the datetime as it was written: the instant that is
\* stored may be one of 2024 in UTC (UnreadableList.cfg).
StoredIsValid ==
  /\ Len(content) = Len(activity) /\ Len(filename) = Len(area)
  /\ \A i \in DOMAIN content : /\ content[i].start < content[i].end
                               /\ content[i].number \in 1..MaxInteger
                               /\ \E item \in Items : /\ content[i] = ContentOf(item)
                                                      /\ item.start.wall >= Begin2025
  /\ \A i \in DOMAIN filename : filename[i].length <= MaxName

\* The rows that a request has inserted.
NewRows == (DOMAIN content') \ DOMAIN content

\* The single endpoint answers 201 only for what the authorities can read: no
\* row of it can ever make their list fail.
SingleIsReadable ==
  [][sent'.endpoint = "single" => \A k \in NewRows : Loads(content'[k])]_intakeVars

\* The last of the accepted items with its id.
Prevails(items, i) ==
  /\ SchemaAccepts(items[i])
  /\ \A j \in DOMAIN items :
        (i < j /\ SchemaAccepts(items[j]))
          => \/ NormalId(items[j].activityId) = NoId
             \/ items[j].activityId # items[i].activityId

\* The items of a batch stand on their own: one that the schema accepts is
\* stored as it was sent, under a current area, unless a later item that is
\* accepted too has its id.  An invalid item supersedes nothing.  (No request
\* of this module deactivates a platform or an activity.)
ItemsStandAlone ==
  [][(/\ sent'.endpoint = "bulk"
      /\ CurrentVersions(area, sent'.areaId) # {}
      /\ activityReply'.status # 500) =>
       \A i \in DOMAIN sent'.items :
          Prevails(sent'.items, i) =>
            \E k \in NewRows : /\ content'[k] = ContentOf(sent'.items[i])
                              /\ activity'[k].fid = activityReply'.fids[i]]_intakeVars

\* Nothing else than the turn of the year makes the list of an authority fail:
\* a rental that starts in 2025 where it was written and in 2024 in UTC.
ListFailsOnlyAtYearTurn ==
  \A ca \in CompetentAuthorities :
     ListStatus(ca) = 500 =>
       \E i \in ActivitiesOf(ca), item \in Items :
          /\ content[i] = ContentOf(item)
          /\ Instant(item.start) < Begin2025 /\ Begin2025 <= item.start.wall

\* What the docstring of BulkActivityRequest says: one invalid item does not
\* block the other items in the batch.
InvalidItemBlocksNothing ==
  [][(/\ sent'.endpoint = "bulk"
      /\ CurrentVersions(area, sent'.areaId) # {}
      /\ \E i \in DOMAIN sent'.items : SchemaAccepts(sent'.items[i]))
        => activityReply'.status # 500]_intakeVars

\* What is answered with 201 can be read back: the list of every authority and
\* the file of every area.
ActivitiesReadable == \A ca \in CompetentAuthorities : ListStatus(ca) = 200
FilesReadable == \A i \in AllAreas : FileStatus(i) = 200
=============================================================================
