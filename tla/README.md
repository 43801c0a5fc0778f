# SDEP in TLA+

SDEP, the Single Digital Entry Point for short-term rental data, is a REST
service (FastAPI, SQLAlchemy, PostgreSQL, Keycloak). Competent authorities
announce *areas*; platforms report rental *activities* in those areas;
authorities read the activities of their areas. Nothing is overwritten: a
resubmission ends the current row and inserts the next version.

This directory holds TLA+ modules translated from the code under
`src/backend/app`, TLC configurations that check them on small instances, and
proofs for the TLA+ proof system. `PROJECT.json` maps every definition to the
lines it stands for and lists runs, mutants, findings, hazards and theorems.

Contents: [1 The system](#1-the-system) · [2 Modules](#2-modules) ·
[3 Runs](#3-runs) · [4 Findings](#4-findings) · [5 Fairness](#5-fairness) ·
[6 Proofs](#6-proofs) · [7 What the models leave out](#7-what-the-models-leave-out) ·
[8 Plan](#8-plan)

## 1 The system

Paths are relative to `src/backend/app`.

### Parts, state and operations

| Part | Code | State it keeps | Operations |
| --- | --- | --- | --- |
| Areas of competent authorities | `services/area.py`, `crud/area.py`, `crud/competent_authority.py`, `routers/ca_areas.py` | tables `competent_authority`, `area` | create or re-version an area (and always its authority), delete one's own area, lists and counts for authorities and platforms |
| Single activity submission | `services/activity.py`, `crud/activity.py`, `crud/platform.py`, `routers/str_activities.py` | tables `platform`, `activity` | create or re-version an activity (and always its platform), lists and counts for authorities |
| Bulk submission | `services/activity_bulk.py`, `routers/str_activities_bulk.py` | the same two tables | validate, deduplicate, look up areas, refuse deactivated ids, end and insert in two batch statements, answer per item |
| Transactions | `db/config.py` | one session per request | flush per statement, commit after the response, rollback on an exception |
| Audit log | `security/audit.py` | table `audit_log`, the running insert tasks | print a record, insert it in the background |
| Audit retention | `security/audit_retention.py`, `main.py` | the hourly loop | delete expired rows in batches, survive failures, be cancelled at shutdown |
| Tokens and roles | `api/common/security.py`, `security/bearer.py`, `routers/auth.py` and every router | the JWKS cached per process | fetch keys, verify a token, check roles and claims, issue a token |
| Lists and downloads | the GET endpoints of `routers/`, `services/` | none | pages with offset and limit, counts, one area's file |
| Schemas, composites, exception handlers | `schemas/`, `models/temporal.py`, `exceptions/` | none | validate items, convert them for the columns, check again on load, turn exceptions into statuses |
| Routing, headers, health, configuration, migrations | rest | none | not modelled |

All tables but `audit_log` share one scheme: a row has a technical id, a
functional id (several rows may share it: its versions), `created_at` and
`ended_at`. A row is current while `ended_at` is NULL. A functional id is
*deactivated* when it has rows and none is current; the services refuse it
from then on. Foreign keys hold technical ids, that is, versions: an activity
refers to the version of the platform and of the area it was reported under.

### How the parts interact

A router checks roles and claims and calls a service, which runs in the
session of the request. The area and activity sides meet in the area table
(activity requests read it, authorities' lists of activities join over it) and
in nothing else. Single and bulk submission write the same tables in different
ways: the single flow makes a new platform version with every request, the bulk
flow only when the name has changed; the single flow ends an activity by its
functional id, the bulk flow by functional id *and* platform version. The audit
middleware wraps everything and never waits for its insert.

### What is hard, and what correct means

- **Sequences of legal requests** (versions of four tables that refer to each
  other, two submission flows): versions are stacked, without overlap, gap or
  revival; references point to versions in force; nothing becomes invisible to
  its authority; an answer says what was stored.
- **Overlapping requests.** Read-then-update without locks at READ COMMITTED:
  which of these properties survive, and can requests block each other?
- **Layers that check different things**: schema, column and composite look at
  one item in turn; what one lets through another may choke on, for one item,
  for its whole batch, or for the list of an authority.
- **Reading while others write**: pages are independent SELECTs.
- **Failure inside a request**: an exception or a lost connection between two
  statements must leave nothing behind, also not half a batch.
- **Several processes on one database**: cleanup loops that select the same
  rows; every process has its own keys cached.
- **Something that must eventually happen**: expired rows go, requests end.
- **Outages**: Keycloak away while keys are needed; keys rotated or withdrawn.

The hazards in `PROJECT.json` name the line of each and the properties on it.

## 2 Modules

```
Versioning                     rows, versions, the statements all tables share
  AreaService                  authorities and areas        (request = step)
    ActivityService            platforms and activities     (request = step)
      Sdep                     the composition: the serial specification
        Reading                clients that read lists page by page
      Intake                   payloads, columns, composites, status codes
  ReadCommitted                what a statement sees and locks
    SdepTransactions           activity requests, SQL statement = step;
                               INSTANCE ActivityService WITH ... (refinement)
    AreaTransactions           area requests, SQL statement = step;
                               INSTANCE AreaService WITH ... (refinement)
AuditLog                       middleware, insert tasks, cleanup loops, processes
Access                         Keycloak, keys, tokens, roles and claims
MC<module>                     symmetry and constants for TLC
VersioningLemmas               lemmas about tables, for every proof below
  SdepProofs                   areas, platforms, activities
    ReadingProofs, IntakeProofs
  SdepTransactionsProofs       locks, history, visibility, isolation of platforms
  AreaTransactionsProofs       stacking, references, deletions, serial steps
AuditLogProofs, AccessProofs
```

**Versioning.** A table is a sequence of records; the position is the technical
id, timestamps are numbers, `NotEnded` (0) is NULL. `CurrentVersions`,
`ExistsAny`, `Deactivated` and `Ambiguous` are the queries of the four CRUD
modules, `EndVersions` and `NewVersion` their UPDATE and UPDATE + INSERT. All
timestamps of a transaction are one (`func.now()` is the transaction's start).

**AreaService.** Variables `competentAuthority`, `area`, the clock `now` and the
latest answer `areaReply`. `PostArea` is `create_area` with both deactivation
guards, the authority re-versioned on every request, the area looked up *by its
id alone*, a generated id when none is given. `DeleteArea` is the owner's soft
delete. `DeactivateCompetentAuthority` is an end set outside the API (the guards
and their tests exist for it). `OwnAreas`, `OwnAreaById`, `AllAreas` are the read
endpoints. `OtherTransaction` is any transaction that leaves both tables alone.

**ActivityService** extends it with `platform`, `activity`, `activityReply`.
`PostActivity` is `create_activity`: 422 for an unknown area or a deactivated
platform or activity, 500 when the lookup by activity id finds two current rows
(`scalar_one_or_none` raises), otherwise a new version of platform and activity.
`PostActivitiesBulk` is the whole bulk flow. `Verdict` gives the checks of an
item in the order of the service: Pydantic, *then* duplicates (last wins), *then*
area, *then* deactivation. `BatchRows` is the multi-row INSERT, `BatchStatus` the
201 / 200 / 422 of the router, where 422 is a returned response and commits.

**Sdep** is the composition; requests of one side leave the other's tables alone.
It is also the abstract specification of what a request amounts to.

**Reading** adds one client to Sdep who reads a list from its first row on while
others write. `Pages` are the pages that a SELECT with `ORDER BY created_at DESC`,
OFFSET and LIMIT may return: rows with the same timestamp in any order, and in
another one for the next page. The reader keeps what it has seen; the database
keeps nothing between two pages.

**Intake** adds to ActivityService what a client really sends: times with or
without a zone, ids that are missing, empty or no strings, numbers, file names.
`SchemaAccepts` and `SchemaRaises` are the schema, `Fits` the columns, `Loads` the
composite that SQLAlchemy builds for every row it loads. `PostItem`, `PostBatch`
and `PostUpload` are the handlers: which layer fails decides between 422, an item
refused, and 500 for everything.

**ReadCommitted.** A row carries who inserted it and has not committed, and who
has ended it and holds its lock, which gives READ COMMITTED: a SELECT sees
committed rows and its own; an UPDATE finds its rows, then locks them one by one,
waits for a holder and looks at `ended_at` again. Rows of a transaction that was
rolled back stay as dead rows, so that technical ids skip as a sequence does.

**SdepTransactions.** The activity requests with one SQL statement per step for
several workers. An UPDATE locks the rows it has found in any order; `Waits` is who
waits for whom, and `DeadlockDetected` fails a member of a circle. `InsertAndAnswer` sends the response, `Commit` comes after it
(the code behind the `yield` of `get_async_db`), `Refuse` is an exception and its
rollback, `Crash` a lost connection. `finished` holds the latest transaction that
ended. `overlapped` is history: the platforms of which two requests were served at
once. `Serial` is the instance of `ActivityService` over the committed rows.

**AreaTransactions** does the same for `create_area`, `delete_area` and an
authority that is ended, with the two statements of an activity request that
concern areas (the lookup first, the INSERT last). `Serial` is the instance of
`AreaService`.

**AuditLog.** `Serve` is the part of the middleware after the answer: print,
start a task. `WriteRecord` and `WriteFails` end the task. `WakeUp`,
`SelectBatch`, `DeleteBatch`, `CycleFails` are the loop with its two statements
per batch; between them another replica may delete the same rows. `Stop` and
`Start` are the lifespan. `expired`, `deleted`, `printed`, `due` and the counters
are history that the properties and the bounds need; `logged` is the sum of the
numbers the code logs.

**Access.** Keycloak (signing key, published keys, outages), the issued tokens,
and per process the cached key set. `Request` is one request with a token;
`Answer` says what it is answered, up to the call of the service. `Endpoints`
has the roles and claims of the thirteen endpoints, `Failed` the checks in their
order, `Refusal` what each answers. `boot`, the keys published when a process
started, is history.

## 3 Runs

"Expect pass" runs finish with no error; "violation" runs are findings (section
4). Every property of a passing run has a mutant in `PROJECT.json`: a plausible
bug (`Bug_...`) in one definition that breaks it.

| Run | Module | Question | Bounds |
| --- | --- | --- | --- |
| `reading` | MCReading | Serial requests of both sides, single endpoint only, and clients that read lists in between: versions stacked, no gap, references in force, every area and activity with one authority; what a reader may miss or see twice (`PagesMeet`) | 2 authorities, 2 areas, 2 platforms, 2 activity ids, 1 name, 5 transactions, pages of 1 row |
| `sdep_bulk` | MCSdep | Both endpoints mixed: tables consistent, no history rewritten, nothing revived, the answer matches the store, the last item with an id decides alone, nothing ends without a replacement | 1 authority, 2 areas, 1 platform with 2 names, 2 ids, batches of 2, 5 transactions |
| `one_at_a_time` | MCSdepTransactions | Do statements, commits, rollbacks and crashes amount to one serial step? (refinement) | 1 worker, 1 platform, 2 names, 2 ids, batches of 2, crashes, 4 transactions |
| `transactions` | MCSdepTransactions | Two requests interleave: platforms that wait for their answers do not disturb each other; committed rows are not rewritten, nothing visible vanishes for a moment, requests get into a deadlock only over the rows of a platform of which two requests overlap, refusals are justified | 2 workers, 2 platforms, 1 name, 2 ids, batches of 2, crashes, 3 transactions |
| `area_transactions` | MCAreaTransactions | The same for area requests: stacking, references, deletions that hold, one serial step for a request that runs alone (refinement), every request ends (liveness) | 2 workers, 2 authorities, 1 area id, crashes, 3 transactions |
| `audit_log` | MCAuditLog | A record is in one place, and lost only by a failing insert or a stop; only expired rows are deleted, all that are due in a completed cycle, and all eventually; counts are right | 3 records, 2 replicas, batches of 2, 2 failures, 1 stop |
| `access` | MCAccess | Who is passed on to a service; when is a faultless token refused | 2 processes, 4 clients, 3 keys, 2 tokens, both kinds of outage |
| `intake` | MCIntake | Is what is stored sound, do items of a batch stand on their own, when can a stored row make a list fail | one payload per boundary of every rule, batches of 2, see `MCIntake` |
| `area_takeover`, `bulk_resubmission`, `keycloak_down`, `batch_blocked` | | violations, section 4 | smallest instance that shows it |

**Overlaps.** The code states its assumption on concurrency itself
(`DATAMODEL.md:194`, "Single concurrency (no optimistic locking)"). The history
variable `overlapped` makes it precise: the properties of `transactions` and
`area_transactions` with "unless ... overlapped" say what two requests cannot do
to each other as long as they name different platforms, authorities or areas,
and to a third that comes later; the ones without (`CommittedHistoryKept`,
`NeverAbsent`, `EveryRequestEnds`) hold for any overlap. What
an overlap can break is in the exploration table below.

**Deadlocks.** PostgreSQL promises no order in which an UPDATE meets its rows, and
the batch UPDATE has no ORDER BY, so two batches may lock the same two rows in
opposite order. PostgreSQL then fails one of them (`DeadlockDetected`), which the
client sees as 500. `Deadlock.cfg` shows it; `DeadlockOnlyWithinPlatform` says that
it takes two overlapping requests of the platform whose rows they are. Waiting
across platforms does happen (single requests end rows of other platforms), but
such a wait never closes a circle: the UPDATE of a batch ends rows of its own
platform only.

**Paging.** `PagesMeet` is the most that OFFSET over a changing list can give: a
row that stays current from the first page to the last is missed only if a newer
row left the list for good (a deletion; a replacement moves its row to the front
and keeps the offset right), and is seen twice only if a row was added. Rows that
tie are exempt.

**Why the bounds are enough.** `MaxTime` bounds the number of transactions, and
with it every table. Five serial transactions on two of everything contain: a
version of authority, area, platform and activity, a second owner or platform
using the same id, deletion, resubmission after deletion, and reading through
versions that have ended. The properties of tables relate at most two rows of
one functional id and the rows they refer to. Pages of one row put a page
boundary, and with it a possible write, after every row. Batches of two have
every pair of verdicts and duplicates; the interplay of items is pairwise
(`Verdict` looks at one later item). A third transaction gives two overlapping
ones something committed to fight over, or a request that comes after them.
A deadlock takes two rows locked in opposite order by two batches, after a
request that stored both: batches of two ids, two workers, three transactions. Two
replicas and three records with batches of two give a full batch, a rest, and a
rival between SELECT and DELETE. Three keys give one withdrawn, one older, one
signing. Symmetry is used for sets whose elements nothing distinguishes, and in
no run with a liveness property. Deadlock checking is off where `MaxTime` ends
every behaviour, and on for `AuditLog` and `Access`.

**Configurations kept for exploration**, not part of the list of runs:

| Configuration | Shows |
| --- | --- |
| `AreaService.cfg` | the area side alone with three area ids, six transactions; passes |
| `SdepSingle.cfg` | the serial system without readers, single endpoint only, six transactions; passes |
| `Concurrent.cfg` | overlapping requests of one platform: types hold and every request ends (liveness); passes |
| `ActivityTakeover.cfg` | the finding `area_takeover` for platforms and activities |
| `BulkLocksOut.cfg` | after `bulk_resubmission` every single submission of the id fails with 500 |
| `BulkErrorCommits.cfg` | a batch refused altogether is answered 422 by a returned response, and the platform version it made is committed; `ARCHITECTURE_TECH.md:429` says an error rolls the operation back |
| `TwoCurrentPlatforms.cfg` | two overlapping requests of one platform leave two current versions, and every later request of the platform fails with 500 |
| `Deadlock.cfg` | two overlapping batches of one platform lock the same rows in opposite order; one of them is failed with 500 |
| `FirstContact.cfg` | a platform's first two requests overlap: the second is refused as deactivated, because "none current" and "none at all" are two statements |
| `AnsweredNotStored.cfg` | the connection is lost between the response and the commit |
| `AreaDeleted.cfg` | DELETE and a resubmission of the area overlap: DELETE answers 204, the area stays |
| `AreaRevived.cfg` | the other way round: a resubmission that overlaps with DELETE revives the area |
| `AreaReported.cfg` | an activity is stored under a version of its area that was ended in between |
| `ReadingTies.cfg` | the rows of a batch tie: pages of an unchanged list may repeat and miss rows, as SQL permits (`INTEGRATION_TESTS.md:176` expects consistent pages) |
| `UnreadableList.cfg` | a row stored by the bulk endpoint, 2025 where it was written and 2024 in UTC, makes the list of the authority fail with 500 |
| `UnreadableFile.cfg` | a file name outside Latin-1 is stored with 201 and cannot be downloaded |
| `AuditShutdown.cfg` | insert tasks lost at shutdown |
| `AuditRestarts.cfg` | a process that is always restarted within the hour never cleans up (`SECURITY.md:111` describes an hourly cleanup; the loop sleeps first) |
| `StaleKeys.cfg` | after a key rotation, tokens are refused by processes that cached the older keys, without any outage |

## 4 Findings

1. `area_takeover`: `create_area` ends the current area with that `areaId`
   whoever owns it; `DATAMODEL.md:100` and the docstring say the id may be owned
   by several authorities. The activity side has the same shape.
2. `bulk_resubmission`: the bulk flow ends versions under the platform version in
   force only. After any single POST of the platform (which makes a new version)
   a bulk resubmission leaves two current versions of the activity.
3. `batch_blocked`: one item whose times are written with and without a zone
   (`schemas/activity.py:142` permits dates without a time) raises `TypeError` in
   the validator, which is no validation error, and the whole batch is answered
   500; `schemas/activity_bulk.py:19` says one invalid item does not block the
   others. A number as `countryOfGuests` and an `activityId` that is no string do
   the same.
4. `keycloak_down`: `validate_jwt_token` turns "Keycloak unavailable" into 401;
   `API.md` documents 503 for it and 401 for faults of the token.

## 5 Fairness

- `SdepTransactions`, `AreaTransactions`: weak fairness of the next statement of a
  worker that has started. The event loop resumes every request and PostgreSQL
  executes every statement that does not wait for a lock. Nothing makes a client
  send a request (`Start`), and crashes are never required. With it
  `EveryRequestEnds` says that no request waits for ever: no row stays locked by a
  request that is over, and area requests, which lock the authority before the
  area, do not wait for each other in a circle. Activity requests may; there the property rests on PostgreSQL's deadlock detector, whose
  step is among the fair ones (`deadlock_timeout` always expires).
- `AuditLog`: weak fairness of `WakeUp`, `SelectBatch`, `DeleteBatch`,
  `WriteRecord` per replica (event loop, `asyncio.sleep`, PostgreSQL) and of
  `Start` (Kubernetes restarts a process). Failures and stops are bounded in
  `audit_log`: if a process may stop for ever, cleanup is not guaranteed, as
  `AuditRestarts.cfg` shows.
- `AreaService`, `ActivityService`, `Sdep`, `Reading`, `Intake`, `Access` have
  safety only: what happens is up to clients.

## 6 Proofs

TLC checks instances; the theorems hold for every value of the constants that
satisfies the named assumptions: `AreaConstantsAssumption` (`NoId` is no area id,
`MaxTime` a natural), `ActivityConstantsAssumption`, `TransactionConstantsAssumption`
(the names of workers are no row marks), `AreaTransactionConstantsAssumption` (the
same, and a generated id is neither one that clients choose nor `NoId`),
`ReadingConstantsAssumption` (a page has rows), `IntakeConstantsAssumption` (what payloads are), `AuditAssumption` (a
positive batch size, finitely many records and processes) and `AccessAssumption` (what clients
are). A few theorems have a hypothesis of their own: `MaxBatch = 0` says that
platforms use the single endpoint only, `~StopsForever` that
stops are counted and bounded. Nothing else is assumed.

**Areas (VersioningLemmas, first part of SdepProofs).** The four properties of a table
(stacked, gapless, proper intervals, continued) are preserved by any statement
that ends some current versions and appends at most one row that takes the place
of what it ended. The lemmas prove this once, for any table. `AreaInv` is the
inductive invariant: types and foreign key, stacking of both tables, no gaps,
announcement in force, and `ProperIntervals`. The last conjunct is why it is
needed: stacking compares the end of an old version with the creation of the new
one, and only follows if no row is from the future. Per action, the proof shows
which of the two kinds of write happens to which table (`PostAreaWrites`,
`OtherAreaWrites`) and applies the lemmas. Theorems: `AreaInvariant`,
`AreaTypeCorrect`, `AreaTimelines`, `AreaAnnouncements`, `AreaOwnership`
(`OwnerOf` is fixed when a row is inserted, and stacking makes the lookup by id
unique), and the action properties `AreaHistory` and `AreaResurrection`.

**The whole system (SdepProofs).** A step of `Sdep` is a step of `AreaSpec`, because
activity requests leave the area tables alone, so the area invariant
holds in the composition (`SdepAreaInvariant`). `SdepInv` is the inductive
invariant of all four tables: `AreaInv`, types and foreign keys, stacking and
gaplessness of platforms, `SubmissionsStacked` (per platform *version*: all that
the bulk flow keeps up, see finding 2), `ReportedUnderVersionsInForce`, and
`ProperIntervals` of both tables, needed for the reason given above. Per handler
the proof shows one `ActivityOutcome`: which rows end and which are appended
(`ActivityWrites`), that an appended row takes the place of what ended and
refers to current versions (`PlatformReplaced`, `ActivitiesReplaced`), and that
the answer agrees with it. For the bulk flow this rests on three facts about a
batch of any size: no two accepted items have one id (`AcceptedItem`), the
accepted items are listed once each (`OrderListsOnce`, by cardinality), and the
INSERT appends one row per item (`BatchRowsInserted`). Invariants:
`SdepInvariant`, `SdepTypeCorrect`, `PlatformTimelines`, `Submissions`,
`ReportedInForce`, `ActivityReach`. Action properties: `SdepHistory`,
`SdepResurrection`, `SdepReplacement`, `SdepAnswers`, `SdepLastItem`.

While platforms use the single endpoint only (`MaxBatch = 0`), the versions of an
activity are stacked across *all* versions of its platform
(`SingleEndpointStacks`), because the UPDATE of the single flow ends whatever has
the id. That fails as soon as one batch is allowed, see finding 2.

**Reading (ReadingProofs).** A row whose `created_at` is unique is on a page
exactly if the number of rows ahead of it is within the page (`PageOfRow`, by
cardinality). `ReadingInv` carries that through the reading: there are never
fewer rows ahead of a row unless a newer one has left, and never more unless one
was added. A replaced row does not count as leaving, because its successor stands
further ahead and successors are distinct (an injection, by stacking). Proved: `ReadingInvariant`; `AreaPagesMeet`
for the three area lists without any condition; `AllPagesMeet` with the list of
activities too, for `MaxBatch = 0`, since after a batch neither stacking nor
unique timestamps hold.

**Intake (IntakeProofs).** `IntakeInv` is `SdepInv` with one content for every
activity and one file name for every area, all of them accepted by the schema and
the columns, and with nothing deactivated: no request of this module ends a
current id without replacing it, hence no item is refused but for its own payload
or the area (`NothingDeactivated`, which `ItemsStandAlone` needs). A batch that is
accepted fixes the order of its INSERT (`OrderIsUnique`, from a smallest
counterexample), so every new row has the content of one accepted item and
conversely. `StoredIsValid` says of the start only that it was written as 2025 or
later: the rule of `DATAMODEL.md:156` does not hold of the stored instant
(`UnreadableList.cfg`). Proved: `IntakeInvariant`, `ContentsAreValid`,
`ListsFailAtYearTurnOnly`, `SingleStaysReadable`, `ItemsIndependent`.

**Overlapping activity requests (SdepTransactionsProofs).** `TransactionsInv` has
three layers. `Typed`: rows and transactions are well formed and every worker is
at a statement of its own request. `Locked`: only committed rows are marked as
ended and not yet committed, by the request that ended them: a platform row by a
request of that platform, an activity row by a request that is about to replace or
end that id in that version. `Owned`: the uncommitted rows of a
request are the version of its platform and the activities of its answer, and
whatever it has ended and not replaced yet is still to come. The second layer
shows that only the holder of a row gives it an end, and that a rollback takes
back only that (`TransactionsKeepHistory`). With the third layer, what a request has ended stays
visible to others until they see the successor (`TransactionsNeverHide`). Each
statement is first put into these terms, and each layer is shown to survive it
for the worker that takes the step and for the others.

**Isolation (last part of SdepTransactionsProofs).** READ COMMITTED gives every statement
another snapshot. `Isolation` follows a request that nobody else of its platform
overlaps: everything stored of its platform is older than it (`Newest`), what its
SELECTs found is still so (`FoundStillHolds`), the version it uses is in force when
it commits (`VersionInForce`), and its batch ends all it replaces
(`BatchIsolated`). The other half is that no statement of another platform's
request reaches a row of this one (`OthersLeavePlatform`). Proved:
`TransactionsIsolated`, `TransactionsUndisturbed`, `TransactionsRefuseDeactivated`.

**Deadlocks (same module).** Every member of a circle waits and is waited for. If
it ends rows of its platform, the next one in the circle is a request of the same
platform, by `Locked`. If it ends activities of some version, so does the next one,
of the same version; and this one, which holds one such row and waits for another,
is either a batch, and then of the version's platform (`UpdateScope`), or a single
request about one id, of which the version would then have two current rows. That
`PlatformsUndisturbed` excludes, and two batches of one platform overlap:
`TransactionsDeadlockWithinPlatform`. No order of locking is assumed.

**Overlapping area requests (AreaTransactionsProofs).** An area request touches two
functional ids, its authority and its area, and another request may overlap it on
one and not on the other. `AreaTransactionsInv` therefore has a predicate of what a
worker remembers, `Fits(w, pc, owner, targets, version)`: `Locks` and `OwnRows` say
what it has ended and inserted, whatever overlaps; `OnAuthority` and `OnArea` say,
each on its own condition, what its next statement will find (an area found is
current until the UPDATE, the UPDATE ends all that the INSERT replaces, a DELETE
that has answered has ended every current version, all that is committed is older).
A statement that only reads is settled by comparing the predicate before and after
in one state, a step of another worker by `OthersKeep`: it reaches no row of an id
that only this request names. A generated area id is a timestamp, hence the last
assumption on the constants; `Marked` carries that to the rows. The rest of the
invariant says that nothing committed is younger than the clock and that an area
becomes visible together with the version that announced it
(`AnnouncedTogether`). Proved: `AreaTransactionsInvariant`, `AreaVersionsStacked`,
`AreaReferencesInForce`, `AreaDeletionHolds`. The attempt showed that
`DeletionHolds` has to speak of the request that ends, not of one that has answered
204 while another one commits (the run, with its one area id, cannot tell them
apart), and which ids may not be confused.

**The serial specification of area requests (last part of AreaTransactionsProofs).**
`ImplementsAreaService` maps the committed rows to the tables of `AreaService` while
no two requests overlap. Rolled back rows leave holes among the technical ids, so
the mapping closes them up: the id of a committed row is the number of committed
rows up to it (`Place`, `RowAt`). What a statement does to the tables with holes
is first carried over to the closed ones (lemmas on `Place` in VersioningLemmas:
rows that stay keep their place, an appended row comes last, an UPDATE ends the
same rows). The second inductive invariant, `Serially`, has two parts: `AloneIsAlone`
(nobody else is in a transaction while the mapping says that a request is served
alone, so that what is not its own is committed) and `Amounts` (what the request
has written so far, committed now, is what its one step of `AreaService` would have
written by then). At COMMIT the tables are known in closed form
(`AuthoritiesCommitted`, `AreasCommitted`) and are those of `PostArea` or
`DeleteArea`; a refusal leaves both as they were and answers as the guard of
`AreaService` says (`PostRefused`, `DeleteRefused`); no SELECT of a request served
alone finds two rows, by stacking. Every other statement, rollback and crash is
a stutter. Proved: `AreaRequestsAreSerial`.

**Audit log (AuditLogProofs).** `AuditInv` adds to `TypeOK`: deleted rows are
expired, a running cycle's due rows are expired, its selected batch is among the
due rows, and while a cycle is between SELECT and DELETE every due row still in
the table is in the batch if the batch is short. The last part makes
`CyclesComplete` go through although other replicas delete rows in between: a
short batch contained *all* that was left, and nothing due is ever added. Proved:
`AuditTypeCorrect`, `RetentionSafe`, `CyclesComplete`. As long as no
process has stopped, the printed records that are neither stored nor with a task
are at most as many as the inserts that failed (`RecordsLostByFailure`).
`CountInv` says that the logged counts and those of the running cycles add up to
the deleted rows (`CountsAddUp`). The sum over the processes is a recursive
function of the community modules: that it exists (`SumsExist`), and what one
changed summand does to it (`SumsDiffer`), is an induction over the size of the
subsets, written out as the absence of a smallest exception (`Inductive`).

**Access (AccessProofs).** `AccessInv`: a process that has fetched holds every
key that was published when it started and still is; any other key, published or
cached, is newer than those. A withdrawn key is therefore never cached by a
process started later. `StatusMeans` relates the status to the checks (a success
means that none failed). Proved: `AccessInvariant`, `AccessTypeCorrect`,
`Entitled`, `OutagesPass`.

**Model-checked only**: liveness (`ExpiredDeleted`, `EveryRequestEnds`), since
the prover handles neither fairness nor ENABLED; the refinement
`ImplementsActivityService` of `SdepTransactions`.

## 7 What the models leave out

- **Data**: names (except that of the platform, which the bulk flow compares),
  addresses, dates, files. Whether an item passes validation is a free choice:
  `InvalidItem`. Generated UUIDs are any unused id.
- **SdepTransactions**: areas (a request names one that stays current), invalid
  and duplicate items (decided without the database). The INSERT and the
  response are one step. Transactions start at distinct timestamps. Foreign-key
  locks (KEY SHARE) do not conflict with the UPDATE of `ended_at` (NO KEY UPDATE)
  and are left out. PostgreSQL looks for a deadlock after `deadlock_timeout` and
  may fail any member of the circle; so may the model.
- **AreaTransactions**: of an activity request only the lookup of the area and
  the INSERT that refers to it. Versions of an authority that a request of the
  same authority makes meanwhile are in; two authorities never write one row of
  `competent_authority`. An UPDATE is assumed to lock its rows in table order
  (`NextTarget`), which no statement states; it finds more than one row only after
  requests of one authority or area have overlapped, so the order is of no
  consequence to what holds without overlaps, and the proofs use none of it. The
  simplifications of `SdepTransactions` apply.
- **Reading**: one reader, who asks for one list at a time and only for the next
  page; the run lets platforms use the single endpoint, since a bulk request adds
  nothing but ties (`ReadingTies.cfg`). Counts are a separate SELECT and are as
  stale as a page.
- **Intake**: lengths and patterns of names and addresses and the size of a file
  are left out: they refuse one item, like the rules that are in. So are rows
  ended outside the API, because no check of a payload looks at them. What a proxy or the client library does to a response
  is external.
- **Access**: fetching keys and verifying block the event loop (synchronous
  client), hence one step per request; a body that is not JSON (answered before
  the token is looked at) and a JWKS answer that is not JSON are left out; so are
  file size and area name, checked by the handler after the claims. Keycloak
  itself is external, modelled from how the code uses it.
- **Connection pool**: a request holds one connection from its first statement to
  its commit, and the audit task takes its own only after the answer, so no
  holder waits for a second one; what is left is a timeout of SQLAlchemy's queue,
  which is external. **503 for the database** is one handler without state.
- **Not modelled**: routing, headers, health, ping's body, OpenAPI (stateless);
  configuration, migrations, deployment, scripts (start-up only).

## 8 Plan

Done: `Versioning`, `AreaService`, `ActivityService`, `Sdep`, `ReadCommitted`,
`SdepTransactions`, `AreaTransactions`, `Reading`, `Intake`, `AuditLog`, `Access`,
and the proofs of section 6.

Next: the refinement of `SdepTransactions` for any number of workers, by the route
taken for area requests: the mapping is already the same (`Place`).
