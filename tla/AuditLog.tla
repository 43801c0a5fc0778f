------------------------------ MODULE AuditLog ------------------------------
(***************************************************************************)
(* The audit log of SDEP: the middleware that records requests             *)
(* (security/audit.py), the hourly loop that deletes expired rows          *)
(* (security/audit_retention.py), and the start and stop of the processes  *)
(* that run both (main.py, lifespan).                                      *)
(*                                                                         *)
(* A record passes from the middleware, which prints it and starts a task, *)
(* to the task that inserts it, to the table, from which one of the        *)
(* replicas' loops removes it.  A loop selects ids, deletes and commits,   *)
(* batch by batch; between the SELECT and the DELETE another replica may   *)
(* have deleted the same rows.                                             *)
(***************************************************************************)
EXTENDS Naturals, FiniteSets, FiniteSetsExt

CONSTANTS
  Requests,      \* requests to audited paths, and their records
  Replicas,      \* processes of the backend on one database
  BATCH_SIZE,
  MaxFailures,   \* bound: transactions that fail
  MaxStops,      \* bound: processes that are stopped
  StopsForever   \* TRUE: processes are stopped again and again

ASSUME AuditAssumption ==
  /\ IsFiniteSet(Requests) /\ IsFiniteSet(Replicas)
  /\ BATCH_SIZE \in Nat \ {0}
  /\ MaxFailures \in Nat /\ MaxStops \in Nat
  /\ StopsForever \in BOOLEAN

VARIABLES
  audit_log,  \* the committed rows
  expired,    \* records whose row is older than the retention period
  deleted,    \* records whose row was deleted
  printed,    \* records on stdout
  up,         \* replicas that are running
  pending,    \* the records whose insert task a replica is running
  loop,       \* what the cleanup loop of a replica is doing
  logged,     \* the sum of the counts that the loops have logged
  failures, stops

vars == <<audit_log, expired, deleted, printed, up, pending, loop, logged, failures, stops>>

\* due: the rows before the cutoff of the running cycle; ids: the selected
\* batch; total_deleted: rows deleted so far in the cycle.
Asleep == [pc |-> "asleep", due |-> {}, ids |-> {}, total_deleted |-> 0]

Loops ==
  [pc: {"asleep", "select", "delete", "ended"}, due: SUBSET Requests, ids: SUBSET Requests,
   total_deleted: Nat]

-----------------------------------------------------------------------------
(***************************************************************************)
(* The middleware                                                          *)
(***************************************************************************)

\* dispatch, from the answer of the application on: it does not await anything.
Serve(n, r) ==
  /\ n \in up
  /\ r \notin printed
  /\ printed' = printed \cup {r}
  /\ pending' = [pending EXCEPT ![n] = @ \cup {r}]
  /\ UNCHANGED <<audit_log, expired, deleted, up, loop, logged, failures, stops>>

\* The tasks that are left when one is done.  Wrong: the others are cancelled, or
\* the record is inserted again.
Bug_Cancelled(n, r) == {}
Bug_Retried(n, r) == pending[n]
TasksLeft(n, r) == pending[n] \ {r}

\* _write_audit_record commits.
WriteRecord(n, r) ==
  /\ r \in pending[n]
  /\ audit_log' = audit_log \cup {r}
  /\ pending' = [pending EXCEPT ![n] = TasksLeft(n, r)]
  /\ UNCHANGED <<expired, deleted, printed, up, loop, logged, failures, stops>>

\* The exception is logged and dropped, and with it the record.
WriteFails(n, r) ==
  /\ r \in pending[n]
  /\ failures < MaxFailures
  /\ failures' = failures + 1
  /\ pending' = [pending EXCEPT ![n] = TasksLeft(n, r)]
  /\ UNCHANGED <<audit_log, expired, deleted, printed, up, loop, logged, stops>>

\* A row becomes older than the retention period.
Expire(r) ==
  /\ r \in audit_log \ expired
  /\ expired' = expired \cup {r}
  /\ UNCHANGED <<audit_log, deleted, printed, up, pending, loop, logged, failures, stops>>

-----------------------------------------------------------------------------
(***************************************************************************)
(* The cleanup loop                                                        *)
(***************************************************************************)

\* The hour of sleep is over: a cycle starts and fixes its cutoff.
WakeUp(n) ==
  /\ n \in up
  /\ loop[n].pc = "asleep"
  /\ loop' = [loop EXCEPT ![n] = [Asleep EXCEPT !.pc = "select", !.due = expired]]
  /\ UNCHANGED <<audit_log, expired, deleted, printed, up, pending, logged, failures, stops>>

\* The rows before the cutoff.  Wrong: all rows.
Bug_NoCutoff(n) == audit_log
DueRows(n) == audit_log \cap loop[n].due

\* SELECT ... LIMIT BATCH_SIZE, over a set of rows.
Limited(rows) ==
  {ids \in SUBSET rows :
     /\ Cardinality(ids) <= BATCH_SIZE
     /\ Cardinality(ids) < BATCH_SIZE => ids = rows}

SelectBatch(n) ==
  /\ loop[n].pc = "select"
  /\ \E ids \in Limited(DueRows(n)) :
       IF ids = {}
         THEN /\ loop' = [loop EXCEPT ![n] = Asleep]
              /\ logged' = logged + loop[n].total_deleted
         ELSE /\ loop' = [loop EXCEPT ![n].pc = "delete", ![n].ids = ids]
              /\ UNCHANGED logged
  /\ UNCHANGED <<audit_log, expired, deleted, printed, up, pending, failures, stops>>

\* The rows the DELETE meets, and their number.  Wrong: rows that another
\* replica has deleted are counted again.
Met(n) == loop[n].ids \cap audit_log
Bug_CountSelected(n) == Cardinality(loop[n].ids)
Rowcount(n) == Cardinality(Met(n))

\* Is the batch the last one?  Wrong: judged by the rows that were deleted.
Bug_LastByRowcount(n) == Cardinality(Met(n)) < BATCH_SIZE
LastBatch(n) == Cardinality(loop[n].ids) < BATCH_SIZE

\* The DELETE by id, and the commit of the batch.
DeleteBatch(n) ==
  LET total == loop[n].total_deleted + Rowcount(n)
  IN  /\ loop[n].pc = "delete"
      /\ audit_log' = audit_log \ loop[n].ids
      /\ deleted' = deleted \cup Met(n)
      /\ IF LastBatch(n)
           THEN /\ loop' = [loop EXCEPT ![n] = Asleep]
                /\ logged' = logged + total
           ELSE /\ loop' = [loop EXCEPT ![n].pc = "select", ![n].ids = {},
                                        ![n].total_deleted = total]
                /\ UNCHANGED logged
      /\ UNCHANGED <<expired, printed, up, pending, failures, stops>>

\* What is left of the loop after an exception.  Wrong: nothing.
Bug_LoopEnds(n) == [Asleep EXCEPT !.pc = "ended"]
AfterException(n) == Asleep

\* A transaction of the cycle fails: the batch is rolled back, the count lost.
CycleFails(n) ==
  /\ loop[n].pc \in {"select", "delete"}
  /\ failures < MaxFailures
  /\ failures' = failures + 1
  /\ loop' = [loop EXCEPT ![n] = AfterException(n)]
  /\ UNCHANGED <<audit_log, expired, deleted, printed, up, pending, logged, stops>>

-----------------------------------------------------------------------------
(***************************************************************************)
(* lifespan                                                                *)
(***************************************************************************)

\* A shutdown cancels the loop and disposes of the connections; nobody waits
\* for the insert tasks.  A crash does the same to the state.
Stop(n) ==
  /\ n \in up
  /\ StopsForever \/ stops < MaxStops
  /\ stops' = IF StopsForever THEN stops ELSE stops + 1
  /\ up' = up \ {n}
  /\ pending' = [pending EXCEPT ![n] = {}]
  /\ loop' = [loop EXCEPT ![n] = Asleep]
  /\ UNCHANGED <<audit_log, expired, deleted, printed, logged, failures>>

\* The loop of a new process sleeps before its first cycle.
Start(n) ==
  /\ n \notin up
  /\ up' = up \cup {n}
  /\ loop' = [loop EXCEPT ![n] = Asleep]
  /\ UNCHANGED <<audit_log, expired, deleted, printed, pending, logged, failures, stops>>

-----------------------------------------------------------------------------

Init ==
  /\ audit_log = {} /\ expired = {} /\ deleted = {} /\ printed = {}
  /\ up = Replicas
  /\ pending = [n \in Replicas |-> {}]
  /\ loop = [n \in Replicas |-> Asleep]
  /\ logged = 0 /\ failures = 0 /\ stops = 0

Next ==
  \/ \E n \in Replicas :
       \/ \E r \in Requests : Serve(n, r) \/ WriteRecord(n, r) \/ WriteFails(n, r)
       \/ WakeUp(n) \/ SelectBatch(n) \/ DeleteBatch(n) \/ CycleFails(n)
       \/ Stop(n) \/ Start(n)
  \/ \E r \in Requests : Expire(r)

\* The event loop resumes its tasks, asyncio.sleep ends, PostgreSQL executes
\* statements, and Kubernetes starts a process again.  A sleep that is cut off
\* by a stop starts anew.
Fairness ==
  \A n \in Replicas :
    /\ WF_vars(WakeUp(n)) /\ WF_vars(SelectBatch(n)) /\ WF_vars(DeleteBatch(n))
    /\ WF_vars(Start(n))
    /\ \A r \in Requests : WF_vars(WriteRecord(n, r))

Spec == Init /\ [][Next]_vars /\ Fairness

-----------------------------------------------------------------------------
(***************************************************************************)
(* Properties                                                              *)
(***************************************************************************)

\* A record is printed before anything else happens to it, and is in one place
\* at a time: with the task of one replica, in the table, or deleted from it.
TypeOK ==
  /\ printed \subseteq Requests
  /\ up \subseteq Replicas
  /\ loop \in [Replicas -> Loops]
  /\ pending \in [Replicas -> SUBSET printed]
  /\ audit_log \cup deleted \subseteq printed
  /\ audit_log \cap deleted = {}
  /\ \A n \in Replicas :
       /\ pending[n] \cap (audit_log \cup deleted) = {}
       /\ \A k \in Replicas \ {n} : pending[n] \cap pending[k] = {}
  /\ logged \in Nat /\ failures \in Nat /\ stops \in Nat

\* The loop deletes expired rows only.
OnlyExpiredDeleted == deleted \subseteq expired

\* Does the cycle of replica n end, without exception or shutdown?
CycleEnds(n) ==
  /\ loop[n].pc \in {"select", "delete"} /\ loop'[n].pc = "asleep"
  /\ failures' = failures /\ up' = up

\* A cycle that ends leaves none of the rows that were due when it started, in
\* whatever batches, and with whatever other replicas deleting the same rows.
CompleteCycle == [][\A n \in Replicas : CycleEnds(n) => audit_log' \cap loop[n].due = {}]_vars

\* The counts in the log never exceed the rows that are gone, also when two
\* replicas select the same rows; they agree when no cycle was cut short.
LoggedAsDeleted ==
  LET counted == logged + MapThenSumSet(LAMBDA n : loop[n].total_deleted, Replicas)
  IN  /\ counted <= Cardinality(deleted)
      /\ (failures = 0 /\ stops = 0) => counted = Cardinality(deleted)

\* An expired row is deleted eventually, whatever cycles fail and processes
\* stop, if they do not do so forever.
ExpiredDeleted == \A r \in Requests : r \in audit_log \cap expired ~> r \notin audit_log

\* Records that were printed and are nowhere else.
Lost == printed \ (audit_log \cup deleted \cup UNION {pending[n] : n \in Replicas})

\* A record is lost only if its own insert fails, or its process stops: no
\* failure takes the records of other requests down with it.
LostOnlyByFailure == stops = 0 => Cardinality(Lost) <= failures

\* docs/ARCHITECTURE_TECH.md: the middleware tracks all requests to the table.
EveryRequestTracked == Lost = {}
=============================================================================
