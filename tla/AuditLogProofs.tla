--------------------------- MODULE AuditLogProofs ---------------------------
(***************************************************************************)
(* Proofs about AuditLog, for any requests, replicas and batch size.       *)
(*                                                                         *)
(* The inductive invariant says what a loop may rely on between its        *)
(* statements: its batch comes from the rows that were due, and if the     *)
(* batch is short no other row that is due is left in the table.  Other    *)
(* replicas only remove rows, and the middleware only adds rows that are   *)
(* not expired, so nothing can be added to what is due.                    *)
(***************************************************************************)
EXTENDS AuditLog, FiniteSetTheorems, WellFoundedInduction, TLAPS

\* What the loop of replica n knows of its cycle.
Cleaning(n) ==
  /\ loop[n].due \subseteq expired
  /\ loop[n].pc = "delete" =>
       /\ loop[n].ids \subseteq loop[n].due
       /\ LastBatch(n) => DueRows(n) \subseteq loop[n].ids

AuditInv ==
  /\ TypeOK
  /\ OnlyExpiredDeleted
  /\ expired \subseteq audit_log \cup deleted
  /\ \A n \in Replicas : Cleaning(n)

-----------------------------------------------------------------------------

\* A loop keeps its knowledge while it does nothing itself, the expired rows
\* only grow, and every row that is added to the table is not expired.
LEMMA CleaningKept ==
  ASSUME NEW n \in Replicas, Cleaning(n),
         loop'[n] = loop[n],
         expired \subseteq expired',
         audit_log' \cap expired \subseteq audit_log
  PROVE  Cleaning(n)'
BY DEF Cleaning, LastBatch, DueRows

\* A loop that goes back to sleep knows nothing and needs nothing.
LEMMA CleaningAsleep ==
  ASSUME NEW n \in Replicas, loop'[n] = Asleep
  PROVE  Cleaning(n)'
BY DEF Cleaning, Asleep

LEMMA AsleepType == Asleep \in Loops
BY DEF Asleep, Loops

\* The rows a DELETE meets can be counted.
LEMMA RowcountType ==
  ASSUME TypeOK, NEW n \in Replicas
  PROVE  Rowcount(n) \in Nat
<1>1. Met(n) \subseteq Requests
  BY DEF TypeOK, Met, Loops
<1>2. IsFiniteSet(Met(n))
  BY <1>1, AuditAssumption, FS_Subset
<1> QED
  BY <1>2, FS_CardinalityType DEF Rowcount

-----------------------------------------------------------------------------

\* The invariant is inductive: every action keeps it.
LEMMA AuditInductive == AuditInv /\ [Next]_vars => AuditInv'
<1> SUFFICES ASSUME AuditInv, [Next]_vars PROVE AuditInv'
  OBVIOUS
<1> USE DEF AuditInv
<1>1. ASSUME NEW n \in Replicas, NEW r \in Requests, Serve(n, r) PROVE AuditInv'
  <2>1. TypeOK'
    BY <1>1 DEF Serve, TypeOK
  <2>2. \A k \in Replicas : Cleaning(k)'
    BY <1>1, CleaningKept DEF Serve
  <2> QED
    BY <1>1, <2>1, <2>2 DEF Serve, OnlyExpiredDeleted
<1>2. ASSUME NEW n \in Replicas, NEW r \in Requests, WriteRecord(n, r) PROVE AuditInv'
  <2>1. r \notin expired
    BY <1>2 DEF WriteRecord, TypeOK
  <2>2. TypeOK'
    BY <1>2 DEF WriteRecord, TypeOK, TasksLeft
  <2>3. \A k \in Replicas : Cleaning(k)'
    BY <1>2, <2>1, CleaningKept DEF WriteRecord
  <2> QED
    BY <1>2, <2>2, <2>3 DEF WriteRecord, OnlyExpiredDeleted
<1>3. ASSUME NEW n \in Replicas, NEW r \in Requests, WriteFails(n, r) PROVE AuditInv'
  <2>1. TypeOK'
    BY <1>3 DEF WriteFails, TypeOK, TasksLeft
  <2>2. \A k \in Replicas : Cleaning(k)'
    BY <1>3, CleaningKept DEF WriteFails
  <2> QED
    BY <1>3, <2>1, <2>2 DEF WriteFails, OnlyExpiredDeleted
<1>4. ASSUME NEW r \in Requests, Expire(r) PROVE AuditInv'
  <2>1. TypeOK'
    BY <1>4 DEF Expire, TypeOK
  <2>2. \A k \in Replicas : Cleaning(k)'
    BY <1>4, CleaningKept DEF Expire
  <2> QED
    BY <1>4, <2>1, <2>2 DEF Expire, OnlyExpiredDeleted
<1>5. ASSUME NEW n \in Replicas, WakeUp(n) PROVE AuditInv'
  <2>1. loop'[n] = [Asleep EXCEPT !.pc = "select", !.due = expired]
    BY <1>5 DEF WakeUp, TypeOK
  <2>2. expired \subseteq Requests
    BY DEF TypeOK
  <2>3. TypeOK'
    BY <1>5, <2>2 DEF WakeUp, TypeOK, Asleep, Loops
  <2>4. Cleaning(n)'
    BY <1>5, <2>1 DEF WakeUp, Cleaning, Asleep
  <2>5. \A k \in Replicas \ {n} : Cleaning(k)'
    BY <1>5, CleaningKept DEF WakeUp, TypeOK
  <2> QED
    BY <1>5, <2>3, <2>4, <2>5 DEF WakeUp, OnlyExpiredDeleted
<1>6. ASSUME NEW n \in Replicas, SelectBatch(n) PROVE AuditInv'
  <2>1. \A k \in Replicas \ {n} : Cleaning(k)'
    BY <1>6, CleaningKept DEF SelectBatch, TypeOK
  <2>2. PICK ids \in Limited(DueRows(n)) :
          IF ids = {}
            THEN /\ loop' = [loop EXCEPT ![n] = Asleep]
                 /\ logged' = logged + loop[n].total_deleted
            ELSE /\ loop' = [loop EXCEPT ![n].pc = "delete", ![n].ids = ids]
                 /\ UNCHANGED logged
    BY <1>6 DEF SelectBatch
  <2>3. CASE ids = {}
    <3>1. TypeOK'
      BY <1>6, <2>2, <2>3, AsleepType DEF SelectBatch, TypeOK, Loops
    <3>2. Cleaning(n)'
      BY <2>2, <2>3, CleaningAsleep DEF TypeOK
    <3> QED
      BY <1>6, <2>1, <3>1, <3>2 DEF SelectBatch, OnlyExpiredDeleted
  <2>4. CASE ids # {}
    <3>1. /\ ids \subseteq audit_log \cap loop[n].due
          /\ Cardinality(ids) < BATCH_SIZE => ids = DueRows(n)
      BY DEF Limited, DueRows
    <3>2. /\ loop'[n].pc = "delete" /\ loop'[n].ids = ids /\ loop'[n].due = loop[n].due
          /\ loop'[n] \in Loops
          /\ \A k \in Replicas \ {n} : loop'[k] = loop[k]
      BY <2>2, <2>4, <3>1 DEF TypeOK, Loops
    <3>3. TypeOK'
      BY <1>6, <2>2, <2>4, <3>2 DEF SelectBatch, TypeOK
    <3>4. Cleaning(n)'
      BY <1>6, <3>1, <3>2 DEF SelectBatch, Cleaning, LastBatch, DueRows
    <3> QED
      BY <1>6, <2>1, <3>3, <3>4 DEF SelectBatch, OnlyExpiredDeleted
  <2> QED
    BY <2>3, <2>4
<1>7. ASSUME NEW n \in Replicas, DeleteBatch(n) PROVE AuditInv'
  <2>1. \A k \in Replicas \ {n} : Cleaning(k)'
    BY <1>7, CleaningKept DEF DeleteBatch, TypeOK
  <2>2. loop[n].ids \subseteq expired
    BY <1>7 DEF DeleteBatch, Cleaning
  <2>3. OnlyExpiredDeleted'
    BY <1>7, <2>2 DEF DeleteBatch, OnlyExpiredDeleted, Met
  <2>4. expired' \subseteq audit_log' \cup deleted'
    BY <1>7 DEF DeleteBatch, Met
  <2>5. loop[n].total_deleted + Rowcount(n) \in Nat
    BY RowcountType DEF TypeOK, Loops
  <2>6. CASE LastBatch(n)
    <3>1. TypeOK'
      BY <1>7, <2>5, <2>6, AsleepType DEF DeleteBatch, TypeOK, Met
    <3>2. Cleaning(n)'
      BY <1>7, <2>6, CleaningAsleep DEF DeleteBatch, TypeOK
    <3> QED
      BY <2>1, <2>3, <2>4, <3>1, <3>2
  <2>7. CASE ~LastBatch(n)
    <3> DEFINE total == loop[n].total_deleted + Rowcount(n)
    <3>1. total \in Nat
      BY <2>5
    <3>2. loop' = [loop EXCEPT ![n].pc = "select", ![n].ids = {}, ![n].total_deleted = total]
      BY <1>7, <2>7 DEF DeleteBatch
    <3> DEFINE next == [loop[n] EXCEPT !.pc = "select", !.ids = {}, !.total_deleted = total]
    <3> HIDE DEF total
    <3>a. next \in Loops /\ next.pc = "select" /\ next.due = loop[n].due
      BY <3>1 DEF TypeOK, Loops
    <3>b. loop' = [loop EXCEPT ![n] = next]
      BY <3>2 DEF TypeOK
    <3> HIDE DEF next
    <3>3. /\ loop'[n].pc = "select" /\ loop'[n].due = loop[n].due
          /\ loop' \in [Replicas -> Loops]
      BY <3>a, <3>b DEF TypeOK
    <3>4. TypeOK'
      BY <1>7, <2>7, <3>3 DEF DeleteBatch, TypeOK, Met
    <3>5. Cleaning(n)'
      BY <1>7, <3>3 DEF DeleteBatch, Cleaning
    <3> QED
      BY <2>1, <2>3, <2>4, <3>4, <3>5
  <2> QED
    BY <2>6, <2>7
<1>8. ASSUME NEW n \in Replicas, CycleFails(n) PROVE AuditInv'
  <2>1. TypeOK'
    BY <1>8, AsleepType, AuditAssumption DEF CycleFails, AfterException, TypeOK
  <2>2. Cleaning(n)'
    BY <1>8, CleaningAsleep DEF CycleFails, AfterException, TypeOK
  <2>3. \A k \in Replicas \ {n} : Cleaning(k)'
    BY <1>8, CleaningKept DEF CycleFails, TypeOK
  <2> QED
    BY <1>8, <2>1, <2>2, <2>3 DEF CycleFails, OnlyExpiredDeleted
<1>9. ASSUME NEW n \in Replicas, Stop(n) \/ Start(n) PROVE AuditInv'
  <2>1. TypeOK'
    BY <1>9, AsleepType DEF Stop, Start, TypeOK
  <2>2. Cleaning(n)'
    BY <1>9, CleaningAsleep DEF Stop, Start, TypeOK
  <2>3. \A k \in Replicas \ {n} : Cleaning(k)'
    BY <1>9, CleaningKept DEF Stop, Start, TypeOK
  <2> QED
    BY <1>9, <2>1, <2>2, <2>3 DEF Stop, Start, OnlyExpiredDeleted
<1>10. CASE UNCHANGED vars
  <2>1. TypeOK' /\ OnlyExpiredDeleted'
    BY <1>10 DEF vars, TypeOK, OnlyExpiredDeleted
  <2>2. \A k \in Replicas : Cleaning(k)'
    BY <1>10, CleaningKept DEF vars
  <2> QED
    BY <1>10, <2>1, <2>2 DEF vars
<1> QED
  BY <1>1, <1>2, <1>3, <1>4, <1>5, <1>6, <1>7, <1>8, <1>9, <1>10 DEF Next

LEMMA AuditInitially == Init => AuditInv
<1> SUFFICES ASSUME Init PROVE AuditInv
  OBVIOUS
<1>1. TypeOK
  BY AsleepType DEF Init, TypeOK
<1> QED
  BY <1>1 DEF Init, AuditInv, OnlyExpiredDeleted, Cleaning, Asleep

-----------------------------------------------------------------------------

\* The inductive invariant holds in every reachable state.
THEOREM AuditInvariant == Spec => []AuditInv
BY AuditInitially, AuditInductive, PTL DEF Spec

\* Every record is printed first and is in one place at a time.
THEOREM AuditTypeCorrect == Spec => []TypeOK
<1>1. AuditInv => TypeOK
  BY DEF AuditInv
<1> QED
  BY <1>1, AuditInvariant, PTL

\* The cleanup loops of security/audit_retention.py delete expired rows only.
THEOREM RetentionSafe == Spec => []OnlyExpiredDeleted
<1>1. AuditInv => OnlyExpiredDeleted
  BY DEF AuditInv
<1> QED
  BY <1>1, AuditInvariant, PTL

\* delete_old_audit_logs leaves no row that was due when it started, with any
\* number of replicas deleting at the same time and any batch size.
THEOREM CyclesComplete == Spec => CompleteCycle
<1> DEFINE Complete == \A n \in Replicas : CycleEnds(n) => audit_log' \cap loop[n].due = {}
<1>1. AuditInv /\ [Next]_vars => [Complete]_vars
  <2> SUFFICES ASSUME AuditInv, Next, NEW n \in Replicas, CycleEnds(n)
               PROVE  audit_log' \cap loop[n].due = {}
    OBVIOUS
  <2>1. CASE SelectBatch(n)
    <3>1. PICK ids \in Limited(DueRows(n)) :
            IF ids = {} THEN TRUE ELSE loop' = [loop EXCEPT ![n].pc = "delete", ![n].ids = ids]
      BY <2>1 DEF SelectBatch
    <3>2. ids = {}
      BY <3>1 DEF CycleEnds, AuditInv, TypeOK, Loops
    <3>3. Cardinality(ids) < BATCH_SIZE
      BY <3>2, AuditAssumption, FS_EmptySet
    <3> QED
      BY <2>1, <3>2, <3>3 DEF Limited, DueRows, SelectBatch
  <2>2. CASE DeleteBatch(n)
    <3>1. LastBatch(n)
      BY <2>2 DEF DeleteBatch, CycleEnds, AuditInv, TypeOK, Loops
    <3> QED
      BY <2>2, <3>1 DEF DeleteBatch, AuditInv, Cleaning, DueRows
  <2>3. ~WakeUp(n) /\ ~CycleFails(n) /\ ~Stop(n) /\ ~Start(n)
    BY DEF WakeUp, CycleFails, Stop, Start, CycleEnds, AuditInv, TypeOK
  <2>4. loop'[n] # loop[n]
    BY DEF CycleEnds
  <2>5. ASSUME NEW k \in Replicas \ {n}
        PROVE  ~(WakeUp(k) \/ SelectBatch(k) \/ DeleteBatch(k) \/ CycleFails(k) \/ Stop(k) \/ Start(k))
    BY <2>4 DEF WakeUp, SelectBatch, DeleteBatch, CycleFails, Stop, Start, AuditInv, TypeOK
  <2>6. ASSUME NEW k \in Replicas, NEW r \in Requests
        PROVE  ~(Serve(k, r) \/ WriteRecord(k, r) \/ WriteFails(k, r) \/ Expire(r))
    BY <2>4 DEF Serve, WriteRecord, WriteFails, Expire
  <2> QED
    BY <2>1, <2>2, <2>3, <2>5, <2>6 DEF Next
<1> QED
  BY <1>1, AuditInvariant, PTL DEF Spec, CompleteCycle
-----------------------------------------------------------------------------

\* A step of the middleware or of a loop loses at most the record it failed to
\* insert; only a stop takes the records of the other tasks along.
LEMMA LostByStep ==
  ASSUME AuditInv, Next, ~StopsForever, stops' = 0
  PROVE  Lost' \subseteq Lost \/ (failures' = failures + 1 /\ \E r \in Requests : Lost' \subseteq Lost \cup {r})
<1>1. TypeOK
  BY DEF AuditInv
<1>2. ASSUME NEW n \in Replicas, NEW r \in Requests, Serve(n, r)
      PROVE  Lost' \subseteq Lost
  BY <1>1, <1>2 DEF Serve, Lost, TypeOK
<1>3. ASSUME NEW n \in Replicas, NEW r \in Requests, WriteRecord(n, r)
      PROVE  Lost' \subseteq Lost
  BY <1>1, <1>3 DEF WriteRecord, TasksLeft, Lost, TypeOK
<1>4. ASSUME NEW n \in Replicas, NEW r \in Requests, WriteFails(n, r)
      PROVE  failures' = failures + 1 /\ Lost' \subseteq Lost \cup {r}
  BY <1>1, <1>4 DEF WriteFails, TasksLeft, Lost, TypeOK
<1>5. ASSUME NEW n \in Replicas, WakeUp(n) \/ SelectBatch(n) \/ CycleFails(n) \/ Start(n)
      PROVE  Lost' \subseteq Lost
  BY <1>5 DEF WakeUp, SelectBatch, CycleFails, Start, Lost
<1>6. ASSUME NEW n \in Replicas, DeleteBatch(n)
      PROVE  Lost' \subseteq Lost
  BY <1>6 DEF DeleteBatch, Met, Lost
<1>7. ASSUME NEW n \in Replicas, Stop(n)
      PROVE  FALSE
  BY <1>1, <1>7 DEF Stop, TypeOK
<1>8. ASSUME NEW r \in Requests, Expire(r)
      PROVE  Lost' \subseteq Lost
  BY <1>8 DEF Expire, Lost
<1> QED
  BY <1>2, <1>3, <1>4, <1>5, <1>6, <1>7, <1>8 DEF Next

\* Failures and stops are only ever counted up.
LEMMA CountersGrow ==
  ASSUME [Next]_vars, stops \in Nat, failures \in Nat
  PROVE  /\ stops' = 0 => stops = 0
         /\ failures' \in Nat /\ failures <= failures'
<1> DEFINE Grow == (stops' = 0 => stops = 0) /\ failures' \in Nat /\ failures <= failures'
<1>1. ASSUME NEW n \in Replicas, NEW r \in Requests, Serve(n, r) \/ WriteRecord(n, r)
      PROVE  Grow
  BY <1>1 DEF Serve, WriteRecord
<1>2. ASSUME NEW n \in Replicas, NEW r \in Requests, WriteFails(n, r)
      PROVE  Grow
  BY <1>2 DEF WriteFails
<1>3. ASSUME NEW n \in Replicas, WakeUp(n) \/ SelectBatch(n) \/ DeleteBatch(n) \/ Start(n)
      PROVE  Grow
  BY <1>3 DEF WakeUp, SelectBatch, DeleteBatch, Start
<1>4. ASSUME NEW n \in Replicas, CycleFails(n)
      PROVE  Grow
  BY <1>4 DEF CycleFails
<1>5. ASSUME NEW n \in Replicas, Stop(n)
      PROVE  Grow
  <2>1. stops' = stops \/ stops' = stops + 1
    BY <1>5, Zenon DEF Stop
  <2>2. failures' = failures
    BY <1>5 DEF Stop
  <2> QED
    BY <2>1, <2>2
<1>6. ASSUME NEW r \in Requests, Expire(r)
      PROVE  Grow
  BY <1>6 DEF Expire
<1>7. CASE UNCHANGED vars
  BY <1>7 DEF vars
<1>8. CASE Next
  BY <1>1, <1>2, <1>3, <1>4, <1>5, <1>6, <1>8, Zenon DEF Next
<1> QED
  BY <1>7, <1>8

\* The middleware loses a record only if its own insert fails or its process
\* stops.  Stops are counted unless processes are stopped forever.
THEOREM RecordsLostByFailure ==
  ASSUME ~StopsForever
  PROVE  Spec => []LostOnlyByFailure
<1>1. Init => LostOnlyByFailure
  <2> SUFFICES ASSUME Init PROVE Cardinality(Lost) <= failures
    BY DEF LostOnlyByFailure
  <2>1. Lost = {}
    BY DEF Init, Lost
  <2> QED
    BY <2>1, FS_EmptySet DEF Init
<1>2. AuditInv /\ LostOnlyByFailure /\ [Next]_vars => LostOnlyByFailure'
  <2> SUFFICES ASSUME AuditInv, LostOnlyByFailure, [Next]_vars, stops' = 0
               PROVE  Cardinality(Lost') <= failures'
    BY DEF LostOnlyByFailure
  <2>1. /\ Lost \subseteq Requests /\ failures \in Nat /\ stops \in Nat
        /\ IsFiniteSet(Lost) /\ Cardinality(Lost) \in Nat
    <3>1. Lost \subseteq Requests /\ failures \in Nat /\ stops \in Nat
      BY DEF AuditInv, TypeOK, Lost
    <3> QED
      BY <3>1, AuditAssumption, FS_Subset, FS_CardinalityType
  <2>2. stops = 0 /\ failures' \in Nat /\ failures <= failures'
    BY <2>1, CountersGrow
  <2>3. Cardinality(Lost) <= failures
    BY <2>2 DEF LostOnlyByFailure
  <2>5. CASE Lost' \subseteq Lost
    <3>1. Cardinality(Lost') <= Cardinality(Lost) /\ Cardinality(Lost') \in Nat
      BY <2>1, <2>5, FS_Subset, FS_CardinalityType
    <3> QED
      BY <2>1, <2>2, <2>3, <3>1
  <2>6. ASSUME NEW r \in Requests, failures' = failures + 1, Lost' \subseteq Lost \cup {r}
        PROVE  Cardinality(Lost') <= failures'
    <3>1. /\ IsFiniteSet(Lost \cup {r}) /\ Cardinality(Lost \cup {r}) \in Nat
          /\ Cardinality(Lost \cup {r}) <= Cardinality(Lost) + 1
      BY <2>1, FS_AddElement, FS_CardinalityType
    <3>2. Cardinality(Lost') <= Cardinality(Lost \cup {r}) /\ Cardinality(Lost') \in Nat
      BY <2>6, <3>1, FS_Subset, FS_CardinalityType
    <3> QED
      BY <2>1, <2>3, <2>6, <3>1, <3>2
  <2>7. CASE UNCHANGED vars
    BY <2>3, <2>7 DEF vars, Lost
  <2> QED
    BY <2>5, <2>6, <2>7, LostByStep
<1> QED
  BY <1>1, <1>2, AuditInvariant, PTL DEF Spec

-----------------------------------------------------------------------------
(***************************************************************************)
(* Sums over a finite set.  The sum of AuditLog is a recursive function;   *)
(* that there is one, and what a change of one summand does to it, is an   *)
(* induction over the size of the subsets.                                 *)
(***************************************************************************)

\* A set of naturals with 0 and every successor has no smallest number outside.
LEMMA Inductive ==
  ASSUME NEW T, 0 \in T, \A k \in Nat : k \in T => k + 1 \in T
  PROVE  \A k \in Nat : k \in T
<1> SUFFICES ASSUME NEW j \in Nat, j \notin T PROVE FALSE
  OBVIOUS
<1> DEFINE Missing == Nat \ T
<1>1. Missing \subseteq Nat /\ Missing # {}
  OBVIOUS
<1>2. PICK m \in Missing : \A i \in Missing : ~ (<<i, m>> \in OpToRel(<, Nat))
  BY <1>1, NatLessThanWellFounded, WFMin
<1>3. m - 1 \notin Missing
  <2>1. m - 1 \in Nat => <<m - 1, m>> \in OpToRel(<, Nat)
    BY DEF OpToRel
  <2> QED
    BY <1>2, <2>1
<1>4. m # 0 /\ m - 1 \in Nat /\ (m - 1) + 1 = m
  OBVIOUS
<1> QED
  BY <1>2, <1>3, <1>4

\* The sum of the values of h over S.
Total(h, S) == MapThenSumSet(LAMBDA n : h[n], S)

\* The choice that MapThenSumSet makes of the next element, ...
First(s) == CHOOSE x \in s : TRUE

\* ... its sum of the first elements, ...
Summand(h, iter, s) == IF s = {} THEN 0 ELSE h[First(s)] + iter[s \ {First(s)}]

\* ... and what makes iter the sums over the subsets of S.
Sums(h, S, iter) == iter = [s \in SUBSET S |-> Summand(h, iter, s)]

LEMMA FirstTaken ==
  ASSUME NEW S, IsFiniteSet(S), NEW s \in SUBSET S, s # {}
  PROVE  /\ First(s) \in s /\ First(s) \in S /\ s \ {First(s)} \in SUBSET S
         /\ Cardinality(s) \in Nat \ {0}
         /\ Cardinality(s \ {First(s)}) = Cardinality(s) - 1
<1>1. First(s) \in s
  BY DEF First
<1>2. IsFiniteSet(s)
  BY FS_Subset
<1>3. Cardinality(s) \in Nat /\ Cardinality(s) # 0
  BY <1>2, FS_CardinalityType, FS_EmptySet
<1>4. Cardinality(s \ {First(s)}) = Cardinality(s) - 1
  BY <1>1, <1>2, FS_RemoveElement
<1> QED
  BY <1>1, <1>3, <1>4

\* There are such sums.
LEMMA SumsExist ==
  ASSUME NEW S, IsFiniteSet(S), NEW h \in [S -> Nat]
  PROVE  \E iter : Sums(h, S, iter)
<1> DEFINE Upto(f, k) == \A s \in SUBSET S : Cardinality(s) <= k => f[s] = Summand(h, f, s)
           T == {k \in Nat : \E f \in [SUBSET S -> Nat] : Upto(f, k)}
<1>0. Cardinality(S) \in Nat
  BY FS_CardinalityType
<1>1. 0 \in T
  <2> DEFINE zero == [s \in SUBSET S |-> 0]
  <2>1. zero \in [SUBSET S -> Nat]
    OBVIOUS
  <2>2. ASSUME NEW s \in SUBSET S, Cardinality(s) <= 0 PROVE s = {}
    <3>1. s # {} => Cardinality(s) \in Nat \ {0}
      BY FirstTaken
    <3> QED
      BY <2>2, <3>1
  <2>3. Upto(zero, 0)
    BY <2>2 DEF Summand
  <2> QED
    BY <2>1, <2>3
<1>2. ASSUME NEW k \in Nat, k \in T PROVE k + 1 \in T
  <2>1. PICK f \in [SUBSET S -> Nat] : Upto(f, k)
    BY <1>2
  <2> DEFINE g == [s \in SUBSET S |-> IF Cardinality(s) <= k THEN f[s] ELSE Summand(h, f, s)]
  <2>2. ASSUME NEW s \in SUBSET S PROVE Summand(h, f, s) \in Nat
    <3>1. s # {} => First(s) \in S /\ s \ {First(s)} \in SUBSET S
      BY FirstTaken
    <3>2. s # {} => h[First(s)] \in Nat /\ f[s \ {First(s)}] \in Nat
      BY <3>1
    <3> QED
      BY <3>2 DEF Summand
  <2>3. g \in [SUBSET S -> Nat]
    BY <2>2
  <2>4. ASSUME NEW s \in SUBSET S, Cardinality(s) <= k + 1
        PROVE  g[s] = Summand(h, g, s)
    <3>1. s # {} => g[s \ {First(s)}] = f[s \ {First(s)}]
      BY <2>4, FirstTaken
    <3>2. Summand(h, g, s) = Summand(h, f, s)
      BY <3>1 DEF Summand
    <3>3. g[s] = Summand(h, f, s)
      BY <2>1
    <3> QED
      BY <3>2, <3>3
  <2>5. Upto(g, k + 1)
    BY <2>4
  <2>6. k + 1 \in Nat
    OBVIOUS
  <2> HIDE DEF g, Upto
  <2> QED
    BY <2>3, <2>5, <2>6
<1>3. Cardinality(S) \in T
  <2> HIDE DEF T
  <2> QED
    BY <1>0, <1>1, <1>2, Inductive
<1>4. PICK f \in [SUBSET S -> Nat] : Upto(f, Cardinality(S))
  BY <1>3
<1>5. \A s \in SUBSET S : f[s] = Summand(h, f, s)
  BY <1>4, FS_Subset
<1>6. f = [s \in SUBSET S |-> Summand(h, f, s)]
  BY <1>5
<1> QED
  BY <1>6 DEF Sums

\* Total is one of them.
LEMMA SumIsSum ==
  ASSUME NEW S, IsFiniteSet(S), NEW h \in [S -> Nat]
  PROVE  \E iter : Sums(h, S, iter) /\ Total(h, S) = iter[S]
<1> DEFINE iter == CHOOSE iter : Sums(h, S, iter)
<1>1. Sums(h, S, iter)
  BY SumsExist
<1>2. Total(h, S) = iter[S]
  BY DEF Total, MapThenSumSet, MapThenFoldSet, Sums, Summand, First
<1> QED
  BY <1>1, <1>2

\* Another summand at one place changes the sum by the difference.
LEMMA SumsDiffer ==
  ASSUME NEW S, IsFiniteSet(S), NEW n \in S,
         NEW h \in [S -> Nat], NEW g \in [S -> Nat],
         \A k \in S \ {n} : g[k] = h[k],
         NEW sumH, Sums(h, S, sumH), NEW sumG, Sums(g, S, sumG)
  PROVE  sumH[S] \in Nat /\ sumG[S] \in Nat /\ sumG[S] + h[n] = sumH[S] + g[n]
<1> DEFINE Right(s) ==
             /\ sumH[s] \in Nat /\ sumG[s] \in Nat
             /\ n \in s => sumG[s] + h[n] = sumH[s] + g[n]
             /\ n \notin s => sumG[s] = sumH[s]
           T == {k \in Nat : \A s \in SUBSET S : Cardinality(s) = k => Right(s)}
<1>1. \A s \in SUBSET S : sumH[s] = Summand(h, sumH, s) /\ sumG[s] = Summand(g, sumG, s)
  BY DEF Sums
<1>2. 0 \in T
  <2>1. ASSUME NEW s \in SUBSET S, Cardinality(s) = 0 PROVE Right(s)
    <3>1. s # {} => Cardinality(s) \in Nat \ {0}
      BY FirstTaken
    <3>2. s = {}
      BY <2>1, <3>1
    <3> QED
      BY <1>1, <3>2 DEF Summand
  <2> QED
    BY <2>1
<1>3. ASSUME NEW k \in Nat, k \in T PROVE k + 1 \in T
  <2>1. ASSUME NEW s \in SUBSET S, Cardinality(s) = k + 1 PROVE Right(s)
    <3>1. s # {}
      BY <2>1, FS_EmptySet
    <3> DEFINE x == First(s)
               r == s \ {x}
    <3>2. x \in s /\ x \in S /\ r \in SUBSET S /\ Cardinality(r) = k
      BY <2>1, <3>1, FirstTaken
    <3>3. sumH[s] = h[x] + sumH[r] /\ sumG[s] = g[x] + sumG[r]
      BY <1>1, <3>1 DEF Summand
    <3>4. Right(r)
      BY <1>3, <3>2
    <3>5. h[x] \in Nat /\ g[x] \in Nat /\ h[n] \in Nat /\ g[n] \in Nat
      BY <3>2
    <3>6. CASE x = n
      <4>1. n \in s /\ n \notin r
        BY <3>2, <3>6
      <4> HIDE DEF x, r
      <4> QED
        BY <3>3, <3>4, <3>5, <3>6, <4>1
    <3>7. CASE x # n
      <4>1. g[x] = h[x] /\ (n \in s <=> n \in r)
        BY <3>2, <3>7
      <4> HIDE DEF x, r
      <4> QED
        BY <3>3, <3>4, <3>5, <4>1
    <3> QED
      BY <3>6, <3>7
  <2>2. k + 1 \in Nat
    OBVIOUS
  <2> HIDE DEF Right
  <2> QED
    BY <2>1, <2>2
<1>4. Cardinality(S) \in T
  <2>1. Cardinality(S) \in Nat
    BY FS_CardinalityType
  <2> HIDE DEF T
  <2> QED
    BY <1>2, <1>3, <2>1, Inductive
<1> QED
  BY <1>4

\* The sum of nothing but zeros.
LEMMA SumOfZeros ==
  ASSUME NEW S, IsFiniteSet(S), NEW h, \A k \in S : h[k] = 0, NEW sum, Sums(h, S, sum)
  PROVE  sum[S] = 0
<1> DEFINE T == {k \in Nat : \A s \in SUBSET S : Cardinality(s) = k => sum[s] = 0}
<1>1. \A s \in SUBSET S : sum[s] = Summand(h, sum, s)
  BY DEF Sums
<1>2. 0 \in T
  <2>1. ASSUME NEW s \in SUBSET S, Cardinality(s) = 0 PROVE sum[s] = 0
    <3>1. s # {} => Cardinality(s) \in Nat \ {0}
      BY FirstTaken
    <3> QED
      BY <1>1, <2>1, <3>1 DEF Summand
  <2> QED
    BY <2>1
<1>3. ASSUME NEW k \in Nat, k \in T PROVE k + 1 \in T
  <2>1. ASSUME NEW s \in SUBSET S, Cardinality(s) = k + 1 PROVE sum[s] = 0
    <3>1. s # {}
      BY <2>1, FS_EmptySet
    <3>2. First(s) \in S /\ s \ {First(s)} \in SUBSET S /\ Cardinality(s \ {First(s)}) = k
      BY <2>1, <3>1, FirstTaken
    <3> QED
      BY <1>1, <1>3, <3>1, <3>2 DEF Summand
  <2> QED
    BY <2>1
<1>4. Cardinality(S) \in T
  <2>1. Cardinality(S) \in Nat
    BY FS_CardinalityType
  <2> HIDE DEF T
  <2> QED
    BY <1>2, <1>3, <2>1, Inductive
<1> QED
  BY <1>4

\* The counts of the running cycles, and their sum.
Counts == [n \in Replicas |-> loop[n].total_deleted]
Running == Total(Counts, Replicas)

LEMMA RunningIsSum == 
  MapThenSumSet(LAMBDA n : loop[n].total_deleted, Replicas) = Running
BY DEF Running, Counts, Total, MapThenSumSet, MapThenFoldSet

\* What a step of replica n makes of the sum.
LEMMA RunningChanges ==
  ASSUME IsFiniteSet(Replicas), NEW n \in Replicas,
         loop \in [Replicas -> Loops], loop' \in [Replicas -> Loops],
         \A k \in Replicas \ {n} : loop'[k] = loop[k]
  PROVE  /\ Running \in Nat /\ Running' \in Nat
         /\ Running' + loop[n].total_deleted = Running + loop'[n].total_deleted
<1>1. Counts \in [Replicas -> Nat] /\ Counts' \in [Replicas -> Nat]
  BY DEF Counts, Loops
<1>2. PICK old : Sums(Counts, Replicas, old) /\ Running = old[Replicas]
  BY <1>1, SumIsSum DEF Running
<1>3. PICK new : Sums(Counts', Replicas, new) /\ Running' = new[Replicas]
  BY <1>1, SumIsSum DEF Running
<1>4. \A k \in Replicas \ {n} : Counts'[k] = Counts[k]
  BY DEF Counts
<1>5. PICK h \in [Replicas -> Nat] : h = Counts
  BY <1>1
<1>6. PICK g \in [Replicas -> Nat] : g = Counts'
  BY <1>1
<1>7. old[Replicas] \in Nat /\ new[Replicas] \in Nat /\ new[Replicas] + h[n] = old[Replicas] + g[n]
  <2>1. Sums(h, Replicas, old) /\ Sums(g, Replicas, new) /\ \A k \in Replicas \ {n} : g[k] = h[k]
    BY <1>2, <1>3, <1>4, <1>5, <1>6
  <2> QED
    BY <2>1, SumsDiffer
<1>8. h[n] = loop[n].total_deleted /\ g[n] = loop'[n].total_deleted
  BY <1>5, <1>6 DEF Counts
<1> QED
  BY <1>2, <1>3, <1>7, <1>8

\* Nothing has been counted in a cycle that has not started; a process that is
\* down has no cycle.
Resting(n) ==
  /\ n \notin up => loop[n].pc = "asleep"
  /\ loop[n].pc = "asleep" => loop[n].total_deleted = 0

\* The running counts with the logged ones make up the deleted rows.
CountsRight ==
  /\ Running \in Nat
  /\ logged + Running <= Cardinality(deleted)
  /\ failures = 0 /\ stops = 0 => logged + Running = Cardinality(deleted)

CountInv == CountsRight /\ \A n \in Replicas : Resting(n)

\* A step that leaves the loops alone leaves the counts alone.
LEMMA CountsKept ==
  ASSUME CountInv, UNCHANGED <<loop, logged, deleted, up, stops>>,
         failures' = failures \/ failures' # 0
  PROVE  CountInv'
<1>1. Running' = Running
  <2>1. Counts' = Counts
    BY DEF Counts
  <2> QED
    BY <2>1 DEF Running
<1>2. CountsRight'
  BY <1>1 DEF CountInv, CountsRight
<1> QED
  BY <1>2 DEF CountInv, Resting

\* A loop that stands still after the step of n: its record is as before.
LEMMA RestingKept ==
  ASSUME NEW k \in Replicas, Resting(k), loop'[k] = loop[k], k \in up' <=> k \in up
  PROVE  Resting(k)'
BY DEF Resting

LEMMA RestingAsleep ==
  ASSUME NEW n \in Replicas, loop'[n] = Asleep
  PROVE  Resting(n)'
BY DEF Resting, Asleep

\* The loop of n takes its next record; with the log it counts what it deleted.
LEMMA CountsAfter ==
  ASSUME AuditInv, CountInv, NEW n \in Replicas, loop' \in [Replicas -> Loops],
         \A k \in Replicas \ {n} : loop'[k] = loop[k], UNCHANGED up,
         Resting(n)', logged' \in Nat,
         NEW found \in Nat, Cardinality(deleted') = Cardinality(deleted) + found,
         \/ /\ logged' + loop'[n].total_deleted = logged + loop[n].total_deleted + found
            /\ UNCHANGED <<failures, stops>>
         \/ /\ logged' + loop'[n].total_deleted <= logged + loop[n].total_deleted + found
            /\ failures' # 0
  PROVE  CountInv'
<1>1. /\ Running \in Nat /\ Running' \in Nat
      /\ Running' + loop[n].total_deleted = Running + loop'[n].total_deleted
  BY RunningChanges, AuditAssumption DEF AuditInv, TypeOK
<1>2. /\ logged \in Nat /\ loop[n].total_deleted \in Nat /\ loop'[n].total_deleted \in Nat
      /\ Cardinality(deleted) \in Nat
  <2>1. IsFiniteSet(deleted)
    BY AuditAssumption, FS_Subset DEF AuditInv, TypeOK
  <2> QED
    BY <2>1, FS_CardinalityType DEF AuditInv, TypeOK, Loops
<1>3. CountsRight'
  BY <1>1, <1>2 DEF CountInv, CountsRight
<1>4. \A k \in Replicas : Resting(k)'
  BY RestingKept DEF CountInv
<1> QED
  BY <1>3, <1>4 DEF CountInv

\* Every action keeps the counts right.  Stops are counted.
LEMMA CountInductive ==
  ASSUME ~StopsForever
  PROVE  AuditInv /\ CountInv /\ [Next]_vars /\ AuditInv' => CountInv'
<1> SUFFICES ASSUME AuditInv, CountInv, [Next]_vars, AuditInv' PROVE CountInv'
  OBVIOUS
<1>0. /\ failures \in Nat /\ stops \in Nat /\ loop \in [Replicas -> Loops]
      /\ loop' \in [Replicas -> Loops] /\ logged \in Nat /\ logged' \in Nat
      /\ IsFiniteSet(deleted) /\ Cardinality(deleted) \in Nat
  <2>1. IsFiniteSet(deleted)
    BY AuditAssumption, FS_Subset DEF AuditInv, TypeOK
  <2> QED
    BY <2>1, FS_CardinalityType DEF AuditInv, TypeOK
<1>1. ASSUME NEW n \in Replicas, NEW r \in Requests,
             Serve(n, r) \/ WriteRecord(n, r) \/ WriteFails(n, r)
      PROVE  CountInv'
  BY <1>0, <1>1, CountsKept DEF Serve, WriteRecord, WriteFails
<1>2. ASSUME NEW r \in Requests, Expire(r) PROVE CountInv'
  BY <1>2, CountsKept DEF Expire
<1>3. ASSUME NEW n \in Replicas, WakeUp(n) PROVE CountInv'
  <2>1. loop'[n].total_deleted = 0 /\ loop'[n].pc = "select"
    BY <1>0, <1>3 DEF WakeUp, Asleep
  <2>2. loop[n].total_deleted = 0
    BY <1>3 DEF WakeUp, CountInv, Resting
  <2>3. Resting(n)'
    BY <1>3, <2>1 DEF WakeUp, Resting
  <2> QED
    BY <1>0, <1>3, <2>1, <2>2, <2>3, CountsAfter DEF WakeUp
<1>4. ASSUME NEW n \in Replicas, SelectBatch(n) PROVE CountInv'
  <2>1. PICK ids \in Limited(DueRows(n)) :
          IF ids = {}
            THEN /\ loop' = [loop EXCEPT ![n] = Asleep]
                 /\ logged' = logged + loop[n].total_deleted
            ELSE /\ loop' = [loop EXCEPT ![n].pc = "delete", ![n].ids = ids]
                 /\ UNCHANGED logged
    BY <1>4 DEF SelectBatch
  <2>2. n \in up
    BY <1>4 DEF SelectBatch, CountInv, Resting
  <2>3. /\ \A k \in Replicas \ {n} : loop'[k] = loop[k]
        /\ UNCHANGED <<up, deleted, failures, stops>>
    BY <1>0, <1>4, <2>1 DEF SelectBatch
  <2>4. /\ logged' + loop'[n].total_deleted = logged + loop[n].total_deleted
        /\ loop'[n] = Asleep \/ loop'[n].pc = "delete"
    BY <1>0, <2>1 DEF Loops, Asleep
  <2>5. Resting(n)'
    BY <2>2, <2>3, <2>4 DEF Resting, Asleep
  <2>6. logged + loop[n].total_deleted \in Nat
    BY <1>0 DEF Loops
  <2> QED
    BY <1>0, <2>3, <2>4, <2>5, <2>6, CountsAfter
<1>5. ASSUME NEW n \in Replicas, DeleteBatch(n) PROVE CountInv'
  <2> DEFINE found == Rowcount(n)
  <2>1. found \in Nat /\ loop[n].total_deleted \in Nat
    BY <1>0, RowcountType DEF AuditInv, Loops
  <2>2. Cardinality(deleted') = Cardinality(deleted) + found
    <3>1. Met(n) \subseteq Requests /\ Met(n) \cap deleted = {}
      BY DEF AuditInv, TypeOK, Met
    <3>2. IsFiniteSet(Met(n))
      BY <3>1, AuditAssumption, FS_Subset
    <3>3. Cardinality(deleted \cup Met(n)) = Cardinality(deleted) + Cardinality(Met(n))
      <4>1. /\ Cardinality(deleted \cup Met(n))
                 = Cardinality(deleted) + Cardinality(Met(n)) - Cardinality(deleted \cap Met(n))
            /\ Cardinality(Met(n)) \in Nat
        BY <1>0, <3>2, FS_Union, FS_CardinalityType
      <4>2. deleted \cap Met(n) = {}
        BY <3>1
      <4>3. Cardinality(deleted \cap Met(n)) = 0
        BY <4>2, FS_EmptySet
      <4> QED
        BY <1>0, <4>1, <4>3
    <3> QED
      BY <1>5, <3>3 DEF DeleteBatch, Rowcount
  <2>3. n \in up
    BY <1>5 DEF DeleteBatch, CountInv, Resting
  <2>4. /\ \A k \in Replicas \ {n} : loop'[k] = loop[k]
        /\ UNCHANGED <<up, failures, stops>>
    BY <1>0, <1>5 DEF DeleteBatch
  <2> HIDE DEF found
  <2>5. /\ logged' + loop'[n].total_deleted = logged + loop[n].total_deleted + found
        /\ loop'[n] = Asleep \/ loop'[n].pc = "select"
    BY <1>0, <1>5, <2>1 DEF DeleteBatch, Loops, Asleep, found
  <2>6. Resting(n)'
    BY <2>3, <2>4, <2>5 DEF Resting, Asleep
  <2> QED
    BY <1>0, <2>1, <2>2, <2>4, <2>5, <2>6, CountsAfter
<1>6. ASSUME NEW n \in Replicas, CycleFails(n) PROVE CountInv'
  <2>1. loop'[n] = Asleep /\ failures' # 0
    BY <1>0, <1>6 DEF CycleFails, AfterException
  <2>2. Resting(n)'
    BY <2>1, RestingAsleep
  <2>3. loop[n].total_deleted \in Nat /\ loop'[n].total_deleted = 0
    BY <1>0, <2>1 DEF Asleep, Loops
  <2>4. /\ \A k \in Replicas \ {n} : loop'[k] = loop[k]
        /\ UNCHANGED <<up, deleted, logged>>
    BY <1>0, <1>6 DEF CycleFails
  <2>5. /\ Cardinality(deleted') = Cardinality(deleted) + 0
        /\ logged' + loop'[n].total_deleted <= logged + loop[n].total_deleted + 0
    BY <1>0, <2>3, <2>4
  <2> QED
    BY <1>0, <2>1, <2>2, <2>4, <2>5, CountsAfter
<1>7. ASSUME NEW n \in Replicas, Stop(n) \/ Start(n) PROVE CountInv'
  <2>1. /\ loop'[n] = Asleep /\ \A k \in Replicas \ {n} : loop'[k] = loop[k]
        /\ UNCHANGED <<logged, deleted, failures>>
        /\ \A k \in Replicas \ {n} : k \in up' <=> k \in up
    BY <1>0, <1>7 DEF Stop, Start
  <2>2. \A k \in Replicas : Resting(k)'
    BY <2>1, RestingAsleep, RestingKept DEF CountInv
  <2>3. /\ Running \in Nat /\ Running' \in Nat
        /\ Running' + loop[n].total_deleted = Running
    BY <1>0, <2>1, RunningChanges, AuditAssumption DEF Asleep
  <2>4. loop[n].total_deleted \in Nat
    BY <1>0 DEF Loops
  <2>5. (stops' = stops /\ loop[n].total_deleted = 0) \/ stops' # 0
    <3>1. CASE Stop(n)
      BY <1>0, <3>1 DEF Stop
    <3>2. CASE Start(n)
      BY <3>2 DEF Start, CountInv, Resting
    <3> QED
      BY <1>7, <3>1, <3>2
  <2>6. CountsRight'
    <3>1. logged' = logged /\ Cardinality(deleted') = Cardinality(deleted) /\ failures' = failures
      BY <2>1
    <3>2. CASE stops' = stops /\ loop[n].total_deleted = 0
      <4>1. Running' = Running
        <5>1. Running' + 0 = Running
          BY <2>3, <3>2, Zenon
        <5>2. \A a, b \in Nat : b + 0 = a => b = a
          OBVIOUS
        <5> QED
          BY <2>3, <5>1, <5>2, Zenon
      <4>2. CountsRight
        BY DEF CountInv
      <4> HIDE DEF CountInv
      <4> QED
        BY <3>1, <3>2, <4>1, <4>2, Zenon DEF CountsRight
    <3>3. CASE stops' # 0
      <4>1. Running + logged <= Cardinality(deleted)
        BY <1>0, <2>3 DEF CountInv, CountsRight
      <4>2. logged' + Running' <= Cardinality(deleted')
        BY <1>0, <2>3, <2>4, <3>1, <4>1
      <4> QED
        BY <2>3, <3>3, <4>2 DEF CountsRight
    <3> QED
      BY <2>5, <3>2, <3>3
  <2> QED
    BY <2>2, <2>6 DEF CountInv
<1>8. CASE UNCHANGED vars
  BY <1>8, CountsKept DEF vars
<1> QED
  BY <1>1, <1>2, <1>3, <1>4, <1>5, <1>6, <1>7, <1>8 DEF Next

LEMMA CountInitially == Init => CountInv
<1> SUFFICES ASSUME Init PROVE CountInv
  OBVIOUS
<1>1. Counts \in [Replicas -> Nat] /\ \A n \in Replicas : Counts[n] = 0
  BY DEF Init, Counts, Asleep
<1>2. Running = 0
  <2>1. PICK sums : Sums(Counts, Replicas, sums) /\ Running = sums[Replicas]
    BY <1>1, SumIsSum, AuditAssumption DEF Running
  <2> QED
    BY <1>1, <2>1, SumOfZeros, AuditAssumption
<1>3. Cardinality(deleted) = 0
  BY FS_EmptySet DEF Init
<1> QED
  BY <1>2, <1>3 DEF Init, CountInv, CountsRight, Resting, Asleep

\* The numbers that delete_old_audit_logs logs add up to the rows it deleted:
\* never more, and no fewer unless a cycle failed or was stopped, for any number
\* of replicas that select the same rows.
THEOREM CountsAddUp ==
  ASSUME ~StopsForever
  PROVE  Spec => []LoggedAsDeleted
<1>1. AuditInv /\ CountInv => LoggedAsDeleted
  BY RunningIsSum DEF CountInv, CountsRight, LoggedAsDeleted
<1>2. AuditInv /\ CountInv /\ [Next]_vars => CountInv'
  BY AuditInductive, CountInductive
<1> QED
  BY <1>1, <1>2, CountInitially, AuditInvariant, PTL DEF Spec
=============================================================================
