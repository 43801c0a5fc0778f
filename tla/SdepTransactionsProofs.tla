----------------------- MODULE SdepTransactionsProofs -----------------------
(***************************************************************************)
(* Theorems about SdepTransactions, for any number of workers, platforms,  *)
(* activities and items of a batch.                                        *)
(*                                                                         *)
(* The inductive invariant has three parts.  Typed: rows and transactions  *)
(* are well formed, and a worker is at a statement of its request.  Locked:*)
(* only committed rows that are current are locked, by the request that    *)
(* ends them.  Owned: the uncommitted rows of a request are the version it *)
(* uses and the activities of its answer.                                  *)
(*                                                                         *)
(* First each statement is put into the terms of the invariant (what it    *)
(* Reads, locks and inserts, how a transaction Ends), then each part is    *)
(* shown to survive it, for the worker that takes the step and for others. *)
(*                                                                         *)
(* The last sections are about what READ COMMITTED leaves of isolation: a  *)
(* request of a platform that nobody else asks for while it is served is   *)
(* as good as alone, although each of its statements sees what others have *)
(* committed meanwhile.  Isolated follows such a request from statement to *)
(* statement: all that is stored of its platform is older, what its        *)
(* SELECTs found still holds, the version it uses is in force once it      *)
(* commits, and the UPDATE of a batch ends all that its INSERT replaces.   *)
(* The requests of other platforms cannot disturb that, because none of    *)
(* their statements reaches a row of this one (OthersLeavePlatform).       *)
(***************************************************************************)
EXTENDS SdepTransactions, VersioningLemmas, FiniteSetTheorems

-----------------------------------------------------------------------------
(***************************************************************************)
(* Requests and rows                                                       *)
(***************************************************************************)

Started(w) == txn[w].pc # "idle"
Reporting(w) == Started(w) /\ txn[w].request.kind \in {"post", "bulk"}

\* The statements before and after the one that settles the platform version.
OnPlatform == {"find platform", "any platform", "end platform", "lock platform"}
WithPlatform ==
  {"find activity", "any activity", "existing", "deactivated", "current",
   "end activity", "lock activity", "insert", "answered"}

\* The statements of a request.
StatementsOf(request) ==
  IF request.kind = "end platform" THEN {"end platform", "lock platform", "answered"}
  ELSE IF request.kind = "end activity" THEN {"end activity", "lock activity", "answered"}
  ELSE IF request.kind = "bulk"
    THEN OnPlatform \cup {"existing", "deactivated", "current", "end activity",
                          "lock activity", "insert", "answered"}
  ELSE IF request.ids[1] = NoId THEN OnPlatform \cup {"insert", "answered"}
  ELSE OnPlatform \cup {"find activity", "any activity", "end activity", "lock activity",
                        "insert", "answered"}

AllRequests == UNION {Requests(p) : p \in Platforms}

\* What a request carries.
LEMMA RequestTypes ==
  ASSUME NEW request \in AllRequests
  PROVE  /\ request.platform \in Platforms
         /\ request.kind \in {"post", "bulk", "end platform", "end activity"}
         /\ request.kind \in {"post", "bulk"} => request.name \in Names
         /\ request.kind = "post" => \E x \in ActivityIds \cup {NoId} : request.ids = <<x>>
         /\ request.kind = "bulk" => /\ request.ids \in Seq(ActivityIds)
                                     /\ \A i, j \in DOMAIN request.ids :
                                           request.ids[i] = request.ids[j] => i = j
         /\ request.kind = "end activity" => \E x \in ActivityIds : request.ids = <<x>>
<1>1. PICK p \in Platforms : request \in Requests(p)
  BY DEF AllRequests
<1>2. \A b \in Batches : /\ b \in Seq(ActivityIds)
                         /\ \A i, j \in DOMAIN b : b[i] = b[j] => i = j
  <2> SUFFICES ASSUME NEW b \in Batches
               PROVE  b \in Seq(ActivityIds) /\ \A i, j \in DOMAIN b : b[i] = b[j] => i = j
    OBVIOUS
  <2>1. PICK n \in 1..MaxBatch : b \in [1..n -> ActivityIds]
    BY DEF Batches
  <2> QED
    BY <2>1, TransactionConstantsAssumption DEF Batches
<1>3. CASE request \in [kind: {"post"}, platform: {p}, name: Names,
                        ids: {<<x>> : x \in ActivityIds \cup {NoId}}]
  BY <1>3
<1>4. CASE request \in [kind: {"bulk"}, platform: {p}, name: Names, ids: Batches]
  BY <1>2, <1>4
<1>5. CASE request \in [kind: {"end platform"}, platform: {p}, ids: {<<>>}]
  BY <1>5
<1>6. CASE request \in [kind: {"end activity"}, platform: {p}, ids: {<<x>> : x \in ActivityIds}]
  BY <1>6
<1> QED
  BY <1>1, <1>3, <1>4, <1>5, <1>6 DEF Requests

Timestamps == 1..MaxTime

\* Rows of the two tables can be locked, committed and rolled back.
LEMMA PlatformRowsTakeMarks == TakesMarks(PlatformRow, Workers, Timestamps)
<1> SUFFICES ASSUME NEW r \in PlatformRow, NEW w \in Workers, NEW t \in Timestamps
             PROVE  /\ EndedRow(r, w, t) \in PlatformRow /\ RowEnded(r, EndedRow(r, w, t), w)
                    /\ CommittedRow(r, w, t) \in PlatformRow /\ RowCommitted(r, CommittedRow(r, w, t), w, t)
                    /\ RolledBackRow(r, w) \in PlatformRow /\ RowRolledBack(r, RolledBackRow(r, w), w)
  BY DEF TakesMarks
<1>1. EndedRow(r, w, t) \in PlatformRow /\ RowEnded(r, EndedRow(r, w, t), w)
  BY DEF EndedRow, PlatformRow, Writers, RowEnded
<1>2. CommittedRow(r, w, t) \in PlatformRow /\ RowCommitted(r, CommittedRow(r, w, t), w, t)
  <2> DEFINE b == IF r.by = w THEN "committed" ELSE r.by
             e == IF r.endedBy = w THEN t ELSE r.endedAt
             m == IF r.endedBy = w THEN "nobody" ELSE r.endedBy
             s == [r EXCEPT !.by = b, !.endedAt = e, !.endedBy = m]
  <2>1. CommittedRow(r, w, t) = s
    BY DEF CommittedRow
  <2>2. b \in Writers /\ e \in 0..MaxTime /\ m \in Workers \cup {"nobody"}
    BY DEF PlatformRow, Writers, Timestamps
  <2> HIDE DEF b, e, m
  <2>3. s \in PlatformRow
    BY <2>2 DEF PlatformRow
  <2>4. /\ s.fid = r.fid /\ s.createdAt = r.createdAt
        /\ s.by = b /\ s.endedAt = e /\ s.endedBy = m
    BY DEF PlatformRow
  <2> QED
    BY <2>1, <2>3, <2>4 DEF RowCommitted, b, e, m
<1>3. RolledBackRow(r, w) \in PlatformRow /\ RowRolledBack(r, RolledBackRow(r, w), w)
  BY DEF RolledBackRow, PlatformRow, Writers, RowRolledBack
<1> QED
  BY <1>1, <1>2, <1>3

\* The same for activities.
LEMMA ActivityRowsTakeMarks == TakesMarks(ActivityRow, Workers, Timestamps)
<1> SUFFICES ASSUME NEW r \in ActivityRow, NEW w \in Workers, NEW t \in Timestamps
             PROVE  /\ EndedRow(r, w, t) \in ActivityRow /\ RowEnded(r, EndedRow(r, w, t), w)
                    /\ CommittedRow(r, w, t) \in ActivityRow /\ RowCommitted(r, CommittedRow(r, w, t), w, t)
                    /\ RolledBackRow(r, w) \in ActivityRow /\ RowRolledBack(r, RolledBackRow(r, w), w)
  BY DEF TakesMarks
<1>1. EndedRow(r, w, t) \in ActivityRow /\ RowEnded(r, EndedRow(r, w, t), w)
  BY DEF EndedRow, ActivityRow, Writers, RowEnded
<1>2. CommittedRow(r, w, t) \in ActivityRow /\ RowCommitted(r, CommittedRow(r, w, t), w, t)
  <2> DEFINE b == IF r.by = w THEN "committed" ELSE r.by
             e == IF r.endedBy = w THEN t ELSE r.endedAt
             m == IF r.endedBy = w THEN "nobody" ELSE r.endedBy
             s == [r EXCEPT !.by = b, !.endedAt = e, !.endedBy = m]
  <2>1. CommittedRow(r, w, t) = s
    BY DEF CommittedRow
  <2>2. b \in Writers /\ e \in 0..MaxTime /\ m \in Workers \cup {"nobody"}
    BY DEF ActivityRow, Writers, Timestamps
  <2> HIDE DEF b, e, m
  <2>3. s \in ActivityRow
    BY <2>2 DEF ActivityRow
  <2>4. /\ s.fid = r.fid /\ s.createdAt = r.createdAt
        /\ s.by = b /\ s.endedAt = e /\ s.endedBy = m
    BY DEF ActivityRow
  <2> QED
    BY <2>1, <2>3, <2>4 DEF RowCommitted, b, e, m
<1>3. RolledBackRow(r, w) \in ActivityRow /\ RowRolledBack(r, RolledBackRow(r, w), w)
  BY DEF RolledBackRow, ActivityRow, Writers, RowRolledBack
<1> QED
  BY <1>1, <1>2, <1>3

\* A row has no other marks: a lock or an end changes nothing else of it.
LEMMA RowsKeepHistory == /\ KeepsHistory(PlatformRow, Workers, Timestamps)
                         /\ KeepsHistory(ActivityRow, Workers, Timestamps)
<1>1. ASSUME NEW r \in PlatformRow, NEW w \in Workers, NEW t \in Timestamps, r.by = "committed"
      PROVE  /\ [EndedRow(r, w, t) EXCEPT !.endedBy = "nobody"] = [r EXCEPT !.endedBy = "nobody"]
             /\ r.endedBy # w => CommittedRow(r, w, t) = r
             /\ r.endedBy = w =>
                  CommittedRow(r, w, t) = [r EXCEPT !.endedAt = CommittedRow(r, w, t).endedAt,
                                                    !.endedBy = "nobody"]
             /\ [RolledBackRow(r, w) EXCEPT !.endedBy = "nobody"] = [r EXCEPT !.endedBy = "nobody"]
  <2>1. w # "committed"
    BY TransactionConstantsAssumption
  <2>2. r.by # w
    BY <1>1, <2>1
  <2>3. [EndedRow(r, w, t) EXCEPT !.endedBy = "nobody"] = [r EXCEPT !.endedBy = "nobody"]
    BY DEF EndedRow, PlatformRow
  <2>4. r.endedBy # w => CommittedRow(r, w, t) = r
    BY <2>2 DEF CommittedRow, PlatformRow
  <2>5. r.endedBy = w => CommittedRow(r, w, t) = [r EXCEPT !.endedAt = t, !.endedBy = "nobody"]
    BY <2>2 DEF CommittedRow, PlatformRow
  <2>6. [RolledBackRow(r, w) EXCEPT !.endedBy = "nobody"] = [r EXCEPT !.endedBy = "nobody"]
    BY <2>2 DEF RolledBackRow, PlatformRow
  <2>7. [r EXCEPT !.endedAt = t, !.endedBy = "nobody"].endedAt = t
    BY DEF PlatformRow
  <2> QED
    BY <2>3, <2>4, <2>5, <2>6, <2>7
<1>2. ASSUME NEW r \in ActivityRow, NEW w \in Workers, NEW t \in Timestamps, r.by = "committed"
      PROVE  /\ [EndedRow(r, w, t) EXCEPT !.endedBy = "nobody"] = [r EXCEPT !.endedBy = "nobody"]
             /\ r.endedBy # w => CommittedRow(r, w, t) = r
             /\ r.endedBy = w =>
                  CommittedRow(r, w, t) = [r EXCEPT !.endedAt = CommittedRow(r, w, t).endedAt,
                                                    !.endedBy = "nobody"]
             /\ [RolledBackRow(r, w) EXCEPT !.endedBy = "nobody"] = [r EXCEPT !.endedBy = "nobody"]
  <2>1. w # "committed"
    BY TransactionConstantsAssumption
  <2>2. r.by # w
    BY <1>2, <2>1
  <2>3. [EndedRow(r, w, t) EXCEPT !.endedBy = "nobody"] = [r EXCEPT !.endedBy = "nobody"]
    BY DEF EndedRow, ActivityRow
  <2>4. r.endedBy # w => CommittedRow(r, w, t) = r
    BY <2>2 DEF CommittedRow, ActivityRow
  <2>5. r.endedBy = w => CommittedRow(r, w, t) = [r EXCEPT !.endedAt = t, !.endedBy = "nobody"]
    BY <2>2 DEF CommittedRow, ActivityRow
  <2>6. [RolledBackRow(r, w) EXCEPT !.endedBy = "nobody"] = [r EXCEPT !.endedBy = "nobody"]
    BY <2>2 DEF RolledBackRow, ActivityRow
  <2>7. [r EXCEPT !.endedAt = t, !.endedBy = "nobody"].endedAt = t
    BY DEF ActivityRow
  <2> QED
    BY <2>3, <2>4, <2>5, <2>6, <2>7
<1> QED
  BY <1>1, <1>2 DEF KeepsHistory

\* The version an activity was reported by survives every mark.
LEMMA MarksKeepVersion ==
  ASSUME NEW r \in ActivityRow, NEW w \in Workers, NEW t \in Timestamps
  PROVE  /\ EndedRow(r, w, t).platform = r.platform
         /\ CommittedRow(r, w, t).platform = r.platform
         /\ RolledBackRow(r, w).platform = r.platform
BY DEF EndedRow, CommittedRow, RolledBackRow, ActivityRow

-----------------------------------------------------------------------------
(***************************************************************************)
(* Types                                                                   *)
(***************************************************************************)

\* What a worker knows of its own request.
RequestKept(w) ==
  /\ Started(w) => /\ txn[w].request \in AllRequests
                   /\ txn[w].time \in 1..now
                   /\ txn[w].pc \in StatementsOf(txn[w].request)
  /\ (txn[w].pc \in {"current", "end activity", "lock activity", "insert"}
        /\ txn[w].request.kind = "bulk") => txn[w].accepted \in Seq(ActivityIds)
  /\ Reporting(w) /\ txn[w].pc \in WithPlatform => txn[w].pid \in DOMAIN platform
  /\ txn[w].pc = "lock platform" => txn[w].targets \subseteq DOMAIN platform
  /\ txn[w].pc = "lock activity" => txn[w].targets \subseteq DOMAIN activity

Typed ==
  /\ platform \in Seq(PlatformRow)
  /\ activity \in Seq(ActivityRow)
  /\ now \in 0..MaxTime
  /\ finished.time \in 0..MaxTime
  /\ txn \in [Workers -> Transaction]
  /\ overlapped \subseteq Platforms
  /\ \A w \in Workers : RequestKept(w)

\* A worker between two statements.
LEMMA WorkerTypes ==
  ASSUME Typed, NEW w \in Workers
  PROVE  /\ w \notin {"committed", "aborted", "nobody"}
         /\ txn[w] \in Transaction
         /\ txn[w].pc \in Statements /\ txn[w].pid \in Nat /\ txn[w].owner \in Nat
         /\ txn[w].time \in 0..MaxTime
         /\ txn[w].ending \subseteq ActivityIds /\ txn[w].targets \subseteq Nat \ {0}
         /\ txn[w].accepted \in Seq(ActivityIds \cup 1..MaxTime)
         /\ txn[w].status \in {0, 200, 201, 422}
         /\ txn[w].alone \in BOOLEAN
         /\ MaxTime \in Nat /\ now \in Nat
         /\ Started(w) => /\ txn[w].request \in AllRequests
                          /\ txn[w].time \in 1..MaxTime /\ txn[w].time \in Timestamps
                          /\ txn[w].pc \in StatementsOf(txn[w].request)
<1>1. txn[w] \in Transaction
  BY DEF Typed
<1>2. /\ txn[w].pc \in Statements /\ txn[w].pid \in Nat /\ txn[w].owner \in Nat
      /\ txn[w].time \in 0..MaxTime
      /\ txn[w].ending \subseteq ActivityIds /\ txn[w].targets \subseteq Nat \ {0}
      /\ txn[w].accepted \in Seq(ActivityIds \cup 1..MaxTime)
      /\ txn[w].status \in {0, 200, 201, 422}
      /\ txn[w].alone \in BOOLEAN
  BY <1>1 DEF Transaction
<1>3. w \notin {"committed", "aborted", "nobody"} /\ MaxTime \in Nat
  BY TransactionConstantsAssumption
<1>4. now \in 0..MaxTime
  BY DEF Typed
<1>5. Started(w) => /\ txn[w].request \in AllRequests
                    /\ txn[w].time \in 1..now
                    /\ txn[w].pc \in StatementsOf(txn[w].request)
  BY DEF Typed, RequestKept
<1> QED
  BY <1>1, <1>2, <1>3, <1>4, <1>5 DEF Timestamps

-----------------------------------------------------------------------------
(***************************************************************************)
(* What each step does                                                     *)
(***************************************************************************)

\* The fields of worker v that another request may not touch.
Untouched(v) ==
  /\ txn'[v].pc = txn[v].pc /\ txn'[v].request = txn[v].request
  /\ txn'[v].time = txn[v].time /\ txn'[v].pid = txn[v].pid
  /\ txn'[v].owner = txn[v].owner /\ txn'[v].ending = txn[v].ending
  /\ txn'[v].targets = txn[v].targets /\ txn'[v].accepted = txn[v].accepted

\* w goes on with statement pc; what it has learned changes as given.
GoesOn(w, pc, pid, owner, ending, targets, accepted) ==
  /\ txn' \in [Workers -> Transaction]
  /\ txn'[w].pc = pc
  /\ txn'[w].request = txn[w].request /\ txn'[w].time = txn[w].time
  /\ txn'[w].pid = pid /\ txn'[w].owner = owner /\ txn'[w].ending = ending
  /\ txn'[w].targets = targets /\ txn'[w].accepted = accepted
  /\ \A v \in Workers \ {w} : Untouched(v)
  /\ UNCHANGED <<now, finished, overlapped>>

\* The same for a statement that only reads.
Reads(w, pc, pid, owner, ending, targets, accepted) ==
  /\ GoesOn(w, pc, pid, owner, ending, targets, accepted)
  /\ UNCHANGED <<platform, activity>>

\* The worker is free again.
Ends(w) ==
  /\ txn' \in [Workers -> Transaction]
  /\ txn'[w] = Idle
  /\ \A v \in Workers \ {w} : Untouched(v)
  /\ finished'.time = txn[w].time
  /\ UNCHANGED <<now, overlapped>>

IsRolledBack(w) ==
  /\ Started(w)
  /\ platform' = AllRolledBack(platform, w)
  /\ activity' = AllRolledBack(activity, w)
  /\ Ends(w)

IsCommitted(w) ==
  /\ txn[w].pc = "answered"
  /\ platform' = AllCommitted(platform, w, txn[w].time)
  /\ activity' = AllCommitted(activity, w, txn[w].time)
  /\ Ends(w)

\* An idle worker is a transaction record.
LEMMA IdleType == Idle \in Transaction
<1>1. <<>> \in Seq(ActivityIds \cup 1..MaxTime)
  OBVIOUS
<1>2. 0 \in 0..MaxTime
  BY TransactionConstantsAssumption
<1> QED
  BY <1>1, <1>2 DEF Idle, Transaction, Statements

\* The fields of a transaction record, with names for the sets they range over:
\* the provers decide on the fields of a record only if these sets are opaque.
Shape(A, Q, T, E, G, C, S) ==
  Transaction = [pc: Statements, alone: A, request: Q, time: T, pid: Nat, owner: Nat,
                 ending: E, targets: G, existing: E, accepted: C, status: S]
Ranges(A, Q, T, E, G, C, S) ==
  /\ A = BOOLEAN /\ Q = {<<>>} \cup AllRequests /\ T = 0..MaxTime
  /\ E = SUBSET ActivityIds /\ G = SUBSET (Nat \ {0})
  /\ C = Seq(ActivityIds \cup 1..MaxTime) /\ S = {0, 200, 201, 422}

\* The sets are those of the specification.
LEMMA TransactionShape ==
  \E A, Q, T, E, G, C, S : Shape(A, Q, T, E, G, C, S) /\ Ranges(A, Q, T, E, G, C, S)
<1> DEFINE A == BOOLEAN
           Q == {<<>>} \cup AllRequests
           T == 0..MaxTime
           E == SUBSET ActivityIds
           G == SUBSET (Nat \ {0})
           C == Seq(ActivityIds \cup 1..MaxTime)
           S == {0, 200, 201, 422}
<1>1. Shape(A, Q, T, E, G, C, S)
  BY Zenon DEF Transaction, AllRequests, Shape
<1>2. Ranges(A, Q, T, E, G, C, S)
  BY Zenon DEF Ranges
<1> HIDE DEF A, Q, T, E, G, C, S
<1> QED
  BY <1>1, <1>2, Zenon

\* A worker goes on with another statement.
LEMMA GoesOnStatement ==
  ASSUME Typed, NEW w \in Workers,
         NEW pc \in Statements,
         txn' = [txn EXCEPT ![w].pc = pc],
         UNCHANGED <<now, finished, overlapped>>
  PROVE  GoesOn(w, pc, txn[w].pid, txn[w].owner, txn[w].ending, txn[w].targets, txn[w].accepted)
<1> DEFINE s == [txn[w] EXCEPT !.pc = pc]
<1>1. txn \in [Workers -> Transaction] /\ txn[w] \in Transaction
  BY DEF Typed
<1>2. PICK A, Q, T, E, G, C, S : Shape(A, Q, T, E, G, C, S) /\ Ranges(A, Q, T, E, G, C, S)
  BY TransactionShape
<1>3. pc \in Statements
  BY <1>2 DEF Ranges
<1>4. Shape(A, Q, T, E, G, C, S)
  BY <1>2
<1>5. s \in Transaction
  BY <1>1, <1>3, <1>4 DEF Shape
<1>6. /\ s.pc = pc /\ s.pid = txn[w].pid
      /\ s.owner = txn[w].owner /\ s.ending = txn[w].ending
      /\ s.targets = txn[w].targets /\ s.accepted = txn[w].accepted
      /\ s.request = txn[w].request /\ s.time = txn[w].time
  BY <1>1, <1>4 DEF Shape
<1>7. txn'[w] = s /\ \A v \in Workers \ {w} : txn'[v] = txn[v]
  BY <1>1
<1>8. txn' \in [Workers -> Transaction]
  BY <1>1, <1>5
<1> HIDE DEF s
<1> QED
  BY <1>6, <1>7, <1>8 DEF GoesOn, Untouched

\* A worker goes on with another statement and a platform version to use.
LEMMA GoesOnPlatform ==
  ASSUME Typed, NEW w \in Workers,
         NEW pc \in Statements,
         NEW pid \in Nat,
         txn' = [txn EXCEPT ![w].pc = pc, ![w].pid = pid],
         UNCHANGED <<now, finished, overlapped>>
  PROVE  GoesOn(w, pc, pid, txn[w].owner, txn[w].ending, txn[w].targets, txn[w].accepted)
<1> DEFINE s == [txn[w] EXCEPT !.pc = pc, !.pid = pid]
<1>1. txn \in [Workers -> Transaction] /\ txn[w] \in Transaction
  BY DEF Typed
<1>2. PICK A, Q, T, E, G, C, S : Shape(A, Q, T, E, G, C, S) /\ Ranges(A, Q, T, E, G, C, S)
  BY TransactionShape
<1>3. pc \in Statements /\ pid \in Nat
  BY <1>2 DEF Ranges
<1>4. Shape(A, Q, T, E, G, C, S)
  BY <1>2
<1>5. s \in Transaction
  BY <1>1, <1>3, <1>4 DEF Shape
<1>6. /\ s.pc = pc /\ s.pid = pid
      /\ s.owner = txn[w].owner /\ s.ending = txn[w].ending
      /\ s.targets = txn[w].targets /\ s.accepted = txn[w].accepted
      /\ s.request = txn[w].request /\ s.time = txn[w].time
  BY <1>1, <1>4 DEF Shape
<1>7. txn'[w] = s /\ \A v \in Workers \ {w} : txn'[v] = txn[v]
  BY <1>1
<1>8. txn' \in [Workers -> Transaction]
  BY <1>1, <1>5
<1> HIDE DEF s
<1> QED
  BY <1>6, <1>7, <1>8 DEF GoesOn, Untouched

\* An UPDATE has found its rows.
LEMMA GoesOnTargets ==
  ASSUME Typed, NEW w \in Workers,
         NEW pc \in Statements,
         NEW targets \in SUBSET (Nat \ {0}),
         txn' = [txn EXCEPT ![w].pc = pc, ![w].targets = targets],
         UNCHANGED <<now, finished, overlapped>>
  PROVE  GoesOn(w, pc, txn[w].pid, txn[w].owner, txn[w].ending, targets, txn[w].accepted)
<1> DEFINE s == [txn[w] EXCEPT !.pc = pc, !.targets = targets]
<1>1. txn \in [Workers -> Transaction] /\ txn[w] \in Transaction
  BY DEF Typed
<1>2. PICK A, Q, T, E, G, C, S : Shape(A, Q, T, E, G, C, S) /\ Ranges(A, Q, T, E, G, C, S)
  BY TransactionShape
<1>3. pc \in Statements /\ targets \in G
  BY <1>2 DEF Ranges
<1>4. Shape(A, Q, T, E, G, C, S)
  BY <1>2
<1>5. s \in Transaction
  BY <1>1, <1>3, <1>4 DEF Shape
<1>6. /\ s.pc = pc /\ s.pid = txn[w].pid
      /\ s.owner = txn[w].owner /\ s.ending = txn[w].ending
      /\ s.targets = targets /\ s.accepted = txn[w].accepted
      /\ s.request = txn[w].request /\ s.time = txn[w].time
  BY <1>1, <1>4 DEF Shape
<1>7. txn'[w] = s /\ \A v \in Workers \ {w} : txn'[v] = txn[v]
  BY <1>1
<1>8. txn' \in [Workers -> Transaction]
  BY <1>1, <1>5
<1> HIDE DEF s
<1> QED
  BY <1>6, <1>7, <1>8 DEF GoesOn, Untouched

\* A worker has found the activities it is going to end.
LEMMA GoesOnEnding ==
  ASSUME Typed, NEW w \in Workers,
         NEW pc \in Statements,
         NEW ending \in SUBSET ActivityIds,
         NEW owner \in Nat,
         txn' = [txn EXCEPT ![w].pc = pc, ![w].ending = ending, ![w].owner = owner],
         UNCHANGED <<now, finished, overlapped>>
  PROVE  GoesOn(w, pc, txn[w].pid, owner, ending, txn[w].targets, txn[w].accepted)
<1> DEFINE s == [txn[w] EXCEPT !.pc = pc, !.ending = ending, !.owner = owner]
<1>1. txn \in [Workers -> Transaction] /\ txn[w] \in Transaction
  BY DEF Typed
<1>2. PICK A, Q, T, E, G, C, S : Shape(A, Q, T, E, G, C, S) /\ Ranges(A, Q, T, E, G, C, S)
  BY TransactionShape
<1>3. pc \in Statements /\ ending \in E /\ owner \in Nat
  BY <1>2 DEF Ranges
<1>4. Shape(A, Q, T, E, G, C, S)
  BY <1>2
<1>5. s \in Transaction
  BY <1>1, <1>3, <1>4 DEF Shape
<1>6. /\ s.pc = pc /\ s.pid = txn[w].pid
      /\ s.owner = owner /\ s.ending = ending
      /\ s.targets = txn[w].targets /\ s.accepted = txn[w].accepted
      /\ s.request = txn[w].request /\ s.time = txn[w].time
  BY <1>1, <1>4 DEF Shape
<1>7. txn'[w] = s /\ \A v \in Workers \ {w} : txn'[v] = txn[v]
  BY <1>1
<1>8. txn' \in [Workers -> Transaction]
  BY <1>1, <1>5
<1> HIDE DEF s
<1> QED
  BY <1>6, <1>7, <1>8 DEF GoesOn, Untouched

\* A worker has found the ids of its batch that have been reported before.
LEMMA GoesOnExisting ==
  ASSUME Typed, NEW w \in Workers,
         NEW pc \in Statements,
         NEW existing \in SUBSET ActivityIds,
         txn' = [txn EXCEPT ![w].pc = pc, ![w].existing = existing],
         UNCHANGED <<now, finished, overlapped>>
  PROVE  GoesOn(w, pc, txn[w].pid, txn[w].owner, txn[w].ending, txn[w].targets, txn[w].accepted)
<1> DEFINE s == [txn[w] EXCEPT !.pc = pc, !.existing = existing]
<1>1. txn \in [Workers -> Transaction] /\ txn[w] \in Transaction
  BY DEF Typed
<1>2. PICK A, Q, T, E, G, C, S : Shape(A, Q, T, E, G, C, S) /\ Ranges(A, Q, T, E, G, C, S)
  BY TransactionShape
<1>3. pc \in Statements /\ existing \in E
  BY <1>2 DEF Ranges
<1>4. Shape(A, Q, T, E, G, C, S)
  BY <1>2
<1>5. s \in Transaction
  BY <1>1, <1>3, <1>4 DEF Shape
<1>6. /\ s.pc = pc /\ s.pid = txn[w].pid
      /\ s.owner = txn[w].owner /\ s.ending = txn[w].ending
      /\ s.targets = txn[w].targets /\ s.accepted = txn[w].accepted
      /\ s.request = txn[w].request /\ s.time = txn[w].time
  BY <1>1, <1>4 DEF Shape
<1>7. txn'[w] = s /\ \A v \in Workers \ {w} : txn'[v] = txn[v]
  BY <1>1
<1>8. txn' \in [Workers -> Transaction]
  BY <1>1, <1>5
<1> HIDE DEF s
<1> QED
  BY <1>6, <1>7, <1>8 DEF GoesOn, Untouched

\* A worker has found the items of its batch that are not deactivated.
LEMMA GoesOnAccepted ==
  ASSUME Typed, NEW w \in Workers,
         NEW pc \in Statements,
         NEW accepted \in Seq(ActivityIds \cup 1..MaxTime),
         txn' = [txn EXCEPT ![w].pc = pc, ![w].existing = {}, ![w].accepted = accepted],
         UNCHANGED <<now, finished, overlapped>>
  PROVE  GoesOn(w, pc, txn[w].pid, txn[w].owner, txn[w].ending, txn[w].targets, accepted)
<1> DEFINE s == [txn[w] EXCEPT !.pc = pc, !.existing = {}, !.accepted = accepted]
<1>1. txn \in [Workers -> Transaction] /\ txn[w] \in Transaction
  BY DEF Typed
<1>2. PICK A, Q, T, E, G, C, S : Shape(A, Q, T, E, G, C, S) /\ Ranges(A, Q, T, E, G, C, S)
  BY TransactionShape
<1>3. pc \in Statements /\ accepted \in C /\ {} \in E
  BY <1>2 DEF Ranges
<1>4. Shape(A, Q, T, E, G, C, S)
  BY <1>2
<1>5. s \in Transaction
  BY <1>1, <1>3, <1>4 DEF Shape
<1>6. /\ s.pc = pc /\ s.pid = txn[w].pid
      /\ s.owner = txn[w].owner /\ s.ending = txn[w].ending
      /\ s.targets = txn[w].targets /\ s.accepted = accepted
      /\ s.request = txn[w].request /\ s.time = txn[w].time
  BY <1>1, <1>4 DEF Shape
<1>7. txn'[w] = s /\ \A v \in Workers \ {w} : txn'[v] = txn[v]
  BY <1>1
<1>8. txn' \in [Workers -> Transaction]
  BY <1>1, <1>5
<1> HIDE DEF s
<1> QED
  BY <1>6, <1>7, <1>8 DEF GoesOn, Untouched

\* An UPDATE has locked a row.
LEMMA GoesOnLock ==
  ASSUME Typed, NEW w \in Workers,
         NEW targets \in SUBSET (Nat \ {0}),
         txn' = [txn EXCEPT ![w].targets = targets],
         UNCHANGED <<now, finished, overlapped>>
  PROVE  GoesOn(w, txn[w].pc, txn[w].pid, txn[w].owner, txn[w].ending, targets, txn[w].accepted)
<1> DEFINE s == [txn[w] EXCEPT !.targets = targets]
<1>1. txn \in [Workers -> Transaction] /\ txn[w] \in Transaction
  BY DEF Typed
<1>2. PICK A, Q, T, E, G, C, S : Shape(A, Q, T, E, G, C, S) /\ Ranges(A, Q, T, E, G, C, S)
  BY TransactionShape
<1>3. targets \in G
  BY <1>2 DEF Ranges
<1>4. Shape(A, Q, T, E, G, C, S)
  BY <1>2
<1>5. s \in Transaction
  BY <1>1, <1>3, <1>4 DEF Shape
<1>6. /\ s.pc = txn[w].pc /\ s.pid = txn[w].pid
      /\ s.owner = txn[w].owner /\ s.ending = txn[w].ending
      /\ s.targets = targets /\ s.accepted = txn[w].accepted
      /\ s.request = txn[w].request /\ s.time = txn[w].time
  BY <1>1, <1>4 DEF Shape
<1>7. txn'[w] = s /\ \A v \in Workers \ {w} : txn'[v] = txn[v]
  BY <1>1
<1>8. txn' \in [Workers -> Transaction]
  BY <1>1, <1>5
<1> HIDE DEF s
<1> QED
  BY <1>6, <1>7, <1>8 DEF GoesOn, Untouched

Statuses == {0, 200, 201, 422}

\* A worker has stored its activities.
LEMMA GoesOnAnswer ==
  ASSUME Typed, NEW w \in Workers,
         NEW pc \in Statements,
         NEW accepted \in Seq(ActivityIds \cup 1..MaxTime),
         NEW status \in Statuses,
         txn' = [txn EXCEPT ![w].pc = pc, ![w].accepted = accepted, ![w].status = status],
         UNCHANGED <<now, finished, overlapped>>
  PROVE  GoesOn(w, pc, txn[w].pid, txn[w].owner, txn[w].ending, txn[w].targets, accepted)
<1> DEFINE s == [txn[w] EXCEPT !.pc = pc, !.accepted = accepted, !.status = status]
<1>1. txn \in [Workers -> Transaction] /\ txn[w] \in Transaction
  BY DEF Typed
<1>2. PICK A, Q, T, E, G, C, S : Shape(A, Q, T, E, G, C, S) /\ Ranges(A, Q, T, E, G, C, S)
  BY TransactionShape
<1>3. pc \in Statements /\ accepted \in C /\ status \in S
  BY <1>2 DEF Ranges, Statuses
<1>4. Shape(A, Q, T, E, G, C, S)
  BY <1>2
<1>5. s \in Transaction
  BY <1>1, <1>3, <1>4 DEF Shape
<1>6. /\ s.pc = pc /\ s.pid = txn[w].pid
      /\ s.owner = txn[w].owner /\ s.ending = txn[w].ending
      /\ s.targets = txn[w].targets /\ s.accepted = accepted
      /\ s.request = txn[w].request /\ s.time = txn[w].time
  BY <1>1, <1>4 DEF Shape
<1>7. txn'[w] = s /\ \A v \in Workers \ {w} : txn'[v] = txn[v]
  BY <1>1
<1>8. txn' \in [Workers -> Transaction]
  BY <1>1, <1>5
<1> HIDE DEF s
<1> QED
  BY <1>6, <1>7, <1>8 DEF GoesOn, Untouched

\* A request is taken up.
LEMMA StartEffect ==
  ASSUME Typed, NEW w \in Workers, NEW p \in Platforms, NEW request \in Requests(p),
         Start(w, request)
  PROVE  /\ ~Started(w) /\ now < MaxTime /\ now' = now + 1
         /\ request \in AllRequests /\ request.platform = p
         /\ txn' \in [Workers -> Transaction]
         /\ txn'[w].request = request /\ txn'[w].time = now + 1
         /\ txn'[w].accepted = <<>>
         /\ \/ /\ request.kind \in {"post", "bulk"} /\ txn'[w].pc = "find platform"
               /\ txn'[w].ending = {}
            \/ request.kind = "end platform" /\ txn'[w].pc = "end platform"
            \/ request.kind = "end activity" /\ txn'[w].pc = "end activity"
         /\ \A v \in Workers \ {w} : Untouched(v)
         /\ overlapped \subseteq overlapped' /\ overlapped' \subseteq overlapped \cup {p}
         /\ \A v \in Workers \ {w} : Started(v) /\ txn[v].request.platform = p => p \in overlapped'
         /\ UNCHANGED <<platform, activity, finished>>
<1>1. request \in AllRequests
  BY DEF AllRequests
<1>2. request.platform = p
  BY DEF Requests
<1>3. now \in Nat /\ MaxTime \in Nat
  BY TransactionConstantsAssumption DEF Typed
<1>4. ASSUME NEW pc \in Statements, NEW ending \in SUBSET ActivityIds, NEW owner \in Nat,
             now < MaxTime, Begin(w, request, pc, ending, owner)
      PROVE  /\ now' = now + 1
             /\ txn' \in [Workers -> Transaction]
             /\ txn'[w].request = request /\ txn'[w].time = now + 1
             /\ txn'[w].accepted = <<>> /\ txn'[w].pc = pc /\ txn'[w].ending = ending
             /\ \A v \in Workers \ {w} : Untouched(v)
             /\ overlapped \subseteq overlapped' /\ overlapped' \subseteq overlapped \cup {p}
             /\ \A v \in Workers \ {w} : Started(v) /\ txn[v].request.platform = p => p \in overlapped'
             /\ UNCHANGED <<platform, activity, finished>>
  <2> DEFINE a == Busy(w) = {}
             b(v) == txn[v].alone /\ v \notin Busy(w)
             r == [Idle EXCEPT !.pc = pc, !.request = request, !.time = now',
                               !.ending = ending, !.owner = owner, !.alone = a]
             other(v) == [txn[v] EXCEPT !.alone = b(v)]
  <2>1. /\ now' = now + 1
        /\ txn' = [v \in Workers |-> IF v = w THEN r ELSE other(v)]
        /\ Overlap(w, p)
        /\ UNCHANGED <<platform, activity, finished>>
    BY <1>2, <1>4 DEF Begin
  <2>2. now' \in 0..MaxTime
    <3> DEFINE t == now'
    <3>1. t = now + 1
      BY <2>1
    <3> HIDE DEF t
    <3>2. t \in 0..MaxTime
      BY <1>3, <1>4, <3>1
    <3> QED
      BY <3>2 DEF t
  <2>3. a \in BOOLEAN /\ \A v : b(v) \in BOOLEAN
    OBVIOUS
  <2> HIDE DEF a, b
  <2>4. /\ r.request = request /\ r.time = now' /\ r.accepted = <<>> /\ r.pc = pc
        /\ r.ending = ending
    BY DEF Idle
  <2>5. r \in Transaction
    <3>1. PICK A, Q, T, E, G, C, S : Shape(A, Q, T, E, G, C, S) /\ Ranges(A, Q, T, E, G, C, S)
      BY TransactionShape
    <3>2. Shape(A, Q, T, E, G, C, S)
      BY <3>1
    <3>3. a \in A /\ request \in Q /\ now' \in T /\ ending \in E /\ {} \in E /\ {} \in G /\ 0 \in S
      BY <1>1, <2>2, <2>3, <3>1 DEF Ranges
    <3>4. <<>> \in C
      BY <3>1 DEF Ranges
    <3> QED
      BY <3>2, <3>3, <3>4 DEF Idle, Shape
  <2>6. \A v \in Workers : txn[v] \in Transaction
    BY DEF Typed
  <2>7. ASSUME NEW v \in Workers
        PROVE  /\ other(v) \in Transaction
               /\ other(v).pc = txn[v].pc /\ other(v).request = txn[v].request
               /\ other(v).time = txn[v].time /\ other(v).pid = txn[v].pid
               /\ other(v).owner = txn[v].owner /\ other(v).ending = txn[v].ending
               /\ other(v).targets = txn[v].targets /\ other(v).accepted = txn[v].accepted
    <3>1. PICK A, Q, T, E, G, C, S : Shape(A, Q, T, E, G, C, S) /\ Ranges(A, Q, T, E, G, C, S)
      BY TransactionShape
    <3>2. Shape(A, Q, T, E, G, C, S)
      BY <3>1
    <3>3. b(v) \in A /\ txn[v] \in Transaction
      BY <2>3, <2>6, <3>1 DEF Ranges
    <3> QED
      BY <3>2, <3>3 DEF Shape
  <2> HIDE DEF r, other
  <2>8. txn' \in [Workers -> Transaction]
    BY <2>1, <2>5, <2>7
  <2>9. txn'[w] = r /\ \A v \in Workers \ {w} : txn'[v] = other(v)
    BY <2>1
  <2>10. \A v \in Workers \ {w} : Untouched(v)
    BY <2>7, <2>9 DEF Untouched
  <2>11. /\ overlapped \subseteq overlapped' /\ overlapped' \subseteq overlapped \cup {p}
         /\ \A v \in Workers \ {w} : Started(v) /\ txn[v].request.platform = p => p \in overlapped'
    BY <2>1 DEF Overlap, Busy, Started
  <2> QED
    BY <2>1, <2>4, <2>8, <2>9, <2>10, <2>11
<1>5. ~Started(w) /\ now < MaxTime
  BY DEF Start, Started
<1>6. {"find platform", "end platform", "end activity"} \subseteq Statements
  BY DEF Statements
<1>7. CASE request.kind \in {"post", "bulk"} /\ Begin(w, request, "find platform", {}, 0)
  BY <1>1, <1>2, <1>4, <1>5, <1>6, <1>7
<1>8. CASE request.kind = "end platform" /\ Begin(w, request, "end platform", {}, 0)
  BY <1>1, <1>2, <1>4, <1>5, <1>6, <1>8
<1>9. CASE request.kind = "end activity"
           /\ \E i \in CurrentTo(w, activity, request.ids[1]) :
                Begin(w, request, "end activity", {request.ids[1]}, activity[i].platform)
  <2>1. PICK i \in CurrentTo(w, activity, request.ids[1]) :
               Begin(w, request, "end activity", {request.ids[1]}, activity[i].platform)
    BY <1>9
  <2>2. request.ids[1] \in ActivityIds
    <3>1. PICK x \in ActivityIds : request.ids = <<x>>
      BY <1>1, <1>9, RequestTypes
    <3> QED
      BY <3>1
  <2>3. i \in DOMAIN activity /\ activity[i] \in ActivityRow
    BY DEF CurrentTo, VisibleTo, Versions, Typed
  <2>4. activity[i].platform \in Nat
    BY <2>3 DEF ActivityRow
  <2> QED
    BY <1>1, <1>2, <1>4, <1>5, <1>6, <1>9, <2>1, <2>2, <2>4
<1> QED
  BY <1>7, <1>8, <1>9 DEF Start

\* A refusal or a lost connection: an exception leaves the session block.
LEMMA RollBackEffect ==
  ASSUME Typed, NEW w \in Workers, Started(w), NEW reply, RollBack(w, reply)
  PROVE  IsRolledBack(w)
<1>1. txn' = [txn EXCEPT ![w] = Idle] /\ txn \in [Workers -> Transaction]
  BY DEF RollBack, Typed
<1>2. txn' \in [Workers -> Transaction] /\ txn'[w] = Idle
  BY <1>1, IdleType
<1>3. \A v \in Workers \ {w} : Untouched(v)
  BY <1>1 DEF Untouched
<1>4. finished' = [time |-> txn[w].time, reply |-> reply] /\ UNCHANGED <<now, overlapped>>
  BY DEF RollBack
<1> QED
  BY <1>2, <1>3, <1>4 DEF RollBack, IsRolledBack, Ends

\* A lost connection, or a statement that PostgreSQL fails to end a deadlock.
LEMMA FailureEffect ==
  ASSUME Typed, NEW w \in Workers, Crash(w) \/ DeadlockDetected(w)
  PROVE  Started(w) /\ IsRolledBack(w)
<1>1. CASE Crash(w)
  BY <1>1, RollBackEffect DEF Crash, Started
<1>2. CASE DeadlockDetected(w)
  <2>1. txn[w].pc \in {"lock platform", "lock activity"}
    <3>1. PICK S \in SUBSET Workers :
                 w \in S /\ \E next \in Bijection(S, S) : \A v \in S : Waits(v, next[v])
      BY <1>2 DEF DeadlockDetected, Deadlocked
    <3>2. PICK next \in Bijection(S, S) : Waits(w, next[w])
      BY <3>1
    <3> QED
      BY <3>2 DEF Waits
  <2>2. Started(w)
    BY <2>1 DEF Started
  <2> QED
    BY <1>2, <2>2, RollBackEffect DEF DeadlockDetected, Refuse
<1> QED
  BY <1>1, <1>2

\* The commit after the response.
LEMMA CommitEffect ==
  ASSUME Typed, NEW w \in Workers, Commit(w)
  PROVE  IsCommitted(w)
<1>1. txn' = [txn EXCEPT ![w] = Idle] /\ txn \in [Workers -> Transaction]
  BY DEF Commit, Typed
<1>2. txn' \in [Workers -> Transaction] /\ txn'[w] = Idle
  BY <1>1, IdleType
<1>3. \A v \in Workers \ {w} : Untouched(v)
  BY <1>1 DEF Untouched
<1>4. finished'.time = txn[w].time /\ UNCHANGED <<now, overlapped>>
  BY DEF Commit
<1> QED
  BY <1>2, <1>3, <1>4 DEF Commit, IsCommitted, Ends

\* The rows a statement finds are rows of the table.
LEMMA FoundRows ==
  ASSUME NEW table, NEW w, NEW fid, NEW i \in VisibleTo(w, table, fid)
  PROVE  i \in DOMAIN table /\ table[i].fid = fid /\ table[i].by \in {"committed", w}
BY DEF VisibleTo, Versions

\* SELECT of the platform: nothing, several rows (500), or one.
LEMMA FindPlatformEffect ==
  ASSUME Typed, NEW w \in Workers, FindPlatform(w)
  PROVE  /\ txn[w].pc = "find platform"
         /\ \/ IsRolledBack(w)
            \/ /\ CurrentTo(w, platform, txn[w].request.platform) = {}
               /\ Reads(w, "any platform", txn[w].pid, txn[w].owner, txn[w].ending,
                        txn[w].targets, txn[w].accepted)
            \/ /\ txn[w].request.kind = "bulk"
               /\ \E i \in CurrentTo(w, platform, txn[w].request.platform) :
                    Reads(w, "existing", i, txn[w].owner, txn[w].ending,
                          txn[w].targets, txn[w].accepted)
            \/ Reads(w, "end platform", txn[w].pid, txn[w].owner, txn[w].ending,
                     txn[w].targets, txn[w].accepted)
<1> DEFINE found == CurrentTo(w, platform, txn[w].request.platform)
<1>1. txn[w].pc = "find platform" /\ Started(w)
  BY DEF FindPlatform, Started
<1>2. {"any platform", "existing", "end platform"} \subseteq Statements
  BY DEF Statements
<1>3. CASE Refuse(w, 500)
  BY <1>1, <1>3, RollBackEffect DEF Refuse
<1>4. CASE /\ found = {} /\ Continue(w, "any platform")
           /\ UNCHANGED <<platform, activity, now, finished, overlapped>>
  BY <1>1, <1>2, <1>4, GoesOnStatement DEF Continue, Reads
<1>5. ASSUME NEW i \in found, txn[w].request.kind = "bulk",
             txn' = [txn EXCEPT ![w].pc = "existing", ![w].pid = i],
             UNCHANGED <<platform, activity, now, finished, overlapped>>
      PROVE  Reads(w, "existing", i, txn[w].owner, txn[w].ending,
                   txn[w].targets, txn[w].accepted)
  <2>1. i \in Nat
    BY FoundRows DEF CurrentTo, Typed
  <2> QED
    BY <1>2, <1>5, <2>1, GoesOnPlatform DEF Reads
<1>6. CASE /\ Continue(w, "end platform")
           /\ UNCHANGED <<platform, activity, now, finished, overlapped>>
  BY <1>1, <1>2, <1>6, GoesOnStatement DEF Continue, Reads
<1> QED
  BY <1>1, <1>3, <1>4, <1>5, <1>6 DEF FindPlatform

\* INSERT of a platform version.
NewPlatform(w) ==
  [fid |-> txn[w].request.platform, name |-> txn[w].request.name,
   createdAt |-> txn[w].time, endedAt |-> NotEnded, by |-> w, endedBy |-> "nobody"]

InsertsPlatform(w) ==
  /\ Reporting(w)
  /\ platform' = Append(platform, NewPlatform(w))
  /\ UNCHANGED activity
  /\ GoesOn(w, AfterPlatform(txn[w].request), Len(platform) + 1, txn[w].owner,
            txn[w].ending, txn[w].targets, txn[w].accepted)

\* The statement after the platform is settled is one of the request's own.
LEMMA AfterPlatformType ==
  ASSUME Typed, NEW w \in Workers, Reporting(w)
  PROVE  /\ AfterPlatform(txn[w].request) \in StatementsOf(txn[w].request)
         /\ AfterPlatform(txn[w].request) \in {"find activity", "insert", "existing"}
         /\ txn[w].request.kind = "post" =>
              AfterPlatform(txn[w].request) \in {"find activity", "insert"}
         /\ txn[w].request.kind = "bulk" => AfterPlatform(txn[w].request) = "existing"
<1>1. CASE txn[w].request.kind = "bulk"
  BY <1>1 DEF AfterPlatform, StatementsOf
<1>2. CASE txn[w].request.kind = "post" /\ txn[w].request.ids[1] = NoId
  BY <1>2 DEF AfterPlatform, StatementsOf
<1>3. CASE txn[w].request.kind = "post" /\ txn[w].request.ids[1] # NoId
  BY <1>3 DEF AfterPlatform, StatementsOf
<1> QED
  BY <1>1, <1>2, <1>3 DEF Reporting

\* The INSERT, wherever it follows.
LEMMA InsertPlatformEffect ==
  ASSUME Typed, NEW w \in Workers, Reporting(w), InsertPlatform(w)
  PROVE  InsertsPlatform(w)
<1>1. AfterPlatform(txn[w].request) \in Statements
  BY AfterPlatformType DEF Statements
<1>2. Len(platform) + 1 \in Nat
  BY DEF Typed
<1> QED
  BY <1>1, <1>2, GoesOnPlatform DEF InsertPlatform, InsertsPlatform, NewPlatform

\* SELECT count(*): a platform that has ended is refused, a new one inserted.
LEMMA AnyPlatformEffect ==
  ASSUME Typed, NEW w \in Workers, AnyPlatform(w)
  PROVE  /\ txn[w].pc = "any platform"
         /\ \/ VisibleTo(w, platform, txn[w].request.platform) # {} /\ IsRolledBack(w)
            \/ VisibleTo(w, platform, txn[w].request.platform) = {} /\ InsertsPlatform(w)
<1>1. txn[w].pc = "any platform" /\ Started(w)
  BY DEF AnyPlatform, Started
<1>2. Reporting(w)
  <2>1. txn[w].request \in AllRequests /\ txn[w].pc \in StatementsOf(txn[w].request)
    BY <1>1 DEF Typed, RequestKept
  <2>2. txn[w].request.kind \in {"post", "bulk", "end platform", "end activity"}
    BY <2>1, RequestTypes
  <2> QED
    BY <1>1, <2>1, <2>2 DEF StatementsOf, Reporting
<1>3. CASE VisibleTo(w, platform, txn[w].request.platform) # {}
  <2>1. Refuse(w, 422)
    BY <1>3 DEF AnyPlatform
  <2>2. IsRolledBack(w)
    BY <1>1, <2>1, RollBackEffect DEF Refuse
  <2> QED
    BY <1>1, <1>3, <2>2
<1>4. CASE VisibleTo(w, platform, txn[w].request.platform) = {}
  <2>1. InsertPlatform(w)
    BY <1>4 DEF AnyPlatform
  <2>2. InsertsPlatform(w)
    BY <1>2, <2>1, InsertPlatformEffect
  <2> QED
    BY <1>1, <1>4, <2>2
<1> QED
  BY <1>3, <1>4

\* UPDATE platform starts.
LEMMA EndPlatformEffect ==
  ASSUME Typed, NEW w \in Workers, EndPlatform(w)
  PROVE  /\ txn[w].pc = "end platform"
         /\ Reads(w, "lock platform", txn[w].pid, txn[w].owner, txn[w].ending,
                  PlatformTargets(w), txn[w].accepted)
<1>1. PlatformTargets(w) \in SUBSET (Nat \ {0}) /\ "lock platform" \in Statements
  BY DEF Typed, PlatformTargets, CurrentTo, VisibleTo, Versions, Statements
<1> QED
  BY <1>1, GoesOnTargets DEF EndPlatform, Reads

\* UPDATE platform has reached row i.
LocksPlatform(w, i) ==
  /\ txn[w].pc = "lock platform"
  /\ Unlocked(platform[i], w)
  /\ platform' = [platform EXCEPT ![i] = EndedRow(@, w, txn[w].time)]
  /\ UNCHANGED activity
  /\ GoesOn(w, "lock platform", txn[w].pid, txn[w].owner, txn[w].ending,
            txn[w].targets \ {i}, txn[w].accepted)

\* UPDATE platform goes on, and what follows it.
LEMMA LockPlatformEffect ==
  ASSUME Typed, NEW w \in Workers, LockPlatform(w)
  PROVE  /\ txn[w].pc = "lock platform"
         /\ \/ \E i \in txn[w].targets : LocksPlatform(w, i)
            \/ /\ txn[w].targets = {} /\ txn[w].request.kind = "end platform"
               /\ Reads(w, "answered", txn[w].pid, txn[w].owner, txn[w].ending,
                        txn[w].targets, txn[w].accepted)
            \/ txn[w].targets = {} /\ InsertsPlatform(w)
<1>1. txn[w].pc = "lock platform" /\ Started(w)
  BY DEF LockPlatform, Started
<1>2. txn[w].request.kind # "end platform" => Reporting(w)
  <2>1. txn[w].request \in AllRequests /\ txn[w].pc \in StatementsOf(txn[w].request)
    BY <1>1 DEF Typed, RequestKept
  <2>2. txn[w].request.kind \in {"post", "bulk", "end platform", "end activity"}
    BY <2>1, RequestTypes
  <2> QED
    BY <1>1, <2>1, <2>2 DEF StatementsOf, Reporting
<1>3. txn[w].targets \in SUBSET (Nat \ {0}) /\ "answered" \in Statements
  BY WorkerTypes DEF Statements
<1>4. ASSUME NEW i \in txn[w].targets, Unlocked(platform[i], w),
             platform' = [platform EXCEPT ![i] = EndedRow(@, w, txn[w].time)],
             txn' = [txn EXCEPT ![w].targets = @ \ {i}],
             UNCHANGED <<activity, now, finished, overlapped>>
      PROVE  LocksPlatform(w, i)
  <2> DEFINE left == txn[w].targets \ {i}
  <2>1. left \in SUBSET (Nat \ {0})
    BY <1>3
  <2>2. txn' = [txn EXCEPT ![w].targets = left]
    BY <1>4
  <2> HIDE DEF left
  <2>3. GoesOn(w, txn[w].pc, txn[w].pid, txn[w].owner, txn[w].ending, left, txn[w].accepted)
    BY <1>4, <2>1, <2>2, GoesOnLock
  <2> QED
    BY <1>1, <1>4, <2>3 DEF left, LocksPlatform
<1>5. CASE /\ txn[w].targets = {} /\ txn[w].request.kind = "end platform"
           /\ Continue(w, "answered")
           /\ UNCHANGED <<platform, activity, now, finished, overlapped>>
  BY <1>1, <1>3, <1>5, GoesOnStatement DEF Continue, Reads
<1>6. CASE txn[w].targets = {} /\ txn[w].request.kind # "end platform" /\ InsertPlatform(w)
  BY <1>1, <1>2, <1>6, InsertPlatformEffect
<1> QED
  BY <1>1, <1>4, <1>5, <1>6 DEF LockPlatform

\* SELECT of the activity by its id: nothing, several rows (500), or one.
LEMMA FindActivityEffect ==
  ASSUME Typed, NEW w \in Workers, FindActivity(w)
  PROVE  /\ txn[w].pc = "find activity"
         /\ txn[w].request.kind = "post" /\ txn[w].request.ids[1] \in ActivityIds
         /\ \/ IsRolledBack(w)
            \/ Reads(w, "any activity", txn[w].pid, txn[w].owner, txn[w].ending,
                     txn[w].targets, txn[w].accepted)
            \/ \E owner \in Nat :
                 Reads(w, "end activity", txn[w].pid, owner, {txn[w].request.ids[1]},
                       txn[w].targets, txn[w].accepted)
<1> DEFINE x == txn[w].request.ids[1]
           found == CurrentTo(w, activity, x)
<1>1. txn[w].pc = "find activity" /\ Started(w)
  BY DEF FindActivity, Started
<1>2. txn[w].request.kind = "post" /\ x \in ActivityIds
  <2>1. txn[w].request \in AllRequests /\ txn[w].pc \in StatementsOf(txn[w].request)
    BY <1>1 DEF Typed, RequestKept
  <2>2. txn[w].request.kind \in {"post", "bulk", "end platform", "end activity"}
    BY <2>1, RequestTypes
  <2>3. txn[w].request.kind = "post" /\ x # NoId
    BY <1>1, <2>1, <2>2 DEF StatementsOf, OnPlatform
  <2>4. PICK y \in ActivityIds \cup {NoId} : txn[w].request.ids = <<y>>
    BY <2>1, <2>3, RequestTypes
  <2> QED
    BY <2>3, <2>4
<1>3. {"any activity", "end activity"} \subseteq Statements
  BY DEF Statements
<1>4. CASE Refuse(w, 500)
  <2>1. IsRolledBack(w)
    BY <1>1, <1>4, RollBackEffect DEF Refuse
  <2> QED
    BY <1>1, <1>2, <2>1
<1>5. CASE /\ Continue(w, "any activity")
           /\ UNCHANGED <<platform, activity, now, finished, overlapped>>
  BY <1>1, <1>2, <1>3, <1>5, GoesOnStatement DEF Continue, Reads
<1>6. ASSUME NEW i \in found,
             txn' = [txn EXCEPT ![w].pc = "end activity", ![w].ending = {x},
                                ![w].owner = activity[i].platform],
             UNCHANGED <<platform, activity, now, finished, overlapped>>
      PROVE  \E owner \in Nat :
               Reads(w, "end activity", txn[w].pid, owner, {txn[w].request.ids[1]},
                     txn[w].targets, txn[w].accepted)
  <2>1. i \in DOMAIN activity
    BY DEF CurrentTo, VisibleTo, Versions
  <2>2. activity[i] \in ActivityRow
    BY <2>1 DEF Typed
  <2>3. activity[i].platform \in Nat
    BY <2>2 DEF ActivityRow
  <2>4. {x} \in SUBSET ActivityIds
    BY <1>2
  <2>5. Reads(w, "end activity", txn[w].pid, activity[i].platform, {x},
              txn[w].targets, txn[w].accepted)
    BY <1>3, <1>6, <2>3, <2>4, GoesOnEnding DEF Reads
  <2> QED
    BY <2>3, <2>5
<1> QED
  BY <1>1, <1>2, <1>4, <1>5, <1>6 DEF FindActivity

\* SELECT count(*): an activity that has ended is refused.
LEMMA AnyActivityEffect ==
  ASSUME Typed, NEW w \in Workers, AnyActivity(w)
  PROVE  /\ txn[w].pc = "any activity"
         /\ \/ IsRolledBack(w)
            \/ Reads(w, "insert", txn[w].pid, txn[w].owner, txn[w].ending,
                     txn[w].targets, txn[w].accepted)
<1>1. txn[w].pc = "any activity" /\ Started(w) /\ "insert" \in Statements
  BY DEF AnyActivity, Started, Statements
<1>2. CASE Refuse(w, 422)
  <2>1. IsRolledBack(w)
    BY <1>1, <1>2, RollBackEffect DEF Refuse
  <2> QED
    BY <1>1, <2>1
<1>3. CASE /\ Continue(w, "insert")
           /\ UNCHANGED <<platform, activity, now, finished, overlapped>>
  BY <1>1, <1>3, GoesOnStatement DEF Continue, Reads
<1> QED
  BY <1>2, <1>3 DEF AnyActivity

\* SELECT of the ids of a batch that have been reported before.
LEMMA FindExistingEffect ==
  ASSUME Typed, NEW w \in Workers, FindExisting(w)
  PROVE  /\ txn[w].pc = "existing"
         /\ Reads(w, "deactivated", txn[w].pid, txn[w].owner, txn[w].ending,
                  txn[w].targets, txn[w].accepted)
<1> DEFINE existing == {x \in Range(txn[w].request.ids) : VisibleTo(w, activity, x) # {}}
<1>1. txn[w].pc = "existing" /\ Started(w) /\ "deactivated" \in Statements
  BY DEF FindExisting, Started, Statements
<1>2. existing \in SUBSET ActivityIds
  <2>1. txn[w].request \in AllRequests /\ txn[w].pc \in StatementsOf(txn[w].request)
    BY <1>1 DEF Typed, RequestKept
  <2>2. txn[w].request.kind \in {"post", "bulk", "end platform", "end activity"}
    BY <2>1, RequestTypes
  <2>3. txn[w].request.kind = "bulk"
    BY <1>1, <2>1, <2>2 DEF StatementsOf, OnPlatform
  <2>4. txn[w].request.ids \in Seq(ActivityIds)
    BY <2>1, <2>3, RequestTypes
  <2>5. Range(txn[w].request.ids) \subseteq ActivityIds
    BY <2>4 DEF Range
  <2> QED
    BY <2>5
<1>3. /\ txn' = [txn EXCEPT ![w].pc = "deactivated", ![w].existing = existing]
      /\ UNCHANGED <<platform, activity, now, finished, overlapped>>
  BY DEF FindExisting
<1> HIDE DEF existing
<1>4. Reads(w, "deactivated", txn[w].pid, txn[w].owner, txn[w].ending,
            txn[w].targets, txn[w].accepted)
  BY <1>1, <1>2, <1>3, GoesOnExisting DEF Reads
<1> QED
  BY <1>1, <1>4

\* SELECT of those that have a current row: the others of them are deactivated,
\* and what remains is accepted, in its order.
LEMMA FindDeactivatedEffect ==
  ASSUME Typed, NEW w \in Workers, FindDeactivated(w)
  PROVE  /\ txn[w].pc = "deactivated"
         /\ \E accepted \in Seq(ActivityIds) :
              /\ \A m, n \in DOMAIN accepted : accepted[m] = accepted[n] => m = n
              /\ Reads(w, "current", txn[w].pid, txn[w].owner, txn[w].ending,
                       txn[w].targets, accepted)
<1> DEFINE ids == txn[w].request.ids
           Gone(x) == x \in txn[w].existing /\ CurrentTo(w, activity, x) = {}
           kept == {n \in DOMAIN ids : ~Gone(ids[n])}
<1>1. txn[w].pc = "deactivated" /\ Started(w) /\ "current" \in Statements
  BY DEF FindDeactivated, Started, Statements
<1>2. ids \in Seq(ActivityIds) /\ \A i, j \in DOMAIN ids : ids[i] = ids[j] => i = j
  <2>1. txn[w].request \in AllRequests /\ txn[w].pc \in StatementsOf(txn[w].request)
    BY <1>1 DEF Typed, RequestKept
  <2>2. txn[w].request.kind \in {"post", "bulk", "end platform", "end activity"}
    BY <2>1, RequestTypes
  <2>3. txn[w].request.kind = "bulk"
    BY <1>1, <2>1, <2>2 DEF StatementsOf, OnPlatform
  <2> QED
    BY <2>1, <2>3, RequestTypes
<1>3. PICK order \in InOrder(kept) :
        /\ txn' = [txn EXCEPT ![w].pc = "current", ![w].existing = {},
                              ![w].accepted = [n \in DOMAIN order |-> ids[order[n]]]]
        /\ UNCHANGED <<platform, activity, now, finished, overlapped>>
  BY DEF FindDeactivated
<1> DEFINE accepted == [n \in DOMAIN order |-> ids[order[n]]]
<1>4. /\ DOMAIN order = 1..Cardinality(kept)
      /\ \A n \in DOMAIN order : order[n] \in DOMAIN ids
      /\ \A m, n \in DOMAIN order : m < n => order[m] < order[n]
  BY DEF InOrder
<1>5. Cardinality(kept) \in Nat
  <2>1. DOMAIN ids = 1..Len(ids) /\ Len(ids) \in Nat
    BY <1>2
  <2>2. IsFiniteSet(1..Len(ids))
    <3>1. 1 \in Int /\ Len(ids) \in Int
      BY <2>1
    <3> HIDE DEF ids
    <3> QED
      BY <3>1, FS_Interval
  <2>3. kept \subseteq 1..Len(ids)
    BY <2>1
  <2>4. IsFiniteSet(kept)
    BY <2>2, <2>3, FS_Subset
  <2> QED
    BY <2>4, FS_CardinalityType
<1>6. \A n \in DOMAIN order : ids[order[n]] \in ActivityIds
  <2>1. \A k \in DOMAIN ids : ids[k] \in ActivityIds
    BY <1>2
  <2> HIDE DEF ids
  <2> QED
    BY <1>4, <2>1
<1> HIDE DEF kept
<1>7. accepted \in Seq(ActivityIds) /\ DOMAIN accepted = DOMAIN order
  BY <1>4, <1>5, <1>6
<1>8. \A m, n \in DOMAIN accepted : accepted[m] = accepted[n] => m = n
  <2> SUFFICES ASSUME NEW m \in DOMAIN order, NEW n \in DOMAIN order,
                      accepted[m] = accepted[n], m # n
               PROVE  FALSE
    BY <1>7
  <2>1. order[m] = order[n]
    BY <1>2, <1>4
  <2>2. m \in Nat /\ n \in Nat /\ order[m] \in Nat
    BY <1>2, <1>4, <1>5
  <2> QED
    BY <1>4, <2>1, <2>2
<1>9. accepted \in Seq(ActivityIds \cup 1..MaxTime)
  BY <1>7
<1> HIDE DEF accepted
<1>10. txn' = [txn EXCEPT ![w].pc = "current", ![w].existing = {}, ![w].accepted = accepted]
  BY <1>3 DEF accepted
<1>11. Reads(w, "current", txn[w].pid, txn[w].owner, txn[w].ending, txn[w].targets, accepted)
  BY <1>1, <1>3, <1>9, <1>10, GoesOnAccepted DEF Reads
<1> QED
  BY <1>1, <1>7, <1>8, <1>11

\* SELECT of the rows to end under the platform version.
EndingUnder(w) ==
  {x \in Range(txn[w].accepted) :
     \E i \in CurrentTo(w, activity, x) : activity[i].platform = txn[w].pid}

\* SELECT of the current rows of a batch: the UPDATE is left out if nothing
\* has to end.
LEMMA FindCurrentEffect ==
  ASSUME Typed, NEW w \in Workers, FindCurrent(w)
  PROVE  /\ txn[w].pc = "current" /\ txn[w].request.kind = "bulk"
         /\ EndingUnder(w) \subseteq ActivityIds
         /\ Reads(w, IF EndingUnder(w) = {} THEN "insert" ELSE "end activity", txn[w].pid,
                  txn[w].pid, EndingUnder(w), txn[w].targets, txn[w].accepted)
<1> DEFINE ending == EndingUnder(w)
           pc == IF ending = {} THEN "insert" ELSE "end activity"
<1>1. txn[w].pc = "current" /\ Started(w) /\ pc \in Statements
  BY DEF FindCurrent, Started, Statements
<1>2. txn[w].request.kind = "bulk"
  <2>1. txn[w].request \in AllRequests /\ txn[w].pc \in StatementsOf(txn[w].request)
    BY <1>1 DEF Typed, RequestKept
  <2>2. txn[w].request.kind \in {"post", "bulk", "end platform", "end activity"}
    BY <2>1, RequestTypes
  <2> QED
    BY <1>1, <2>1, <2>2 DEF StatementsOf, OnPlatform
<1>3. ending \in SUBSET ActivityIds
  <2>1. txn[w].accepted \in Seq(ActivityIds)
    BY <1>1, <1>2 DEF Typed, RequestKept
  <2>2. Range(txn[w].accepted) \subseteq ActivityIds
    BY <2>1 DEF Range
  <2> QED
    BY <2>2 DEF EndingUnder
<1>4. /\ txn' = [txn EXCEPT ![w].pc = pc, ![w].ending = ending, ![w].owner = txn[w].pid]
      /\ UNCHANGED <<platform, activity, now, finished, overlapped>>
  BY DEF FindCurrent, EndingUnder
<1>5. txn[w].pid \in Nat
  BY WorkerTypes
<1> HIDE DEF ending, pc
<1>6. Reads(w, pc, txn[w].pid, txn[w].pid, ending, txn[w].targets, txn[w].accepted)
  BY <1>1, <1>3, <1>4, <1>5, GoesOnEnding DEF Reads
<1> QED
  BY <1>1, <1>2, <1>3, <1>6 DEF ending, pc

\* UPDATE activity starts.
LEMMA EndActivityEffect ==
  ASSUME Typed, NEW w \in Workers, EndActivity(w)
  PROVE  /\ txn[w].pc = "end activity"
         /\ Reads(w, "lock activity", txn[w].pid, txn[w].owner, txn[w].ending,
                  ActivityTargets(w), txn[w].accepted)
<1>1. ActivityTargets(w) \in SUBSET (Nat \ {0}) /\ "lock activity" \in Statements
  BY DEF Typed, ActivityTargets, CurrentTo, VisibleTo, Versions, Statements
<1> QED
  BY <1>1, GoesOnTargets DEF EndActivity, Reads

\* UPDATE activity has reached row i.
LocksActivity(w, i) ==
  /\ txn[w].pc = "lock activity"
  /\ Unlocked(activity[i], w)
  /\ activity' = [activity EXCEPT ![i] = EndedRow(@, w, txn[w].time)]
  /\ UNCHANGED platform
  /\ GoesOn(w, "lock activity", txn[w].pid, txn[w].owner, txn[w].ending,
            txn[w].targets \ {i}, txn[w].accepted)

\* UPDATE activity goes on, and what follows it.
LEMMA LockActivityEffect ==
  ASSUME Typed, NEW w \in Workers, LockActivity(w)
  PROVE  /\ txn[w].pc = "lock activity"
         /\ \/ \E i \in txn[w].targets : LocksActivity(w, i)
            \/ /\ txn[w].targets = {}
               /\ Reads(w, IF txn[w].request.kind = "end activity" THEN "answered" ELSE "insert",
                        txn[w].pid, txn[w].owner, txn[w].ending, txn[w].targets, txn[w].accepted)
<1>1. txn[w].pc = "lock activity" /\ {"answered", "insert"} \subseteq Statements
  BY DEF LockActivity, Statements
<1>2. txn[w].targets \in SUBSET (Nat \ {0})
  BY WorkerTypes
<1>3. UNCHANGED <<platform, now, finished, overlapped>>
  BY DEF LockActivity
<1>4. ASSUME NEW i \in txn[w].targets, Unlocked(activity[i], w),
             activity' = [activity EXCEPT ![i] = EndedRow(@, w, txn[w].time)],
             txn' = [txn EXCEPT ![w].targets = @ \ {i}]
      PROVE  LocksActivity(w, i)
  <2> DEFINE left == txn[w].targets \ {i}
  <2>1. left \in SUBSET (Nat \ {0})
    BY <1>2
  <2>2. txn' = [txn EXCEPT ![w].targets = left]
    BY <1>4
  <2> HIDE DEF left
  <2>3. GoesOn(w, txn[w].pc, txn[w].pid, txn[w].owner, txn[w].ending, left, txn[w].accepted)
    BY <1>3, <2>1, <2>2, GoesOnLock
  <2> QED
    BY <1>1, <1>3, <1>4, <2>3 DEF left, LocksActivity
<1>5. CASE /\ txn[w].targets = {}
           /\ Continue(w, IF txn[w].request.kind = "end activity" THEN "answered" ELSE "insert")
           /\ UNCHANGED activity
  <2> DEFINE pc == IF txn[w].request.kind = "end activity" THEN "answered" ELSE "insert"
  <2>1. pc \in Statements /\ txn' = [txn EXCEPT ![w].pc = pc]
    BY <1>1, <1>5 DEF Continue
  <2> HIDE DEF pc
  <2>2. Reads(w, pc, txn[w].pid, txn[w].owner, txn[w].ending, txn[w].targets, txn[w].accepted)
    BY <1>3, <1>5, <2>1, GoesOnStatement DEF Reads
  <2> QED
    BY <1>1, <1>5, <2>2 DEF pc
<1> QED
  BY <1>1, <1>3, <1>4, <1>5 DEF LockActivity

\* The INSERT of the activities.
Inserts(w, rows) ==
  /\ \A n \in DOMAIN rows :
        /\ rows[n].fid = InsertedIds(w)[n] /\ rows[n].platform = txn[w].pid
        /\ rows[n].createdAt = txn[w].time /\ rows[n].endedAt = NotEnded
        /\ rows[n].by = w /\ rows[n].endedBy = "nobody"
  /\ activity' = activity \o rows

\* The INSERT stores the ids of the request, and the worker answers.
LEMMA InsertAndAnswerEffect ==
  ASSUME Typed, NEW w \in Workers, InsertAndAnswer(w)
  PROVE  /\ txn[w].pc = "insert" /\ Reporting(w)
         /\ InsertedIds(w) \in Seq(ActivityIds \cup 1..MaxTime)
         /\ \E rows \in Seq(ActivityRow) :
              Inserts(w, rows) /\ DOMAIN rows = DOMAIN InsertedIds(w)
         /\ UNCHANGED platform
         /\ GoesOn(w, "answered", txn[w].pid, txn[w].owner, txn[w].ending,
                   txn[w].targets, InsertedIds(w))
<1> DEFINE ids == InsertedIds(w)
           row(n) == [fid |-> ids[n], platform |-> txn[w].pid, createdAt |-> txn[w].time,
                      endedAt |-> NotEnded, by |-> w, endedBy |-> "nobody"]
           rows == [n \in DOMAIN ids |-> row(n)]
           status == IF Len(ids) = Len(txn[w].request.ids) THEN 201
                     ELSE IF ids # <<>> THEN 200 ELSE 422
<1>1. txn[w].pc = "insert" /\ Started(w) /\ "answered" \in Statements
  BY DEF InsertAndAnswer, Started, Statements
<1>2. txn[w].request \in AllRequests /\ txn[w].pc \in StatementsOf(txn[w].request)
  BY <1>1 DEF Typed, RequestKept
<1>3. txn[w].request.kind \in {"post", "bulk"}
  <2>1. txn[w].request.kind \in {"post", "bulk", "end platform", "end activity"}
    BY <1>2, RequestTypes
  <2> QED
    BY <1>1, <1>2, <2>1 DEF StatementsOf
<1>4. txn[w].pid \in DOMAIN platform /\ platform \in Seq(PlatformRow)
  BY <1>1, <1>3 DEF Typed, RequestKept, Reporting, WithPlatform
<1>5. txn[w].pid \in Nat \ {0}
  BY <1>4
<1>6. txn[w].time \in 1..MaxTime
  BY <1>1, WorkerTypes
<1>7. ids \in Seq(ActivityIds \cup 1..MaxTime)
  <2>1. CASE txn[w].request.kind = "bulk"
    <3>1. ids = txn[w].accepted
      BY <2>1 DEF InsertedIds
    <3>2. txn[w].accepted \in Seq(ActivityIds \cup 1..MaxTime)
      BY WorkerTypes
    <3> HIDE DEF ids
    <3> QED
      BY <3>1, <3>2
  <2>2. CASE txn[w].request.kind = "post"
    <3>1. PICK x \in ActivityIds \cup {NoId} : txn[w].request.ids = <<x>>
      BY <1>2, <2>2, RequestTypes
    <3>2. CASE x = NoId
      BY <1>6, <2>2, <3>1, <3>2 DEF InsertedIds
    <3>3. CASE x # NoId
      BY <2>2, <3>1, <3>3 DEF InsertedIds
    <3> QED
      BY <3>2, <3>3
  <2> QED
    BY <1>3, <2>1, <2>2
<1>8. status \in Statuses
  BY DEF Statuses
<1>9. /\ txn' = [txn EXCEPT ![w].pc = "answered", ![w].accepted = ids, ![w].status = status]
      /\ activity' = activity \o rows
      /\ UNCHANGED <<platform, now, finished, overlapped>>
  BY DEF InsertAndAnswer
<1>10. \A n \in DOMAIN ids : ids[n] \in ActivityIds \cup 1..MaxTime
  <2> HIDE DEF ids
  <2> QED
    BY <1>7
<1>11. Len(ids) \in Nat /\ DOMAIN ids = 1..Len(ids)
  <2> HIDE DEF ids
  <2> QED
    BY <1>7
<1> HIDE DEF ids, status
<1>12. \A n \in DOMAIN ids : row(n) \in ActivityRow
  BY <1>5, <1>6, <1>10, TransactionConstantsAssumption DEF ActivityRow, Writers, NotEnded
<1>13. /\ DOMAIN rows = DOMAIN ids
       /\ \A n \in DOMAIN rows : rows[n] = row(n)
  OBVIOUS
<1>14. rows \in Seq(ActivityRow)
  <2> HIDE DEF row
  <2> QED
    BY <1>11, <1>12
<1>15. Inserts(w, rows)
  BY <1>9, <1>13 DEF Inserts, ids
<1>16. GoesOn(w, "answered", txn[w].pid, txn[w].owner, txn[w].ending, txn[w].targets, ids)
  <2> DEFINE pc == "answered"
  <2>1. pc \in Statements /\ UNCHANGED <<now, finished, overlapped>>
    BY <1>1, <1>9
  <2>2. txn' = [txn EXCEPT ![w].pc = pc, ![w].accepted = ids, ![w].status = status]
    BY <1>9
  <2> HIDE DEF rows, pc, row
  <2>3. GoesOn(w, pc, txn[w].pid, txn[w].owner, txn[w].ending, txn[w].targets, ids)
    BY <1>7, <1>8, <2>1, <2>2, GoesOnAnswer
  <2> QED
    BY <2>3 DEF pc
<1> HIDE DEF rows
<1>17. \E r \in Seq(ActivityRow) : Inserts(w, r) /\ DOMAIN r = DOMAIN ids
  BY <1>13, <1>14, <1>15
<1> QED
  BY <1>1, <1>3, <1>7, <1>9, <1>16, <1>17 DEF Reporting, ids

-----------------------------------------------------------------------------
(***************************************************************************)
(* Types are kept                                                          *)
(***************************************************************************)

\* A step of the system, with the worker that takes it.
StepBy(w) ==
  \/ \E p \in Platforms : \E request \in Requests(p) : Start(w, request)
  \/ Step(w)
  \/ Crash(w)

\* Each statement, and what may follow it.
LEMMA NextStatement ==
  ASSUME Typed, NEW w \in Workers, Started(w)
  PROVE  LET r == txn[w].request
             own == StatementsOf(r)
         IN  /\ txn[w].pc = "find platform" =>
                  /\ Reporting(w) /\ {"any platform", "end platform"} \subseteq own
                  /\ (r.kind = "bulk" => "existing" \in own)
             /\ txn[w].pc = "any platform" => Reporting(w)
             /\ txn[w].pc = "end platform" =>
                  "lock platform" \in own /\ r.kind \in {"post", "bulk", "end platform"}
             /\ txn[w].pc = "lock platform" =>
                  "answered" \in own /\ r.kind \in {"post", "bulk", "end platform"}
             /\ txn[w].pc = "find activity" =>
                  r.kind = "post" /\ {"any activity", "end activity"} \subseteq own
             /\ txn[w].pc = "any activity" => r.kind = "post" /\ "insert" \in own
             /\ txn[w].pc = "existing" => r.kind = "bulk" /\ "deactivated" \in own
             /\ txn[w].pc = "deactivated" => r.kind = "bulk" /\ "current" \in own
             /\ txn[w].pc = "current" => r.kind = "bulk" /\ {"end activity", "insert"} \subseteq own
             /\ txn[w].pc = "end activity" =>
                  "lock activity" \in own /\ r.kind \in {"post", "bulk", "end activity"}
             /\ txn[w].pc = "lock activity" =>
                  /\ "answered" \in own /\ r.kind \in {"post", "bulk", "end activity"}
                  /\ (r.kind # "end activity" => "insert" \in own)
             /\ txn[w].pc = "insert" => Reporting(w) /\ "answered" \in own
             /\ Reporting(w) <=> r.kind \in {"post", "bulk"}
<1> DEFINE r == txn[w].request
<1>1. txn[w].pc \in StatementsOf(r) /\ r.kind \in {"post", "bulk", "end platform", "end activity"}
  BY RequestTypes, WorkerTypes
<1>2. CASE r.kind = "end platform"
  BY <1>1, <1>2 DEF StatementsOf, Reporting
<1>3. CASE r.kind = "end activity"
  BY <1>1, <1>3 DEF StatementsOf, Reporting
<1>4. CASE r.kind = "bulk"
  BY <1>1, <1>4 DEF StatementsOf, OnPlatform, Reporting
<1>5. CASE r.kind = "post"
  BY <1>1, <1>5 DEF StatementsOf, OnPlatform, Reporting
<1> QED
  BY <1>1, <1>2, <1>3, <1>4, <1>5

\* What a step does not concern.
Frame(w) ==
  /\ txn' \in [Workers -> Transaction]
  /\ \A v \in Workers \ {w} : Untouched(v)
  /\ now \in Nat /\ now' \in 0..MaxTime /\ now <= now'
  /\ finished'.time \in 0..MaxTime
  /\ overlapped \subseteq overlapped' /\ overlapped' \subseteq Platforms

\* A statement leaves the clock and the other workers alone.
LEMMA FrameOfStatement ==
  ASSUME Typed, NEW w \in Workers, NEW pc, NEW pid, NEW owner, NEW ending, NEW targets,
         NEW accepted, GoesOn(w, pc, pid, owner, ending, targets, accepted)
  PROVE  Frame(w)
BY WorkerTypes DEF GoesOn, Frame, Typed

\* So does the end of a transaction.
LEMMA FrameOfEnd ==
  ASSUME Typed, NEW w \in Workers, Ends(w)
  PROVE  Frame(w)
BY WorkerTypes DEF Ends, Frame, Typed

\* A request that is taken up moves the clock on.
LEMMA FrameOfStart ==
  ASSUME Typed, NEW w \in Workers, NEW p \in Platforms, NEW request \in Requests(p),
         Start(w, request)
  PROVE  Frame(w)
<1>1. now \in Nat /\ MaxTime \in Nat /\ now < MaxTime /\ now' = now + 1
  BY StartEffect, WorkerTypes
<1> DEFINE t == now'
<1>2. t = now + 1
  BY <1>1
<1> HIDE DEF t
<1>3. t \in 0..MaxTime /\ now <= t
  BY <1>1, <1>2
<1>4. overlapped \subseteq overlapped' /\ overlapped' \subseteq overlapped \cup {p}
  BY StartEffect
<1>5. finished'.time \in 0..MaxTime /\ overlapped \subseteq Platforms
  BY StartEffect DEF Typed
<1>6. txn' \in [Workers -> Transaction] /\ \A v \in Workers \ {w} : Untouched(v)
  BY StartEffect
<1> QED
  BY <1>1, <1>3, <1>4, <1>5, <1>6 DEF Frame, t

-----------------------------------------------------------------------------
\* The tables after a step of w.
Tables(w) ==
  /\ \/ /\ TableStatement(PlatformRow, platform, platform', w, txn[w].time)
        /\ TableStatement(ActivityRow, activity, activity', w, txn[w].time)
     \/ Commit(w) /\ IsCommitted(w)
  /\ \A i \in DOMAIN activity : activity'[i].platform = activity[i].platform

\* The rows of an INSERT into platform.
LEMMA NewPlatformType ==
  ASSUME Typed, NEW w \in Workers, Reporting(w)
  PROVE  /\ NewPlatform(w) \in PlatformRow
         /\ NewPlatform(w).by = w /\ NewPlatform(w).endedBy = "nobody"
         /\ NewPlatform(w).endedAt = NotEnded /\ NewPlatform(w).createdAt = txn[w].time
         /\ NewPlatform(w).fid = txn[w].request.platform
<1>1. txn[w].request \in AllRequests /\ txn[w].time \in 1..MaxTime
  BY WorkerTypes DEF Reporting
<1>2. txn[w].request.platform \in Platforms /\ txn[w].request.name \in Names
  BY <1>1, RequestTypes DEF Reporting
<1>3. 0 \in 0..MaxTime
  BY TransactionConstantsAssumption
<1> QED
  BY <1>1, <1>2, <1>3 DEF NewPlatform, PlatformRow, Writers, NotEnded

\* The INSERT into platform adds one row.
LEMMA TablesOfInsertPlatform ==
  ASSUME Typed, NEW w \in Workers, InsertsPlatform(w)
  PROVE  Tables(w) /\ Frame(w)
<1> DEFINE rows == <<NewPlatform(w)>>
<1>1. Reporting(w) /\ platform' = Append(platform, NewPlatform(w)) /\ UNCHANGED activity
  BY DEF InsertsPlatform
<1>2. NewPlatform(w) \in PlatformRow
  BY <1>1, NewPlatformType
<1>3. rows \in Seq(PlatformRow) /\ DOMAIN rows = {1} /\ rows[1] = NewPlatform(w)
  BY <1>2
<1>4. platform' = platform \o rows
  BY <1>1, <1>2 DEF Typed
<1> HIDE DEF rows
<1>5. \A n \in DOMAIN rows : /\ rows[n].by = w /\ rows[n].endedBy = "nobody"
                             /\ rows[n].endedAt = NotEnded /\ rows[n].createdAt = txn[w].time
  BY <1>1, <1>3, NewPlatformType
<1>6. TableStatement(PlatformRow, platform, platform', w, txn[w].time)
  BY <1>3, <1>4, <1>5 DEF TableStatement
<1>7. Frame(w)
  BY FrameOfStatement DEF InsertsPlatform
<1> QED
  BY <1>1, <1>6, <1>7 DEF Tables, TableStatement

\* A SELECT leaves both tables as they are.
LEMMA TablesOfRead ==
  ASSUME Typed, NEW w \in Workers, NEW pc, NEW pid, NEW owner, NEW ending, NEW targets,
         NEW accepted, Reads(w, pc, pid, owner, ending, targets, accepted)
  PROVE  Tables(w) /\ Frame(w)
BY FrameOfStatement DEF Reads, Tables, TableStatement

\* A rollback marks rows of both tables.
LEMMA TablesOfRollBack ==
  ASSUME Typed, NEW w \in Workers, IsRolledBack(w)
  PROVE  Tables(w) /\ Frame(w)
<1>1. /\ platform' = AllRolledBack(platform, w) /\ activity' = AllRolledBack(activity, w)
      /\ txn[w].time \in Timestamps /\ Frame(w)
  BY FrameOfEnd, WorkerTypes DEF IsRolledBack
<1>2. ASSUME NEW i \in DOMAIN activity
      PROVE  activity'[i].platform = activity[i].platform
  <2>1. activity'[i] = RolledBackRow(activity[i], w) /\ activity[i] \in ActivityRow
    BY <1>1 DEF AllRolledBack, Typed
  <2> QED
    BY <1>1, <2>1, MarksKeepVersion
<1> QED
  BY <1>1, <1>2 DEF Tables, TableStatement

\* A commit is the one step that others can see.
LEMMA TablesOfCommit ==
  ASSUME Typed, NEW w \in Workers, Commit(w)
  PROVE  Tables(w) /\ Frame(w)
<1>1. IsCommitted(w)
  BY CommitEffect
<1>2. /\ platform' = AllCommitted(platform, w, txn[w].time)
      /\ activity' = AllCommitted(activity, w, txn[w].time)
      /\ txn[w].time \in Timestamps /\ Frame(w)
  BY <1>1, FrameOfEnd, WorkerTypes DEF IsCommitted, Started
<1>3. ASSUME NEW i \in DOMAIN activity
      PROVE  activity'[i].platform = activity[i].platform
  <2>1. activity'[i] = CommittedRow(activity[i], w, txn[w].time) /\ activity[i] \in ActivityRow
    BY <1>2 DEF AllCommitted, Typed
  <2> QED
    BY <1>2, <2>1, MarksKeepVersion
<1> QED
  BY <1>1, <1>2, <1>3 DEF Tables

\* UPDATE platform locks a row, or hands over to the INSERT.
LEMMA TablesOfLockPlatform ==
  ASSUME Typed, NEW w \in Workers, LockPlatform(w)
  PROVE  Tables(w) /\ Frame(w)
<1>1. CASE \E i \in txn[w].targets : LocksPlatform(w, i)
  <2>1. PICK i \in txn[w].targets : LocksPlatform(w, i)
    BY <1>1
  <2>2. i \in DOMAIN platform
    BY LockPlatformEffect DEF Typed, RequestKept
  <2> QED
    BY <2>1, <2>2, FrameOfStatement DEF LocksPlatform, Tables, TableStatement
<1>2. CASE Reads(w, "answered", txn[w].pid, txn[w].owner, txn[w].ending,
                 txn[w].targets, txn[w].accepted)
  BY <1>2, TablesOfRead
<1>3. CASE InsertsPlatform(w)
  BY <1>3, TablesOfInsertPlatform
<1> QED
  BY <1>1, <1>2, <1>3, LockPlatformEffect

\* UPDATE activity locks a row, or is done.
LEMMA TablesOfLockActivity ==
  ASSUME Typed, NEW w \in Workers, LockActivity(w)
  PROVE  Tables(w) /\ Frame(w)
<1>1. CASE \E i \in txn[w].targets : LocksActivity(w, i)
  <2>1. PICK i \in txn[w].targets : LocksActivity(w, i)
    BY <1>1
  <2>2. i \in DOMAIN activity /\ Started(w)
    BY LockActivityEffect DEF Typed, RequestKept, Started
  <2>3. txn[w].time \in Timestamps
    BY <2>2, WorkerTypes
  <2>4. ASSUME NEW j \in DOMAIN activity
        PROVE  activity'[j].platform = activity[j].platform
    <3>1. activity[j] \in ActivityRow /\ EndedRow(activity[j], w, txn[w].time).platform = activity[j].platform
      BY <2>3, MarksKeepVersion DEF Typed
    <3> QED
      BY <2>1, <2>2, <3>1 DEF Typed, LocksActivity
  <2> QED
    BY <2>1, <2>2, <2>4, FrameOfStatement DEF LocksActivity, Tables, TableStatement
<1>2. ASSUME NEW pc,
             Reads(w, pc, txn[w].pid, txn[w].owner, txn[w].ending,
                   txn[w].targets, txn[w].accepted)
      PROVE  Tables(w) /\ Frame(w)
  BY <1>2, TablesOfRead
<1> QED
  BY <1>1, <1>2, LockActivityEffect

\* The INSERT into activity adds the rows of the request.
LEMMA TablesOfInsertAndAnswer ==
  ASSUME Typed, NEW w \in Workers, InsertAndAnswer(w)
  PROVE  Tables(w) /\ Frame(w)
<1>1. PICK rows \in Seq(ActivityRow) : Inserts(w, rows)
  BY InsertAndAnswerEffect
<1>2. UNCHANGED platform /\ Frame(w)
  BY InsertAndAnswerEffect, FrameOfStatement
<1>3. \A i \in DOMAIN activity : activity'[i] = activity[i]
  BY <1>1, InsertedTable DEF Inserts, Typed
<1>4. TableStatement(ActivityRow, activity, activity', w, txn[w].time)
  BY <1>1 DEF Inserts, TableStatement
<1> QED
  BY <1>2, <1>3, <1>4 DEF Tables, TableStatement

\* Every step.
LEMMA TablesOfStep ==
  ASSUME Typed, NEW w \in Workers, StepBy(w)
  PROVE  Tables(w) /\ Frame(w)
<1>1. ASSUME NEW p \in Platforms, NEW request \in Requests(p), Start(w, request)
      PROVE  Tables(w) /\ Frame(w)
  <2>1. UNCHANGED <<platform, activity>>
    BY <1>1, StartEffect
  <2>2. Frame(w)
    BY <1>1, FrameOfStart
  <2> QED
    BY <2>1, <2>2 DEF Tables, TableStatement
<1>2. CASE FindPlatform(w)
  BY <1>2, FindPlatformEffect, TablesOfRead, TablesOfRollBack
<1>3. CASE AnyPlatform(w)
  BY <1>3, AnyPlatformEffect, TablesOfInsertPlatform, TablesOfRollBack
<1>4. CASE EndPlatform(w)
  BY <1>4, EndPlatformEffect, TablesOfRead
<1>5. CASE LockPlatform(w)
  BY <1>5, TablesOfLockPlatform
<1>6. CASE FindActivity(w)
  BY <1>6, FindActivityEffect, TablesOfRead, TablesOfRollBack
<1>7. CASE AnyActivity(w)
  BY <1>7, AnyActivityEffect, TablesOfRead, TablesOfRollBack
<1>8. CASE FindDeactivated(w)
  BY <1>8, FindDeactivatedEffect, TablesOfRead
<1>9. CASE FindCurrent(w)
  BY <1>9, FindCurrentEffect, TablesOfRead
<1>10. CASE EndActivity(w)
  BY <1>10, EndActivityEffect, TablesOfRead
<1>11. CASE LockActivity(w)
  BY <1>11, TablesOfLockActivity
<1>12. CASE InsertAndAnswer(w)
  BY <1>12, TablesOfInsertAndAnswer
<1>13. CASE Commit(w)
  BY <1>13, TablesOfCommit
<1>14. CASE Crash(w) \/ DeadlockDetected(w)
  BY <1>14, FailureEffect, TablesOfRollBack
<1>15. CASE FindExisting(w)
  BY <1>15, FindExistingEffect, TablesOfRead
<1> QED
  BY <1>1, <1>2, <1>3, <1>4, <1>5, <1>6, <1>7, <1>8, <1>9, <1>10, <1>11, <1>12, <1>13, <1>14, <1>15
  DEF StepBy, Step

-----------------------------------------------------------------------------
\* What a step of w means for both tables.
StepEffect(w) ==
  /\ platform' \in Seq(PlatformRow) /\ activity' \in Seq(ActivityRow)
  /\ StepOf(platform, platform', w, txn[w].time)
  /\ StepOf(activity, activity', w, txn[w].time)
  /\ ~Commit(w) => Unseen(platform, platform') /\ Unseen(activity, activity')
  /\ \A i \in DOMAIN activity : activity'[i].platform = activity[i].platform
  /\ DOMAIN platform \subseteq DOMAIN platform' /\ DOMAIN activity \subseteq DOMAIN activity'

\* A worker that has not started can only start.
LEMMA OnlyStarts ==
  ASSUME Typed, NEW w \in Workers, StepBy(w), ~Started(w)
  PROVE  /\ \E p \in Platforms : \E request \in Requests(p) : Start(w, request)
         /\ UNCHANGED <<platform, activity>>
<1>1. ~Step(w) /\ ~Crash(w)
  BY FailureEffect
     DEF Started, Step, FindPlatform, AnyPlatform, EndPlatform, LockPlatform,
         FindActivity, AnyActivity, FindExisting, FindDeactivated, FindCurrent, EndActivity,
         LockActivity, InsertAndAnswer, Commit
<1> QED
  BY <1>1, StartEffect DEF StepBy

\* Every step is a step of both tables, and only a commit shows.
LEMMA EffectOfStep ==
  ASSUME Typed, NEW w \in Workers, StepBy(w)
  PROVE  StepEffect(w) /\ Frame(w)
<1>1. Tables(w) /\ Frame(w)
  BY TablesOfStep
<1>2. w \notin {"committed", "aborted", "nobody"}
  BY WorkerTypes
<1>3. platform \in Seq(PlatformRow) /\ activity \in Seq(ActivityRow)
  BY DEF Typed
<1>4. CASE ~Started(w)
  <2>1. UNCHANGED <<platform, activity>>
    BY <1>4, OnlyStarts
  <2>2. Len(platform) \in Nat /\ Len(activity) \in Nat
    BY <1>3
  <2> QED
    BY <1>1, <1>3, <2>1, <2>2, ReadIsStep DEF StepEffect, Tables
<1>5. CASE Started(w)
  <2>1. txn[w].time \in Timestamps
    BY <1>5, WorkerTypes
  <2>2. /\ TableStep(PlatformRow, platform, platform', w, txn[w].time)
        /\ TableStep(ActivityRow, activity, activity', w, txn[w].time)
    BY <1>1 DEF Tables, TableStep, IsCommitted
  <2>3. w # "committed" /\ w \in Workers
    BY <1>2
  <2>4. /\ platform' \in Seq(PlatformRow) /\ StepOf(platform, platform', w, txn[w].time)
        /\ TableStatement(PlatformRow, platform, platform', w, txn[w].time)
             => Unseen(platform, platform')
    BY <1>3, <2>1, <2>2, <2>3, PlatformRowsTakeMarks, TableStepEffect
  <2>5. /\ activity' \in Seq(ActivityRow) /\ StepOf(activity, activity', w, txn[w].time)
        /\ TableStatement(ActivityRow, activity, activity', w, txn[w].time)
             => Unseen(activity, activity')
    BY <1>3, <2>1, <2>2, <2>3, ActivityRowsTakeMarks, TableStepEffect
  <2> QED
    BY <1>1, <2>4, <2>5 DEF StepEffect, Tables, StepOf
<1> QED
  BY <1>4, <1>5

-----------------------------------------------------------------------------
\* Nobody else's request is disturbed.
LEMMA OthersKeepTypes ==
  ASSUME Typed, NEW w \in Workers, StepBy(w), NEW v \in Workers \ {w}
  PROVE  RequestKept(v)'
<1>1. StepEffect(w) /\ Frame(w)
  BY EffectOfStep
<1>2. Untouched(v) /\ now \in Nat /\ now <= now' /\ RequestKept(v)
  BY <1>1 DEF Frame, Typed
<1>3. now' \in Nat
  BY <1>1 DEF Frame
<1>4. txn[v].time \in 1..now => txn'[v].time \in 1..now'
  BY <1>2, <1>3 DEF Untouched
<1>5. DOMAIN platform \subseteq DOMAIN platform' /\ DOMAIN activity \subseteq DOMAIN activity'
  BY <1>1 DEF StepEffect
<1> QED
  BY <1>2, <1>4, <1>5 DEF RequestKept, Untouched, Started, Reporting

\* A worker that goes on.
LEMMA GoesOnTyped ==
  ASSUME Typed, NEW w \in Workers, Started(w), NEW pc, NEW pid, NEW owner, NEW ending,
         NEW targets, NEW accepted, GoesOn(w, pc, pid, owner, ending, targets, accepted),
         pc \in StatementsOf(txn[w].request),
         (pc \in {"current", "end activity", "lock activity", "insert"}
            /\ txn[w].request.kind = "bulk") => accepted \in Seq(ActivityIds),
         (txn[w].request.kind \in {"post", "bulk"} /\ pc \in WithPlatform)
            => pid \in DOMAIN platform',
         pc = "lock platform" => targets \subseteq DOMAIN platform',
         pc = "lock activity" => targets \subseteq DOMAIN activity'
  PROVE  RequestKept(w)'
BY DEF GoesOn, RequestKept, Typed, Started, Reporting

\* A worker that is free again.
LEMMA EndsTyped ==
  ASSUME NEW w \in Workers, Ends(w)
  PROVE  RequestKept(w)'
BY DEF Ends, RequestKept, Started, Reporting, Idle, WithPlatform

\* The INSERT of a platform version settles the version to use.
LEMMA InsertsPlatformTyped ==
  ASSUME Typed, NEW w \in Workers, StepBy(w), InsertsPlatform(w)
  PROVE  RequestKept(w)'
<1> DEFINE pc == AfterPlatform(txn[w].request)
<1>1. Reporting(w) /\ Started(w)
  BY DEF InsertsPlatform, Reporting
<1>2. pc \in StatementsOf(txn[w].request) /\ pc \in {"find activity", "insert", "existing"}
  BY <1>1, AfterPlatformType
<1>3. txn[w].request.kind = "bulk" => pc = "existing"
  BY <1>1, AfterPlatformType
<1>4. Len(platform) + 1 \in DOMAIN platform'
  BY DEF InsertsPlatform, Typed
<1>5. GoesOn(w, pc, Len(platform) + 1, txn[w].owner, txn[w].ending, txn[w].targets, txn[w].accepted)
  BY DEF InsertsPlatform
<1> HIDE DEF pc
<1> QED
  BY <1>1, <1>2, <1>3, <1>4, <1>5, GoesOnTyped

\* The worker's own request stays as it was, up to its next statement.
LEMMA OwnTypesKept ==
  ASSUME Typed, NEW w \in Workers, StepBy(w)
  PROVE  RequestKept(w)'
<1>1. DOMAIN platform \subseteq DOMAIN platform' /\ DOMAIN activity \subseteq DOMAIN activity'
  BY EffectOfStep DEF StepEffect
<1>2. ASSUME NEW p \in Platforms, NEW request \in Requests(p), Start(w, request)
      PROVE  RequestKept(w)'
  <2>1. /\ txn'[w].request = request /\ request \in AllRequests
        /\ txn'[w].time = now + 1 /\ now' = now + 1
        /\ \/ request.kind \in {"post", "bulk"} /\ txn'[w].pc = "find platform"
           \/ request.kind = "end platform" /\ txn'[w].pc = "end platform"
           \/ request.kind = "end activity" /\ txn'[w].pc = "end activity"
    BY <1>2, StartEffect
  <2>2. now \in Nat
    BY WorkerTypes
  <2>3. txn'[w].time \in 1..now'
    <3> DEFINE t == now'
    <3>1. t = now + 1 /\ txn'[w].time = now + 1
      BY <2>1
    <3> HIDE DEF t
    <3>2. t \in 1..t
      BY <2>2, <3>1
    <3> QED
      BY <3>1, <3>2 DEF t
  <2>4. txn'[w].pc \in StatementsOf(request) /\ txn'[w].pc \notin WithPlatform \ {"end activity"}
    BY <2>1 DEF StatementsOf, OnPlatform, WithPlatform
  <2> QED
    BY <2>1, <2>3, <2>4 DEF RequestKept, Reporting, Started, WithPlatform
<1>3. CASE IsRolledBack(w) \/ IsCommitted(w)
  BY <1>3, EndsTyped DEF IsRolledBack, IsCommitted
<1>4. CASE FindPlatform(w)
  <2>1. txn[w].pc = "find platform" /\ Started(w)
    BY <1>4, FindPlatformEffect DEF Started
  <2>2. /\ {"any platform", "end platform"} \subseteq StatementsOf(txn[w].request)
        /\ txn[w].request.kind = "bulk" => "existing" \in StatementsOf(txn[w].request)
    BY <2>1, NextStatement
  <2>3. ASSUME NEW pc \in {"any platform", "end platform"},
               Reads(w, pc, txn[w].pid, txn[w].owner, txn[w].ending,
                     txn[w].targets, txn[w].accepted)
        PROVE  RequestKept(w)'
    BY <2>1, <2>2, <2>3, GoesOnTyped DEF Reads, WithPlatform
  <2>4. ASSUME NEW i \in CurrentTo(w, platform, txn[w].request.platform),
               txn[w].request.kind = "bulk",
               Reads(w, "existing", i, txn[w].owner, txn[w].ending,
                     txn[w].targets, txn[w].accepted)
        PROVE  RequestKept(w)'
    <3> DEFINE pc == "existing"
    <3>1. i \in DOMAIN platform'
      BY <2>4 DEF CurrentTo, VisibleTo, Versions, Reads
    <3>2. /\ pc \in StatementsOf(txn[w].request)
          /\ pc \notin {"current", "end activity", "lock activity", "insert", "lock platform"}
      BY <2>2, <2>4
    <3>3. GoesOn(w, pc, i, txn[w].owner, txn[w].ending, txn[w].targets, txn[w].accepted)
      BY <2>4 DEF Reads
    <3> HIDE DEF pc
    <3> QED
      BY <2>1, <3>1, <3>2, <3>3, GoesOnTyped
  <2> QED
    BY <1>3, <1>4, <2>3, <2>4, FindPlatformEffect
<1>5. CASE AnyPlatform(w)
  BY <1>3, <1>5, AnyPlatformEffect, InsertsPlatformTyped
<1>6. CASE EndPlatform(w)
  <2>1. /\ txn[w].pc = "end platform" /\ Started(w)
        /\ Reads(w, "lock platform", txn[w].pid, txn[w].owner, txn[w].ending,
                 PlatformTargets(w), txn[w].accepted)
    BY <1>6, EndPlatformEffect DEF Started
  <2>2. "lock platform" \in StatementsOf(txn[w].request)
    BY <2>1, NextStatement
  <2>3. PlatformTargets(w) \subseteq DOMAIN platform'
    BY <2>1 DEF PlatformTargets, CurrentTo, VisibleTo, Versions, Reads
  <2> DEFINE pc == "lock platform"
  <2>4. /\ pc \in StatementsOf(txn[w].request) /\ pc \notin WithPlatform
        /\ pc \notin {"current", "end activity", "lock activity", "insert"}
    BY <2>2 DEF WithPlatform
  <2>5. GoesOn(w, pc, txn[w].pid, txn[w].owner, txn[w].ending, PlatformTargets(w), txn[w].accepted)
    BY <2>1 DEF Reads
  <2> HIDE DEF pc
  <2> QED
    BY <2>1, <2>3, <2>4, <2>5, GoesOnTyped
<1>7. CASE LockPlatform(w)
  <2>1. txn[w].pc = "lock platform" /\ Started(w)
    BY <1>7, LockPlatformEffect DEF Started
  <2>2. /\ {"lock platform", "answered"} \subseteq StatementsOf(txn[w].request)
        /\ txn[w].targets \subseteq DOMAIN platform
    BY <2>1, NextStatement DEF Typed, RequestKept
  <2>3. ASSUME NEW i \in txn[w].targets, LocksPlatform(w, i)
        PROVE  RequestKept(w)'
    <3> DEFINE left == txn[w].targets \ {i}
    <3>1. left \subseteq DOMAIN platform'
      BY <1>1, <2>2
    <3>2. "lock platform" \notin WithPlatform
      BY DEF WithPlatform
    <3> HIDE DEF left
    <3>3. GoesOn(w, "lock platform", txn[w].pid, txn[w].owner, txn[w].ending, left, txn[w].accepted)
      BY <2>3 DEF left, LocksPlatform
    <3> QED
      BY <2>1, <2>2, <3>1, <3>2, <3>3, GoesOnTyped
  <2>4. CASE /\ txn[w].request.kind = "end platform"
             /\ Reads(w, "answered", txn[w].pid, txn[w].owner, txn[w].ending,
                      txn[w].targets, txn[w].accepted)
    <3> DEFINE pc == "answered"
    <3>1. /\ pc \in StatementsOf(txn[w].request)
          /\ pc \notin {"current", "end activity", "lock activity", "insert", "lock platform"}
          /\ txn[w].request.kind \notin {"post", "bulk"}
      BY <2>2, <2>4
    <3>2. GoesOn(w, pc, txn[w].pid, txn[w].owner, txn[w].ending, txn[w].targets, txn[w].accepted)
      BY <2>4 DEF Reads
    <3> HIDE DEF pc
    <3> QED
      BY <2>1, <3>1, <3>2, GoesOnTyped
  <2> QED
    BY <1>7, <2>3, <2>4, LockPlatformEffect, InsertsPlatformTyped
<1>8. CASE FindActivity(w)
  <2>1. txn[w].pc = "find activity" /\ Started(w) /\ txn[w].request.kind = "post"
    BY <1>8, FindActivityEffect DEF Started
  <2>2. {"any activity", "end activity"} \subseteq StatementsOf(txn[w].request)
    BY <2>1, NextStatement
  <2>3. txn[w].pid \in DOMAIN platform
    BY <2>1 DEF Typed, RequestKept, Reporting, WithPlatform
  <2>4. ASSUME NEW pc \in {"any activity", "end activity"}, NEW owner, NEW ending,
               Reads(w, pc, txn[w].pid, owner, ending, txn[w].targets, txn[w].accepted)
        PROVE  RequestKept(w)'
    BY <1>1, <2>1, <2>2, <2>3, <2>4, GoesOnTyped DEF Reads
  <2> QED
    BY <1>3, <1>8, <2>4, FindActivityEffect
<1>9. CASE AnyActivity(w)
  <2>1. txn[w].pc = "any activity" /\ Started(w)
    BY <1>9, AnyActivityEffect DEF Started
  <2>2. "insert" \in StatementsOf(txn[w].request) /\ txn[w].request.kind = "post"
    BY <2>1, NextStatement
  <2>3. txn[w].pid \in DOMAIN platform
    BY <2>1, <2>2 DEF Typed, RequestKept, Reporting, WithPlatform
  <2>4. ASSUME Reads(w, "insert", txn[w].pid, txn[w].owner, txn[w].ending,
                     txn[w].targets, txn[w].accepted)
        PROVE  RequestKept(w)'
    <3> DEFINE pc == "insert"
    <3>1. /\ pc \in StatementsOf(txn[w].request) /\ pc \notin {"lock platform", "lock activity"}
          /\ txn[w].request.kind # "bulk"
      BY <2>2
    <3>2. GoesOn(w, pc, txn[w].pid, txn[w].owner, txn[w].ending, txn[w].targets, txn[w].accepted)
      BY <2>4 DEF Reads
    <3> HIDE DEF pc
    <3> QED
      BY <1>1, <2>1, <2>3, <3>1, <3>2, GoesOnTyped
  <2> QED
    BY <1>3, <1>9, <2>4, AnyActivityEffect
<1>10. CASE FindDeactivated(w)
  <2>1. txn[w].pc = "deactivated" /\ Started(w)
    BY <1>10, FindDeactivatedEffect DEF Started
  <2>2. "current" \in StatementsOf(txn[w].request) /\ txn[w].request.kind = "bulk"
    BY <2>1, NextStatement
  <2>3. txn[w].pid \in DOMAIN platform
    BY <2>1, <2>2 DEF Typed, RequestKept, Reporting, WithPlatform
  <2>4. PICK accepted \in Seq(ActivityIds) :
               /\ \A m, n \in DOMAIN accepted : accepted[m] = accepted[n] => m = n
               /\ Reads(w, "current", txn[w].pid, txn[w].owner, txn[w].ending,
                        txn[w].targets, accepted)
    BY <1>10, FindDeactivatedEffect
  <2> DEFINE pc == "current"
  <2>5. pc \in StatementsOf(txn[w].request) /\ pc \notin {"lock platform", "lock activity"}
    BY <2>2
  <2>6. GoesOn(w, pc, txn[w].pid, txn[w].owner, txn[w].ending, txn[w].targets, accepted)
    BY <2>4 DEF Reads
  <2> HIDE DEF pc
  <2> QED
    BY <1>1, <2>1, <2>3, <2>4, <2>5, <2>6, GoesOnTyped
<1>11. CASE FindCurrent(w)
  <2>1. txn[w].pc = "current" /\ Started(w) /\ txn[w].request.kind = "bulk"
    BY <1>11, FindCurrentEffect DEF Started
  <2>2. {"end activity", "insert"} \subseteq StatementsOf(txn[w].request)
    BY <2>1, NextStatement
  <2>3. txn[w].pid \in DOMAIN platform /\ txn[w].accepted \in Seq(ActivityIds)
    BY <2>1 DEF Typed, RequestKept, Reporting, WithPlatform
  <2> DEFINE pc == IF EndingUnder(w) = {} THEN "insert" ELSE "end activity"
  <2>4. pc \in {"end activity", "insert"}
    OBVIOUS
  <2>5. Reads(w, pc, txn[w].pid, txn[w].pid, EndingUnder(w), txn[w].targets, txn[w].accepted)
    BY <1>11, FindCurrentEffect
  <2> HIDE DEF pc
  <2> QED
    BY <1>1, <2>1, <2>2, <2>3, <2>4, <2>5, GoesOnTyped DEF Reads
<1>12. CASE EndActivity(w)
  <2>1. /\ txn[w].pc = "end activity" /\ Started(w)
        /\ Reads(w, "lock activity", txn[w].pid, txn[w].owner, txn[w].ending,
                 ActivityTargets(w), txn[w].accepted)
    BY <1>12, EndActivityEffect DEF Started
  <2>2. "lock activity" \in StatementsOf(txn[w].request)
    BY <2>1, NextStatement
  <2>3. ActivityTargets(w) \subseteq DOMAIN activity'
    BY <2>1 DEF ActivityTargets, CurrentTo, VisibleTo, Versions, Reads
  <2>4. /\ txn[w].request.kind \in {"post", "bulk"} => txn[w].pid \in DOMAIN platform
        /\ txn[w].request.kind = "bulk" => txn[w].accepted \in Seq(ActivityIds)
    BY <2>1 DEF Typed, RequestKept, Reporting, WithPlatform
  <2> DEFINE pc == "lock activity"
  <2>5. pc \in StatementsOf(txn[w].request) /\ pc # "lock platform"
    BY <2>2
  <2>6. GoesOn(w, pc, txn[w].pid, txn[w].owner, txn[w].ending, ActivityTargets(w), txn[w].accepted)
    BY <2>1 DEF Reads
  <2> HIDE DEF pc
  <2> QED
    BY <1>1, <2>1, <2>3, <2>4, <2>5, <2>6, GoesOnTyped
<1>13. CASE LockActivity(w)
  <2>1. txn[w].pc = "lock activity" /\ Started(w)
    BY <1>13, LockActivityEffect DEF Started
  <2>2. /\ {"lock activity", "answered"} \subseteq StatementsOf(txn[w].request)
        /\ txn[w].request.kind # "end activity" => "insert" \in StatementsOf(txn[w].request)
        /\ txn[w].targets \subseteq DOMAIN activity
    BY <2>1, NextStatement DEF Typed, RequestKept
  <2>3. /\ txn[w].request.kind \in {"post", "bulk"} => txn[w].pid \in DOMAIN platform
        /\ txn[w].request.kind = "bulk" => txn[w].accepted \in Seq(ActivityIds)
    BY <2>1 DEF Typed, RequestKept, Reporting, WithPlatform
  <2>4. ASSUME NEW i \in txn[w].targets, LocksActivity(w, i)
        PROVE  RequestKept(w)'
    <3> DEFINE left == txn[w].targets \ {i}
    <3>1. left \subseteq DOMAIN activity'
      BY <1>1, <2>2
    <3> HIDE DEF left
    <3>2. GoesOn(w, "lock activity", txn[w].pid, txn[w].owner, txn[w].ending, left, txn[w].accepted)
      BY <2>4 DEF left, LocksActivity
    <3> QED
      BY <1>1, <2>1, <2>2, <2>3, <3>1, <3>2, GoesOnTyped
  <2>5. ASSUME Reads(w, IF txn[w].request.kind = "end activity" THEN "answered" ELSE "insert",
                     txn[w].pid, txn[w].owner, txn[w].ending, txn[w].targets, txn[w].accepted)
        PROVE  RequestKept(w)'
    <3> DEFINE pc == IF txn[w].request.kind = "end activity" THEN "answered" ELSE "insert"
    <3>1. pc \in StatementsOf(txn[w].request) /\ pc \in {"answered", "insert"}
      BY <2>2
    <3>2. GoesOn(w, pc, txn[w].pid, txn[w].owner, txn[w].ending, txn[w].targets, txn[w].accepted)
      BY <2>5 DEF Reads
    <3> HIDE DEF pc
    <3> QED
      BY <1>1, <2>1, <2>3, <3>1, <3>2, GoesOnTyped
  <2> QED
    BY <1>13, <2>4, <2>5, LockActivityEffect
<1>14. CASE InsertAndAnswer(w)
  <2>1. txn[w].pc = "insert" /\ Started(w) /\ Reporting(w)
    BY <1>14, InsertAndAnswerEffect DEF Started
  <2>2. "answered" \in StatementsOf(txn[w].request)
    BY <2>1, NextStatement
  <2>3. txn[w].pid \in DOMAIN platform
    BY <2>1 DEF Typed, RequestKept, WithPlatform
  <2>4. GoesOn(w, "answered", txn[w].pid, txn[w].owner, txn[w].ending,
               txn[w].targets, InsertedIds(w))
    BY <1>14, InsertAndAnswerEffect
  <2> DEFINE pc == "answered"
  <2>5. /\ pc \in StatementsOf(txn[w].request)
        /\ pc \notin {"current", "end activity", "lock activity", "insert", "lock platform"}
    BY <2>2
  <2>6. GoesOn(w, pc, txn[w].pid, txn[w].owner, txn[w].ending, txn[w].targets, InsertedIds(w))
    BY <2>4
  <2> HIDE DEF pc
  <2> QED
    BY <1>1, <2>1, <2>3, <2>5, <2>6, GoesOnTyped
<1>15. CASE Commit(w)
  BY <1>3, <1>15, CommitEffect
<1>16. CASE Crash(w) \/ DeadlockDetected(w)
  BY <1>3, <1>16, FailureEffect
<1>17. CASE FindExisting(w)
  <2>1. txn[w].pc = "existing" /\ Started(w)
    BY <1>17, FindExistingEffect DEF Started
  <2>2. "deactivated" \in StatementsOf(txn[w].request) /\ txn[w].request.kind = "bulk"
    BY <2>1, NextStatement
  <2>3. txn[w].pid \in DOMAIN platform
    BY <2>1, <2>2 DEF Typed, RequestKept, Reporting, WithPlatform
  <2> DEFINE pc == "deactivated"
  <2>4. /\ pc \in StatementsOf(txn[w].request)
        /\ pc \notin {"current", "end activity", "lock activity", "insert", "lock platform"}
    BY <2>2
  <2>5. GoesOn(w, pc, txn[w].pid, txn[w].owner, txn[w].ending, txn[w].targets, txn[w].accepted)
    BY <1>17, FindExistingEffect DEF Reads
  <2> HIDE DEF pc
  <2> QED
    BY <1>1, <2>1, <2>3, <2>4, <2>5, GoesOnTyped
<1> QED
  BY <1>2, <1>4, <1>5, <1>6, <1>7, <1>8, <1>9, <1>10, <1>11, <1>12, <1>13, <1>14, <1>15, <1>16, <1>17
  DEF StepBy, Step

\* Types survive every step.
LEMMA TypedKept ==
  ASSUME Typed, NEW w \in Workers, StepBy(w)
  PROVE  Typed'
<1>1. StepEffect(w) /\ Frame(w)
  BY EffectOfStep
<1>2. ASSUME NEW v \in Workers PROVE RequestKept(v)'
  BY OthersKeepTypes, OwnTypesKept
<1> QED
  BY <1>1, <1>2 DEF Typed, StepEffect, Frame

-----------------------------------------------------------------------------
(***************************************************************************)
(* The rows after a step, one by one                                       *)
(***************************************************************************)

\* After a rollback.
LEMMA RowsOfRollBack ==
  ASSUME Typed, NEW w \in Workers, IsRolledBack(w)
  PROVE  /\ DOMAIN platform' = DOMAIN platform /\ DOMAIN activity' = DOMAIN activity
         /\ \A i \in DOMAIN platform : RowRolledBack(platform[i], platform'[i], w)
         /\ \A i \in DOMAIN activity : RowRolledBack(activity[i], activity'[i], w)
<1>1. txn[w].time \in Timestamps /\ platform \in Seq(PlatformRow) /\ activity \in Seq(ActivityRow)
  BY WorkerTypes DEF IsRolledBack, Typed
<1>2. platform' = AllRolledBack(platform, w) /\ activity' = AllRolledBack(activity, w)
  BY DEF IsRolledBack
<1>3. /\ DOMAIN AllRolledBack(platform, w) = DOMAIN platform
      /\ \A i \in DOMAIN platform : RowRolledBack(platform[i], AllRolledBack(platform, w)[i], w)
  BY <1>1, EndedTable, PlatformRowsTakeMarks
<1>4. /\ DOMAIN AllRolledBack(activity, w) = DOMAIN activity
      /\ \A i \in DOMAIN activity : RowRolledBack(activity[i], AllRolledBack(activity, w)[i], w)
  BY <1>1, EndedTable, ActivityRowsTakeMarks
<1> QED
  BY <1>2, <1>3, <1>4

\* After a commit.
LEMMA RowsOfCommit ==
  ASSUME Typed, NEW w \in Workers, IsCommitted(w)
  PROVE  /\ DOMAIN platform' = DOMAIN platform /\ DOMAIN activity' = DOMAIN activity
         /\ \A i \in DOMAIN platform : RowCommitted(platform[i], platform'[i], w, txn[w].time)
         /\ \A i \in DOMAIN activity : RowCommitted(activity[i], activity'[i], w, txn[w].time)
<1>1. txn[w].time \in Timestamps /\ platform \in Seq(PlatformRow) /\ activity \in Seq(ActivityRow)
  BY WorkerTypes DEF IsCommitted, Typed, Started
<1> DEFINE t == txn[w].time
<1>2. platform' = AllCommitted(platform, w, t) /\ activity' = AllCommitted(activity, w, t)
  BY DEF IsCommitted
<1>3. /\ DOMAIN AllCommitted(platform, w, t) = DOMAIN platform
      /\ \A i \in DOMAIN platform : RowCommitted(platform[i], AllCommitted(platform, w, t)[i], w, t)
  BY <1>1, EndedTable, PlatformRowsTakeMarks
<1>4. /\ DOMAIN AllCommitted(activity, w, t) = DOMAIN activity
      /\ \A i \in DOMAIN activity : RowCommitted(activity[i], AllCommitted(activity, w, t)[i], w, t)
  BY <1>1, EndedTable, ActivityRowsTakeMarks
<1> HIDE DEF t
<1>5. /\ DOMAIN platform' = DOMAIN platform /\ DOMAIN activity' = DOMAIN activity
      /\ \A i \in DOMAIN platform : RowCommitted(platform[i], platform'[i], w, t)
      /\ \A i \in DOMAIN activity : RowCommitted(activity[i], activity'[i], w, t)
  BY <1>2, <1>3, <1>4
<1> QED
  BY <1>5 DEF t

\* After the INSERT of a platform version.
LEMMA RowsOfInsertPlatform ==
  ASSUME Typed, NEW w \in Workers, InsertsPlatform(w)
  PROVE  /\ Len(platform) + 1 \in DOMAIN platform' \ DOMAIN platform
         /\ \A i \in DOMAIN platform : i \in DOMAIN platform' /\ platform'[i] = platform[i]
         /\ \A k \in DOMAIN platform' \ DOMAIN platform : k = Len(platform) + 1
         /\ LET row == platform'[Len(platform) + 1]
            IN  /\ row.by = w /\ row.endedBy = "nobody" /\ row.endedAt = NotEnded
                /\ row.createdAt = txn[w].time /\ row.fid = txn[w].request.platform
<1>1. platform' = Append(platform, NewPlatform(w)) /\ Reporting(w)
  BY DEF InsertsPlatform
<1> DEFINE row == NewPlatform(w)
           new == Append(platform, row)
<1>2. platform \in Seq(PlatformRow) /\ row \in PlatformRow
  BY <1>1, NewPlatformType DEF Typed
<1>3. /\ row.by = w /\ row.endedBy = "nobody" /\ row.endedAt = NotEnded
      /\ row.createdAt = txn[w].time /\ row.fid = txn[w].request.platform
  BY <1>1, NewPlatformType
<1> HIDE DEF row
<1>4. /\ Len(platform) \in Nat
      /\ DOMAIN platform = 1..Len(platform) /\ DOMAIN new = 1..(Len(platform) + 1)
      /\ new[Len(platform) + 1] = row
      /\ \A i \in 1..Len(platform) : new[i] = platform[i]
  BY <1>2
<1>5. platform' = new
  BY <1>1 DEF row
<1> HIDE DEF new
<1> QED
  BY <1>3, <1>4, <1>5

\* After the INSERT of the activities.
LEMMA RowsOfInsert ==
  ASSUME Typed, NEW w \in Workers, InsertAndAnswer(w)
  PROVE  /\ \A i \in DOMAIN activity : i \in DOMAIN activity' /\ activity'[i] = activity[i]
         /\ \A k \in DOMAIN activity' \ DOMAIN activity :
              /\ k > Len(activity)
              /\ k - Len(activity) \in DOMAIN InsertedIds(w)
              /\ activity'[k].fid = InsertedIds(w)[k - Len(activity)]
              /\ activity'[k].platform = txn[w].pid /\ activity'[k].createdAt = txn[w].time
              /\ activity'[k].endedAt = NotEnded
              /\ activity'[k].by = w /\ activity'[k].endedBy = "nobody"
         /\ \A n \in DOMAIN InsertedIds(w) :
              /\ Len(activity) + n \in DOMAIN activity' \ DOMAIN activity
              /\ activity'[Len(activity) + n].fid = InsertedIds(w)[n]
              /\ activity'[Len(activity) + n].by = w
<1>1. PICK rows \in Seq(ActivityRow) : Inserts(w, rows) /\ DOMAIN rows = DOMAIN InsertedIds(w)
  BY InsertAndAnswerEffect
<1>2. activity \in Seq(ActivityRow) /\ activity' = activity \o rows
  BY <1>1 DEF Typed, Inserts
<1>3. /\ \A i \in DOMAIN activity : i \in DOMAIN activity' /\ activity'[i] = activity[i]
      /\ \A n \in DOMAIN rows : /\ Len(activity) + n \in DOMAIN activity' \ DOMAIN activity
                                /\ activity'[Len(activity) + n] = rows[n]
      /\ \A k \in DOMAIN activity' \ DOMAIN activity :
            /\ k > Len(activity)
            /\ k - Len(activity) \in DOMAIN rows
            /\ activity'[k] = rows[k - Len(activity)]
  BY <1>2, InsertedTable
<1>4. \A n \in DOMAIN rows :
        /\ rows[n].fid = InsertedIds(w)[n] /\ rows[n].platform = txn[w].pid
        /\ rows[n].createdAt = txn[w].time /\ rows[n].endedAt = NotEnded
        /\ rows[n].by = w /\ rows[n].endedBy = "nobody"
  BY <1>1 DEF Inserts
<1> QED
  BY <1>1, <1>3, <1>4

\* After a lock on a platform row.
LEMMA RowsOfLockPlatform ==
  ASSUME Typed, NEW w \in Workers, NEW i \in txn[w].targets, LocksPlatform(w, i)
  PROVE  /\ i \in DOMAIN platform /\ i \in txn[w].targets
         /\ DOMAIN platform' = DOMAIN platform
         /\ RowEnded(platform[i], platform'[i], w)
         /\ \A j \in DOMAIN platform \ {i} : platform'[j] = platform[j]
<1>1. txn[w].time \in Timestamps /\ platform \in Seq(PlatformRow)
  BY WorkerTypes DEF Typed, Started, LocksPlatform
<1>2. i \in txn[w].targets /\ txn[w].targets \subseteq DOMAIN platform
  BY DEF Typed, RequestKept, LocksPlatform
<1> DEFINE new == [platform EXCEPT ![i] = EndedRow(@, w, txn[w].time)]
<1>3. /\ DOMAIN new = DOMAIN platform /\ RowEnded(platform[i], new[i], w)
      /\ \A j \in DOMAIN platform \ {i} : new[j] = platform[j]
  BY <1>1, <1>2, LockedTable, PlatformRowsTakeMarks
<1>4. platform' = new
  BY DEF LocksPlatform
<1> HIDE DEF new
<1> QED
  BY <1>2, <1>3, <1>4

\* After a lock on an activity row.
LEMMA RowsOfLockActivity ==
  ASSUME Typed, NEW w \in Workers, NEW i \in txn[w].targets, LocksActivity(w, i)
  PROVE  /\ i \in DOMAIN activity /\ i \in txn[w].targets
         /\ DOMAIN activity' = DOMAIN activity
         /\ RowEnded(activity[i], activity'[i], w)
         /\ \A j \in DOMAIN activity \ {i} : activity'[j] = activity[j]
         /\ \A j \in DOMAIN activity : activity'[j].platform = activity[j].platform
<1>1. txn[w].time \in Timestamps /\ activity \in Seq(ActivityRow)
  BY WorkerTypes DEF Typed, Started, LocksActivity
<1>2. i \in txn[w].targets /\ txn[w].targets \subseteq DOMAIN activity
  BY DEF Typed, RequestKept, LocksActivity
<1> DEFINE new == [activity EXCEPT ![i] = EndedRow(@, w, txn[w].time)]
<1>3. /\ DOMAIN new = DOMAIN activity /\ RowEnded(activity[i], new[i], w)
      /\ \A j \in DOMAIN activity \ {i} : new[j] = activity[j]
  BY <1>1, <1>2, LockedTable, ActivityRowsTakeMarks
<1>4. activity' = new
  BY DEF LocksActivity
<1>5. \A j \in DOMAIN activity : new[j].platform = activity[j].platform
  BY <1>1, <1>2, <1>3, MarksKeepVersion
<1> HIDE DEF new
<1> QED
  BY <1>2, <1>3, <1>4, <1>5

-----------------------------------------------------------------------------
(***************************************************************************)
(* Locks                                                                   *)
(***************************************************************************)

\* The rows a worker has locked and those it is going to lock are rows its
\* request ends; what it has inserted comes later.
LocksHeld(w) ==
  /\ \A i \in DOMAIN platform : platform[i].endedBy = w =>
       /\ txn[w].pc \in WithPlatform \cup {"lock platform"}
       /\ platform[i].fid = txn[w].request.platform
  /\ \A i \in DOMAIN activity : activity[i].endedBy = w =>
       /\ txn[w].pc \in {"lock activity", "insert", "answered"}
       /\ activity[i].fid \in txn[w].ending /\ activity[i].platform = txn[w].owner
  /\ txn[w].pc = "lock platform" => \A i \in txn[w].targets :
       i \in Committed(platform) /\ platform[i].fid = txn[w].request.platform
  /\ txn[w].pc = "lock activity" => \A i \in txn[w].targets :
       /\ i \in Committed(activity)
       /\ activity[i].fid \in txn[w].ending /\ activity[i].platform = txn[w].owner
  /\ \A i \in DOMAIN platform : platform[i].by = w =>
       txn[w].pc \in WithPlatform /\ txn[w].request.kind \in {"post", "bulk"}
  /\ \A i \in DOMAIN activity : activity[i].by = w =>
       txn[w].pc = "answered" /\ txn[w].request.kind \in {"post", "bulk"}

Locked ==
  /\ RowsMarked(platform, Workers) /\ RowsMarked(activity, Workers)
  /\ \A w \in Workers : LocksHeld(w)

\* A step of w locks committed rows only.
LocksCommitted(w) ==
  /\ \A i \in DOMAIN platform : platform'[i].endedBy = w => platform[i].by = "committed"
  /\ \A i \in DOMAIN activity : activity'[i].endedBy = w => activity[i].by = "committed"

\* What it holds before it locks more.
LEMMA LockedCommitted ==
  ASSUME Typed, Locked, NEW w \in Workers
  PROVE  /\ \A i \in DOMAIN platform : platform[i].endedBy = w => platform[i].by = "committed"
         /\ \A i \in DOMAIN activity : activity[i].endedBy = w => activity[i].by = "committed"
         /\ LocksHeld(w)
BY WorkerTypes DEF Locked, RowsMarked

\* A SELECT takes no lock.
LEMMA ReadKeepsLocks ==
  ASSUME Typed, Locked, NEW w \in Workers, NEW pc, NEW pid, NEW owner, NEW ending, NEW targets,
         NEW accepted, Reads(w, pc, pid, owner, ending, targets, accepted),
         pc \notin {"lock platform", "lock activity"}, txn[w].pc # "answered",
         txn[w].pc \in WithPlatform \cup {"lock platform"} => pc \in WithPlatform,
         txn[w].pc \in {"lock activity", "insert"}
           => pc \in {"insert", "answered"} /\ ending = txn[w].ending /\ owner = txn[w].owner
  PROVE  LocksHeld(w)' /\ LocksCommitted(w)
<1>1. /\ UNCHANGED <<platform, activity>> /\ txn'[w].pc = pc /\ txn'[w].ending = ending
      /\ txn'[w].owner = owner /\ txn'[w].request = txn[w].request
  BY DEF Reads, GoesOn
<1>2. LocksHeld(w) /\ LocksCommitted(w)
  BY <1>1, LockedCommitted DEF LocksCommitted
<1>3. ASSUME NEW i \in DOMAIN platform, platform[i].endedBy = w
      PROVE  pc \in WithPlatform /\ platform[i].fid = txn[w].request.platform
  BY <1>2, <1>3 DEF LocksHeld
<1>4. ASSUME NEW i \in DOMAIN activity, activity[i].endedBy = w
      PROVE  /\ pc \in {"insert", "answered"}
             /\ activity[i].fid \in ending /\ activity[i].platform = owner
  BY <1>2, <1>4 DEF LocksHeld
<1>5. ASSUME NEW i \in DOMAIN platform, platform[i].by = w
      PROVE  pc \in WithPlatform /\ txn[w].request.kind \in {"post", "bulk"}
  BY <1>2, <1>5 DEF LocksHeld
<1>6. \A i \in DOMAIN activity : activity[i].by # w
  BY <1>2 DEF LocksHeld
<1> QED
  BY <1>1, <1>2, <1>3, <1>4, <1>5, <1>6 DEF LocksHeld

\* A transaction that ends gives up its locks.
LEMMA EndReleasesLocks ==
  ASSUME Typed, NEW w \in Workers, IsRolledBack(w) \/ IsCommitted(w)
  PROVE  LocksHeld(w)' /\ LocksCommitted(w)
<1>1. w \notin {"committed", "aborted", "nobody"}
  BY WorkerTypes
<1>2. /\ DOMAIN platform' = DOMAIN platform /\ DOMAIN activity' = DOMAIN activity
      /\ \A i \in DOMAIN platform' : platform'[i].by # w /\ platform'[i].endedBy # w
      /\ \A i \in DOMAIN activity' : activity'[i].by # w /\ activity'[i].endedBy # w
  <2>1. CASE IsRolledBack(w)
    BY <1>1, <2>1, RowsOfRollBack, EndedHoldsNothing
  <2>2. CASE IsCommitted(w)
    BY <1>1, <2>2, RowsOfCommit, EndedHoldsNothing
  <2> QED
    BY <2>1, <2>2
<1>3. txn'[w].pc = "idle"
  BY DEF IsRolledBack, IsCommitted, Ends, Idle
<1> QED
  BY <1>2, <1>3 DEF LocksHeld, LocksCommitted

\* The INSERT of a platform version comes after the locks on the old ones.
LEMMA InsertPlatformKeepsLocks ==
  ASSUME Typed, Locked, NEW w \in Workers, InsertsPlatform(w),
         txn[w].pc \in {"any platform", "lock platform"}
  PROVE  LocksHeld(w)' /\ LocksCommitted(w)
<1>1. /\ Reporting(w) /\ platform' = Append(platform, NewPlatform(w)) /\ UNCHANGED activity
      /\ txn'[w].request = txn[w].request
      /\ txn'[w].pc = AfterPlatform(txn[w].request)
  BY DEF InsertsPlatform, GoesOn
<1>2. txn'[w].pc \in {"find activity", "insert", "existing"}
  BY <1>1, AfterPlatformType
<1>3. /\ \A i \in DOMAIN platform : i \in DOMAIN platform' /\ platform'[i] = platform[i]
      /\ \A i \in DOMAIN platform' \ DOMAIN platform : platform'[i].endedBy = "nobody"
  BY RowsOfInsertPlatform
<1>4. LocksHeld(w) /\ \A i \in DOMAIN platform : platform[i].endedBy = w => platform[i].by = "committed"
  BY LockedCommitted
<1>5. \A i \in DOMAIN activity : activity[i].endedBy # w /\ activity[i].by # w
  BY <1>4 DEF LocksHeld
<1>6. w # "nobody"
  BY WorkerTypes
<1>7. ASSUME NEW i \in DOMAIN platform', platform'[i].endedBy = w
      PROVE  platform'[i].fid = txn[w].request.platform
  <2>1. i \in DOMAIN platform
    BY <1>3, <1>6, <1>7
  <2> QED
    BY <1>3, <1>4, <1>7, <2>1 DEF LocksHeld
<1>8. LocksCommitted(w)
  BY <1>1, <1>3, <1>4, <1>5 DEF LocksCommitted
<1>9. txn'[w].pc \in WithPlatform /\ txn'[w].pc \notin {"lock platform", "lock activity"}
  BY <1>2 DEF WithPlatform
<1>10. txn[w].request.kind \in {"post", "bulk"}
  BY <1>1 DEF Reporting
<1> QED
  BY <1>1, <1>5, <1>7, <1>8, <1>9, <1>10 DEF LocksHeld

\* A request that starts holds no locks.
LEMMA StartKeepsLocks ==
  ASSUME Typed, Locked, NEW w \in Workers, NEW p \in Platforms, NEW request \in Requests(p),
         Start(w, request)
  PROVE  LocksHeld(w)' /\ LocksCommitted(w)
<1>1. txn[w].pc = "idle" /\ UNCHANGED <<platform, activity>>
  BY StartEffect DEF Started
<1>2. txn'[w].pc \in {"find platform", "end platform", "end activity"}
  BY StartEffect
<1>3. LocksHeld(w) /\ "idle" \notin WithPlatform
  BY LockedCommitted DEF WithPlatform
<1>4. /\ \A i \in DOMAIN platform : platform[i].by # w /\ platform[i].endedBy # w
      /\ \A i \in DOMAIN activity : activity[i].by # w /\ activity[i].endedBy # w
  BY <1>1, <1>3 DEF LocksHeld
<1> QED
  BY <1>1, <1>2, <1>4 DEF LocksHeld, LocksCommitted

\* An UPDATE that starts has locked nothing yet.
LEMMA UpdateStarts ==
  ASSUME Typed, Locked, NEW w \in Workers, EndPlatform(w) \/ EndActivity(w)
  PROVE  LocksHeld(w)' /\ LocksCommitted(w)
<1>1. LocksHeld(w)
  BY LockedCommitted
<1>2. CASE EndPlatform(w)
  <2>1. /\ txn[w].pc = "end platform" /\ UNCHANGED <<platform, activity>>
        /\ txn'[w].pc = "lock platform" /\ txn'[w].targets = PlatformTargets(w)
        /\ txn'[w].request = txn[w].request
    BY <1>2, EndPlatformEffect DEF Reads, GoesOn
  <2>2. /\ \A i \in DOMAIN platform : platform[i].by # w /\ platform[i].endedBy # w
        /\ \A i \in DOMAIN activity : activity[i].by # w /\ activity[i].endedBy # w
    BY <1>1, <2>1 DEF LocksHeld, WithPlatform
  <2>3. \A i \in PlatformTargets(w) :
           i \in Committed(platform) /\ platform[i].fid = txn[w].request.platform
    BY <2>2 DEF PlatformTargets, CurrentTo, VisibleTo, Versions, Committed
  <2> QED
    BY <2>1, <2>2, <2>3 DEF LocksHeld, LocksCommitted
<1>3. CASE EndActivity(w)
  <2>1. /\ txn[w].pc = "end activity" /\ UNCHANGED <<platform, activity>>
        /\ txn'[w].pc = "lock activity" /\ txn'[w].targets = ActivityTargets(w)
        /\ txn'[w].request = txn[w].request
        /\ txn'[w].ending = txn[w].ending /\ txn'[w].owner = txn[w].owner
    BY <1>3, EndActivityEffect DEF Reads, GoesOn
  <2>2. \A i \in DOMAIN activity : activity[i].by # w /\ activity[i].endedBy # w
    BY <1>1, <2>1 DEF LocksHeld
  <2>3. \A i \in ActivityTargets(w) :
           /\ i \in Committed(activity)
           /\ activity[i].fid \in txn[w].ending /\ activity[i].platform = txn[w].owner
    BY <2>2 DEF ActivityTargets, CurrentTo, VisibleTo, Versions, Committed
  <2>4. \A i \in DOMAIN platform : platform[i].endedBy = w => platform[i].by = "committed"
    BY LockedCommitted
  <2>5. "lock activity" \in WithPlatform
    BY DEF WithPlatform
  <2> QED
    BY <1>1, <2>1, <2>2, <2>3, <2>4, <2>5 DEF LocksHeld, LocksCommitted
<1> QED
  BY <1>2, <1>3

\* A row is locked, one of those that were found.
LEMMA PlatformLockHeld ==
  ASSUME Typed, Locked, NEW w \in Workers, NEW i \in txn[w].targets,
         LocksPlatform(w, i)
  PROVE  LocksHeld(w)' /\ LocksCommitted(w)
<1>1. /\ LocksHeld(w)
      /\ \A j \in DOMAIN platform : platform[j].endedBy = w => platform[j].by = "committed"
      /\ \A j \in DOMAIN activity : activity[j].endedBy = w => activity[j].by = "committed"
  BY LockedCommitted
<1>2. /\ i \in DOMAIN platform /\ i \in txn[w].targets
      /\ DOMAIN platform' = DOMAIN platform
      /\ RowEnded(platform[i], platform'[i], w)
      /\ \A j \in DOMAIN platform \ {i} : platform'[j] = platform[j]
  BY RowsOfLockPlatform
<1>3. /\ txn[w].pc = "lock platform" /\ txn'[w].pc = "lock platform" /\ txn'[w].targets = txn[w].targets \ {i}
      /\ txn'[w].request = txn[w].request /\ txn'[w].ending = txn[w].ending
      /\ UNCHANGED activity
  BY DEF LocksPlatform, GoesOn
<1>4. i \in Committed(platform) /\ platform[i].fid = txn[w].request.platform
  BY <1>1, <1>2, <1>3 DEF LocksHeld
<1>5. /\ \A j \in DOMAIN platform : platform'[j].fid = platform[j].fid /\ platform'[j].by = platform[j].by
      /\ \A j \in DOMAIN platform : platform'[j].endedBy = w => j = i \/ platform[j].endedBy = w
  BY <1>2 DEF RowEnded
<1>6. ASSUME NEW j \in DOMAIN platform, platform'[j].endedBy = w
      PROVE  /\ platform[j].fid = txn[w].request.platform
             /\ platform[j].by = "committed"
  <2>1. CASE j = i
    BY <1>4, <2>1 DEF Committed
  <2>2. CASE platform[j].endedBy = w
    BY <1>1, <1>3, <2>2 DEF LocksHeld
  <2> QED
    BY <1>5, <1>6, <2>1, <2>2
<1>7. /\ \A j \in DOMAIN platform : platform[j].by # w
      /\ \A j \in DOMAIN activity : activity[j].by # w /\ activity[j].endedBy # w
  BY <1>1, <1>3 DEF LocksHeld, WithPlatform
<1>8. \A j \in txn'[w].targets :
          j \in Committed(platform') /\ platform'[j].fid = txn[w].request.platform
  BY <1>1, <1>2, <1>5, <1>3 DEF LocksHeld, Committed
<1>9. LocksCommitted(w)
  BY <1>3, <1>6, <1>7 DEF LocksCommitted
<1> QED
  BY <1>2, <1>5, <1>3, <1>6, <1>7, <1>8, <1>9 DEF LocksHeld

\* The same in the table of activities.
LEMMA ActivityLockHeld ==
  ASSUME Typed, Locked, NEW w \in Workers, NEW i \in txn[w].targets,
         LocksActivity(w, i)
  PROVE  LocksHeld(w)' /\ LocksCommitted(w)
<1>1. /\ LocksHeld(w)
      /\ \A j \in DOMAIN platform : platform[j].endedBy = w => platform[j].by = "committed"
      /\ \A j \in DOMAIN activity : activity[j].endedBy = w => activity[j].by = "committed"
  BY LockedCommitted
<1>2. /\ i \in DOMAIN activity /\ i \in txn[w].targets
      /\ DOMAIN activity' = DOMAIN activity
      /\ RowEnded(activity[i], activity'[i], w)
      /\ \A j \in DOMAIN activity \ {i} : activity'[j] = activity[j]
      /\ \A j \in DOMAIN activity : activity'[j].platform = activity[j].platform
  BY RowsOfLockActivity
<1>3. /\ txn[w].pc = "lock activity" /\ txn'[w].pc = "lock activity" /\ txn'[w].targets = txn[w].targets \ {i}
      /\ txn'[w].request = txn[w].request /\ txn'[w].ending = txn[w].ending
      /\ txn'[w].owner = txn[w].owner /\ UNCHANGED platform
  BY DEF LocksActivity, GoesOn
<1>4. /\ i \in Committed(activity)
      /\ activity[i].fid \in txn[w].ending /\ activity[i].platform = txn[w].owner
  BY <1>1, <1>2, <1>3 DEF LocksHeld
<1>5. /\ \A j \in DOMAIN activity : activity'[j].fid = activity[j].fid /\ activity'[j].by = activity[j].by
      /\ \A j \in DOMAIN activity : activity'[j].endedBy = w => j = i \/ activity[j].endedBy = w
  BY <1>2 DEF RowEnded
<1>6. ASSUME NEW j \in DOMAIN activity, activity'[j].endedBy = w
      PROVE  /\ activity[j].fid \in txn[w].ending /\ activity[j].platform = txn[w].owner
             /\ activity[j].by = "committed"
  <2>1. CASE j = i
    BY <1>4, <2>1 DEF Committed
  <2>2. CASE activity[j].endedBy = w
    BY <1>1, <1>3, <2>2 DEF LocksHeld
  <2> QED
    BY <1>5, <1>6, <2>1, <2>2
<1>7. \A j \in DOMAIN activity : activity[j].by # w
  BY <1>1, <1>3 DEF LocksHeld
<1>8. \A j \in txn'[w].targets :
          /\ j \in Committed(activity')
          /\ activity'[j].fid \in txn[w].ending /\ activity'[j].platform = txn[w].owner
  BY <1>1, <1>2, <1>5, <1>3 DEF LocksHeld, Committed
<1>9. LocksCommitted(w)
  BY <1>1, <1>3, <1>6 DEF LocksCommitted
<1>10. \A j \in DOMAIN platform :
          /\ platform[j].endedBy = w => platform[j].fid = txn[w].request.platform
          /\ platform[j].by = w => txn[w].request.kind \in {"post", "bulk"}
  BY <1>1, <1>3 DEF LocksHeld
<1>11. "lock activity" \in WithPlatform
  BY DEF WithPlatform
<1> QED
  BY <1>2, <1>5, <1>3, <1>6, <1>7, <1>8, <1>9, <1>10, <1>11 DEF LocksHeld

\* The INSERT of the activities comes after all locks.
LEMMA InsertKeepsLocks ==
  ASSUME Typed, Locked, NEW w \in Workers, InsertAndAnswer(w)
  PROVE  LocksHeld(w)' /\ LocksCommitted(w)
<1>1. /\ LocksHeld(w)
      /\ \A j \in DOMAIN platform : platform[j].endedBy = w => platform[j].by = "committed"
      /\ \A j \in DOMAIN activity : activity[j].endedBy = w => activity[j].by = "committed"
  BY LockedCommitted
<1>2. /\ txn[w].pc = "insert" /\ UNCHANGED platform /\ Reporting(w)
      /\ txn'[w].pc = "answered" /\ txn'[w].request = txn[w].request
      /\ txn'[w].ending = txn[w].ending /\ txn'[w].owner = txn[w].owner
  BY InsertAndAnswerEffect DEF GoesOn
<1>3. \A i \in DOMAIN activity : activity'[i] = activity[i]
  BY RowsOfInsert
<1>4. \A k \in DOMAIN activity' \ DOMAIN activity : activity'[k].endedBy = "nobody"
  BY RowsOfInsert
<1>5. w # "nobody"
  BY WorkerTypes
<1>6. ASSUME NEW k \in DOMAIN activity', activity'[k].endedBy = w
      PROVE  activity'[k].fid \in txn[w].ending /\ activity'[k].platform = txn[w].owner
  <2>1. k \in DOMAIN activity
    BY <1>4, <1>5, <1>6
  <2> QED
    BY <1>1, <1>3, <1>6, <2>1 DEF LocksHeld
<1>7. \A j \in DOMAIN platform :
          /\ platform[j].endedBy = w => platform[j].fid = txn[w].request.platform
          /\ platform[j].by = w => txn[w].request.kind \in {"post", "bulk"}
  BY <1>1, <1>6 DEF LocksHeld
<1>8. "answered" \in WithPlatform /\ txn[w].request.kind \in {"post", "bulk"}
  BY <1>2 DEF WithPlatform, Reporting
<1>9. LocksCommitted(w)
  BY <1>1, <1>2, <1>3 DEF LocksCommitted
<1> QED
  BY <1>2, <1>6, <1>7, <1>8, <1>9 DEF LocksHeld

\* Whatever w does, it locks no other rows.
LEMMA OwnLocksKept ==
  ASSUME Typed, Locked, NEW w \in Workers, StepBy(w)
  PROVE  LocksHeld(w)' /\ LocksCommitted(w)
<1>1. ASSUME NEW p \in Platforms, NEW request \in Requests(p), Start(w, request)
      PROVE  LocksHeld(w)' /\ LocksCommitted(w)
  BY <1>1, StartKeepsLocks
<1>2. CASE IsRolledBack(w) \/ IsCommitted(w)
  BY <1>2, EndReleasesLocks
<1>3. CASE FindPlatform(w)
  <2>1. ASSUME NEW pc \in {"any platform", "existing", "end platform"}, NEW pid,
               Reads(w, pc, pid, txn[w].owner, txn[w].ending, txn[w].targets, txn[w].accepted)
        PROVE  LocksHeld(w)' /\ LocksCommitted(w)
    <3>1. txn[w].pc = "find platform"
      BY <1>3, FindPlatformEffect
    <3>2. /\ pc \notin {"lock platform", "lock activity"} /\ txn[w].pc # "answered"
          /\ txn[w].pc \notin WithPlatform \cup {"lock platform", "lock activity", "insert"}
      BY <3>1 DEF WithPlatform
    <3> QED
      BY <2>1, <3>2, ReadKeepsLocks
  <2> QED
    BY <1>2, <1>3, <2>1, FindPlatformEffect
<1>4. CASE AnyPlatform(w)
  BY <1>2, <1>4, AnyPlatformEffect, InsertPlatformKeepsLocks
<1>5. CASE EndPlatform(w) \/ EndActivity(w)
  BY <1>5, UpdateStarts
<1>6. CASE LockPlatform(w)
  <2>1. ASSUME NEW i \in txn[w].targets, LocksPlatform(w, i)
        PROVE  LocksHeld(w)' /\ LocksCommitted(w)
    BY <2>1, PlatformLockHeld
  <2>2. ASSUME NEW pc, pc = "answered",
               Reads(w, pc, txn[w].pid, txn[w].owner, txn[w].ending,
                     txn[w].targets, txn[w].accepted)
        PROVE  LocksHeld(w)' /\ LocksCommitted(w)
    <3>1. txn[w].pc = "lock platform"
      BY <1>6, LockPlatformEffect
    <3>2. /\ pc \notin {"lock platform", "lock activity"} /\ txn[w].pc # "answered"
          /\ pc \in WithPlatform /\ txn[w].pc \notin {"lock activity", "insert"}
      BY <2>2, <3>1 DEF WithPlatform
    <3> QED
      BY <2>2, <3>2, ReadKeepsLocks
  <2>3. CASE InsertsPlatform(w)
    BY <1>6, <2>3, LockPlatformEffect, InsertPlatformKeepsLocks
  <2> QED
    BY <1>6, <2>1, <2>2, <2>3, LockPlatformEffect
<1>7. CASE FindActivity(w)
  <2>1. ASSUME NEW pc \in {"any activity", "end activity"}, NEW owner, NEW ending,
               Reads(w, pc, txn[w].pid, owner, ending, txn[w].targets, txn[w].accepted)
        PROVE  LocksHeld(w)' /\ LocksCommitted(w)
    <3>1. txn[w].pc = "find activity"
      BY <1>7, FindActivityEffect
    <3>2. /\ pc \notin {"lock platform", "lock activity"} /\ txn[w].pc # "answered"
          /\ pc \in WithPlatform /\ txn[w].pc \notin {"lock activity", "insert"}
      BY <2>1, <3>1 DEF WithPlatform
    <3> QED
      BY <2>1, <3>2, ReadKeepsLocks
  <2> QED
    BY <1>2, <1>7, <2>1, FindActivityEffect
<1>8. CASE AnyActivity(w)
  <2>1. ASSUME NEW pc, pc = "insert",
               Reads(w, pc, txn[w].pid, txn[w].owner, txn[w].ending,
                     txn[w].targets, txn[w].accepted)
        PROVE  LocksHeld(w)' /\ LocksCommitted(w)
    <3>1. txn[w].pc = "any activity"
      BY <1>8, AnyActivityEffect
    <3>2. /\ pc \notin {"lock platform", "lock activity"} /\ txn[w].pc # "answered"
          /\ pc \in WithPlatform /\ txn[w].pc \notin {"lock activity", "insert"}
      BY <2>1, <3>1 DEF WithPlatform
    <3> QED
      BY <2>1, <3>2, ReadKeepsLocks
  <2> QED
    BY <1>2, <1>8, <2>1, AnyActivityEffect
<1>9. CASE FindDeactivated(w)
  <2>1. ASSUME NEW pc, pc = "current", NEW accepted,
               Reads(w, pc, txn[w].pid, txn[w].owner, txn[w].ending, txn[w].targets, accepted)
        PROVE  LocksHeld(w)' /\ LocksCommitted(w)
    <3>1. txn[w].pc = "deactivated"
      BY <1>9, FindDeactivatedEffect
    <3>2. /\ pc \notin {"lock platform", "lock activity"} /\ txn[w].pc # "answered"
          /\ pc \in WithPlatform /\ txn[w].pc \notin {"lock activity", "insert"}
      BY <2>1, <3>1 DEF WithPlatform
    <3> QED
      BY <2>1, <3>2, ReadKeepsLocks
  <2> QED
    BY <1>9, <2>1, FindDeactivatedEffect
<1>10. CASE FindCurrent(w)
  <2> DEFINE pc == IF EndingUnder(w) = {} THEN "insert" ELSE "end activity"
  <2>1. /\ txn[w].pc = "current"
        /\ Reads(w, pc, txn[w].pid, txn[w].pid, EndingUnder(w), txn[w].targets, txn[w].accepted)
    BY <1>10, FindCurrentEffect
  <2>2. /\ pc \notin {"lock platform", "lock activity"} /\ txn[w].pc # "answered"
        /\ pc \in WithPlatform /\ txn[w].pc \notin {"lock activity", "insert"}
    BY <2>1 DEF WithPlatform
  <2> HIDE DEF pc
  <2> QED
    BY <2>1, <2>2, ReadKeepsLocks
<1>11. CASE LockActivity(w)
  <2>1. ASSUME NEW i \in txn[w].targets, LocksActivity(w, i)
        PROVE  LocksHeld(w)' /\ LocksCommitted(w)
    BY <2>1, ActivityLockHeld
  <2>2. ASSUME NEW pc \in {"answered", "insert"},
               Reads(w, pc, txn[w].pid, txn[w].owner, txn[w].ending,
                     txn[w].targets, txn[w].accepted)
        PROVE  LocksHeld(w)' /\ LocksCommitted(w)
    <3>1. txn[w].pc = "lock activity"
      BY <1>11, LockActivityEffect
    <3>2. /\ pc \notin {"lock platform", "lock activity"} /\ txn[w].pc # "answered"
          /\ pc \in WithPlatform
      BY <2>2, <3>1 DEF WithPlatform
    <3> QED
      BY <2>2, <3>2, ReadKeepsLocks
  <2> DEFINE pc == IF txn[w].request.kind = "end activity" THEN "answered" ELSE "insert"
  <2>3. pc \in {"answered", "insert"}
    OBVIOUS
  <2>4. \/ \E i \in txn[w].targets : LocksActivity(w, i)
        \/ Reads(w, pc, txn[w].pid, txn[w].owner, txn[w].ending, txn[w].targets, txn[w].accepted)
    BY <1>11, LockActivityEffect
  <2> HIDE DEF pc
  <2> QED
    BY <2>1, <2>2, <2>3, <2>4
<1>12. CASE InsertAndAnswer(w)
  BY <1>12, InsertKeepsLocks
<1>13. CASE Commit(w)
  BY <1>2, <1>13, CommitEffect
<1>14. CASE Crash(w) \/ DeadlockDetected(w)
  BY <1>2, <1>14, FailureEffect
<1>15. CASE FindExisting(w)
  <2>1. ASSUME NEW pc, pc = "deactivated",
               Reads(w, pc, txn[w].pid, txn[w].owner, txn[w].ending,
                     txn[w].targets, txn[w].accepted)
        PROVE  LocksHeld(w)' /\ LocksCommitted(w)
    <3>1. txn[w].pc = "existing"
      BY <1>15, FindExistingEffect
    <3>2. /\ pc \notin {"lock platform", "lock activity"} /\ txn[w].pc # "answered"
          /\ pc \in WithPlatform /\ txn[w].pc \notin {"lock activity", "insert"}
      BY <2>1, <3>1 DEF WithPlatform
    <3> QED
      BY <2>1, <3>2, ReadKeepsLocks
  <2> QED
    BY <1>15, <2>1, FindExistingEffect
<1> QED
  BY <1>1, <1>3, <1>4, <1>5, <1>6, <1>7, <1>8, <1>9, <1>10, <1>11, <1>12, <1>13, <1>14, <1>15
  DEF StepBy, Step

\* What others hold stays theirs.
LEMMA OthersKeepLocks ==
  ASSUME Typed, Locked, NEW w \in Workers, StepBy(w), NEW v \in Workers \ {w}
  PROVE  LocksHeld(v)'
<1>1. /\ StepOf(platform, platform', w, txn[w].time)
      /\ StepOf(activity, activity', w, txn[w].time) /\ Untouched(v)
      /\ \A i \in DOMAIN activity : activity'[i].platform = activity[i].platform
  BY EffectOfStep DEF StepEffect, Frame
<1>2. w \notin {"committed", "aborted", "nobody"} /\ v \notin {"committed", "aborted", "nobody"}
  BY WorkerTypes
<1>3. LocksHeld(v)
  BY DEF Locked
<1>4. v # w /\ v \in Workers
  OBVIOUS
<1> DEFINE t == txn[w].time
           platforms == platform'
           activities == activity'
<1> HIDE DEF t, platforms, activities
<1>5. /\ \A i \in DOMAIN platform : /\ (platforms[i].by = v) <=> (platform[i].by = v)
                                    /\ (platforms[i].endedBy = v) <=> (platform[i].endedBy = v)
      /\ \A i \in DOMAIN platforms : (platforms[i].by = v \/ platforms[i].endedBy = v) => i \in DOMAIN platform
  <2>1. StepOf(platform, platforms, w, t)
    BY <1>1 DEF platforms, t
  <2> QED
    BY <1>4, <1>2, <2>1 DEF StepOf
<1>6. /\ \A i \in DOMAIN activity : /\ (activities[i].by = v) <=> (activity[i].by = v)
                                    /\ (activities[i].endedBy = v) <=> (activity[i].endedBy = v)
      /\ \A i \in DOMAIN activities : (activities[i].by = v \/ activities[i].endedBy = v) => i \in DOMAIN activity
  <2>1. StepOf(activity, activities, w, t)
    BY <1>1 DEF activities, t
  <2> QED
    BY <1>4, <1>2, <2>1 DEF StepOf
<1>7. /\ \A i \in DOMAIN platform : platform'[i].fid = platform[i].fid
      /\ \A i \in DOMAIN activity : activity'[i].fid = activity[i].fid
  BY <1>1 DEF StepOf
<1>8. /\ \A i \in Committed(platform) : i \in Committed(platform') /\ platform'[i].fid = platform[i].fid
      /\ \A i \in Committed(activity) :
           /\ i \in Committed(activity') /\ i \in DOMAIN activity
           /\ activity'[i].fid = activity[i].fid
  BY <1>1, <1>2, <1>7, StepKeepsCommitted DEF Committed
<1>9. /\ txn'[v].pc = txn[v].pc /\ txn'[v].request = txn[v].request
      /\ txn'[v].ending = txn[v].ending /\ txn'[v].targets = txn[v].targets
      /\ txn'[v].owner = txn[v].owner
  BY <1>1 DEF Untouched
<1>10. \A i \in DOMAIN activities : activities[i].endedBy = v =>
          /\ txn[v].pc \in {"lock activity", "insert", "answered"}
          /\ activity'[i].fid \in txn[v].ending /\ activity'[i].platform = txn[v].owner
  <2> SUFFICES ASSUME NEW i \in DOMAIN activities, activities[i].endedBy = v
               PROVE  /\ txn[v].pc \in {"lock activity", "insert", "answered"}
                      /\ activity'[i].fid \in txn[v].ending /\ activity'[i].platform = txn[v].owner
    OBVIOUS
  <2>1. i \in DOMAIN activity /\ activity[i].endedBy = v
    BY <1>6
  <2>2. /\ txn[v].pc \in {"lock activity", "insert", "answered"}
        /\ activity[i].fid \in txn[v].ending /\ activity[i].platform = txn[v].owner
    BY <1>3, <2>1 DEF LocksHeld
  <2>3. activity'[i].fid = activity[i].fid /\ activity'[i].platform = activity[i].platform
    BY <1>1, <1>7, <2>1
  <2> QED
    BY <2>2, <2>3
<1>11. txn[v].pc = "lock activity" => \A i \in txn[v].targets :
          /\ i \in Committed(activity')
          /\ activity'[i].fid \in txn[v].ending /\ activity'[i].platform = txn[v].owner
  <2> SUFFICES ASSUME txn[v].pc = "lock activity", NEW i \in txn[v].targets
               PROVE  /\ i \in Committed(activity')
                      /\ activity'[i].fid \in txn[v].ending /\ activity'[i].platform = txn[v].owner
    OBVIOUS
  <2>1. /\ i \in Committed(activity)
        /\ activity[i].fid \in txn[v].ending /\ activity[i].platform = txn[v].owner
    BY <1>3 DEF LocksHeld
  <2>2. /\ i \in Committed(activity') /\ i \in DOMAIN activity
        /\ activity'[i].fid = activity[i].fid
    BY <1>8, <2>1
  <2>3. activity'[i].platform = activity[i].platform
    BY <1>1, <2>2
  <2> QED
    BY <2>1, <2>2, <2>3
<1>12. /\ \A i \in DOMAIN platforms : platforms[i].endedBy = v =>
            /\ txn[v].pc \in WithPlatform \cup {"lock platform"}
            /\ platform'[i].fid = txn[v].request.platform
       /\ txn[v].pc = "lock platform" => \A i \in txn[v].targets :
            i \in Committed(platform') /\ platform'[i].fid = txn[v].request.platform
  <2>1. ASSUME NEW i \in DOMAIN platforms, platforms[i].endedBy = v
        PROVE  /\ txn[v].pc \in WithPlatform \cup {"lock platform"}
               /\ platform'[i].fid = txn[v].request.platform
    <3>1. i \in DOMAIN platform /\ platform[i].endedBy = v
      BY <1>5, <2>1
    <3>2. /\ txn[v].pc \in WithPlatform \cup {"lock platform"}
          /\ platform[i].fid = txn[v].request.platform
      BY <1>3, <3>1 DEF LocksHeld
    <3> QED
      BY <1>7, <3>1, <3>2
  <2>2. ASSUME txn[v].pc = "lock platform", NEW i \in txn[v].targets
        PROVE  i \in Committed(platform') /\ platform'[i].fid = txn[v].request.platform
    <3>1. i \in Committed(platform) /\ platform[i].fid = txn[v].request.platform
      BY <1>3, <2>2 DEF LocksHeld
    <3> QED
      BY <1>8, <3>1
  <2> QED
    BY <2>1, <2>2
<1>13. /\ \A i \in DOMAIN platforms : platforms[i].by = v =>
            txn[v].pc \in WithPlatform /\ txn[v].request.kind \in {"post", "bulk"}
       /\ \A i \in DOMAIN activities : activities[i].by = v =>
            txn[v].pc = "answered" /\ txn[v].request.kind \in {"post", "bulk"}
  BY <1>3, <1>5, <1>6 DEF LocksHeld
<1>14. /\ \A i \in DOMAIN platform' : platform'[i].endedBy = v =>
            /\ txn'[v].pc \in WithPlatform \cup {"lock platform"}
            /\ platform'[i].fid = txn'[v].request.platform
       /\ txn'[v].pc = "lock platform" => \A i \in txn'[v].targets :
            i \in Committed(platform') /\ platform'[i].fid = txn'[v].request.platform
       /\ \A i \in DOMAIN platform' : platform'[i].by = v =>
            txn'[v].pc \in WithPlatform /\ txn'[v].request.kind \in {"post", "bulk"}
  <2>1. \A i \in DOMAIN platform' : platform'[i].endedBy = v =>
           /\ txn'[v].pc \in WithPlatform \cup {"lock platform"}
           /\ platform'[i].fid = txn'[v].request.platform
    BY <1>9, <1>12 DEF platforms
  <2>2. \A i \in DOMAIN platform' : platform'[i].by = v =>
           txn'[v].pc \in WithPlatform /\ txn'[v].request.kind \in {"post", "bulk"}
    BY <1>9, <1>13 DEF platforms
  <2>3. txn'[v].pc = "lock platform" => \A i \in txn'[v].targets :
           i \in Committed(platform') /\ platform'[i].fid = txn'[v].request.platform
    <3> SUFFICES ASSUME txn'[v].pc = "lock platform", NEW i \in txn'[v].targets
                 PROVE  i \in Committed(platform') /\ platform'[i].fid = txn'[v].request.platform
      OBVIOUS
    <3>1. txn[v].pc = "lock platform" /\ i \in txn[v].targets
      BY <1>9
    <3>2. i \in Committed(platform') /\ platform'[i].fid = txn[v].request.platform
      BY <1>12, <3>1
    <3> QED
      BY <1>9, <3>2
  <2> QED
    BY <2>1, <2>2, <2>3
<1>15. /\ \A i \in DOMAIN activity' : activity'[i].endedBy = v =>
            /\ txn'[v].pc \in {"lock activity", "insert", "answered"}
            /\ activity'[i].fid \in txn'[v].ending /\ activity'[i].platform = txn'[v].owner
       /\ \A i \in DOMAIN activity' : activity'[i].by = v =>
            txn'[v].pc = "answered" /\ txn'[v].request.kind \in {"post", "bulk"}
  BY <1>9, <1>10, <1>13 DEF activities
<1>16. txn'[v].pc = "lock activity" => \A i \in txn'[v].targets :
          /\ i \in Committed(activity')
          /\ activity'[i].fid \in txn'[v].ending /\ activity'[i].platform = txn'[v].owner
  BY <1>9, <1>11
<1> QED
  BY <1>14, <1>15, <1>16 DEF LocksHeld

\* What is locked survives every step.
LEMMA LockedKept ==
  ASSUME Typed, Locked, NEW w \in Workers, StepBy(w)
  PROVE  Locked'
<1>1. /\ Tables(w) /\ platform \in Seq(PlatformRow) /\ activity \in Seq(ActivityRow)
  BY TablesOfStep DEF Typed
<1>2. LocksCommitted(w) /\ \A v \in Workers : LocksHeld(v)'
  BY OwnLocksKept, OthersKeepLocks
<1>3. /\ RowsMarked(platform, Workers) /\ RowsMarked(activity, Workers)
      /\ Workers \cap {"committed", "aborted", "nobody"} = {}
  BY TransactionConstantsAssumption DEF Locked
<1>4. CASE Started(w)
  <2>1. txn[w].time \in Timestamps
    BY <1>4, WorkerTypes
  <2>2. /\ TableStep(PlatformRow, platform, platform', w, txn[w].time)
        /\ TableStep(ActivityRow, activity, activity', w, txn[w].time)
    BY <1>1 DEF Tables, TableStep, IsCommitted
  <2>3. RowsMarked(platform', Workers)
    BY <1>1, <1>2, <1>3, <2>1, <2>2, RowsMarkedKept, PlatformRowsTakeMarks DEF LocksCommitted
  <2>4. RowsMarked(activity', Workers)
    BY <1>1, <1>2, <1>3, <2>1, <2>2, RowsMarkedKept, ActivityRowsTakeMarks DEF LocksCommitted
  <2> QED
    BY <1>2, <2>3, <2>4 DEF Locked, RowsMarked
<1>5. CASE ~Started(w)
  BY <1>2, <1>3, <1>5, OnlyStarts DEF Locked, RowsMarked
<1> QED
  BY <1>4, <1>5

-----------------------------------------------------------------------------
\* However requests interleave, no step rewrites what is committed.
LEMMA StepKeepsHistory ==
  ASSUME Typed, Locked, NEW w \in Workers, StepBy(w)
  PROVE  CommittedContinues(platform, platform') /\ CommittedContinues(activity, activity')
<1>1. /\ Tables(w) /\ platform \in Seq(PlatformRow) /\ activity \in Seq(ActivityRow)
      /\ w \notin {"committed", "aborted", "nobody"}
  BY TablesOfStep, WorkerTypes DEF Typed
<1>2. RowsMarked(platform, Workers) /\ RowsMarked(activity, Workers)
  BY DEF Locked
<1>3. CASE Started(w)
  <2>1. txn[w].time \in Timestamps
    BY <1>3, WorkerTypes
  <2>2. /\ TableStep(PlatformRow, platform, platform', w, txn[w].time)
        /\ TableStep(ActivityRow, activity, activity', w, txn[w].time)
    BY <1>1 DEF Tables, TableStep, IsCommitted
  <2>3. CommittedContinues(platform, platform')
    BY <1>1, <1>2, <2>1, <2>2, TableStepContinues, PlatformRowsTakeMarks, RowsKeepHistory
  <2>4. CommittedContinues(activity, activity')
    BY <1>1, <1>2, <2>1, <2>2, TableStepContinues, ActivityRowsTakeMarks, RowsKeepHistory
  <2> QED
    BY <2>3, <2>4
<1>4. CASE ~Started(w)
  BY <1>4, OnlyStarts DEF CommittedContinues
<1> QED
  BY <1>3, <1>4

-----------------------------------------------------------------------------
(***************************************************************************)
(* What a request inserts                                                  *)
(***************************************************************************)

\* The uncommitted rows of a report are its own: the version it has inserted,
\* if it did not reuse one, and the activities of its answer, which replace all
\* those it has ended.
OwnRows(w) ==
  /\ \A i \in DOMAIN platform : platform[i].by = w =>
       /\ Reporting(w) /\ txn[w].pc \in WithPlatform
       /\ i = txn[w].pid
       /\ platform[i].createdAt = txn[w].time
  /\ \A i \in DOMAIN activity : activity[i].by = w =>
       /\ Reporting(w) /\ txn[w].pc = "answered"
       /\ activity[i].platform = txn[w].pid
       /\ activity[i].createdAt = txn[w].time
  /\ Reporting(w) /\ txn[w].pc \in WithPlatform =>
       /\ platform[txn[w].pid].by \in {"committed", w}
       /\ platform[txn[w].pid].fid = txn[w].request.platform
       /\ txn[w].request.kind = "post" => platform[txn[w].pid].by = w
       /\ \A i \in DOMAIN platform : platform[i].endedBy = w => platform[txn[w].pid].by = w
  /\ Reporting(w) /\ txn[w].pc \notin {"end activity", "lock activity", "insert", "answered"} =>
       txn[w].ending = {}
  /\ Reporting(w) /\ txn[w].pc \in {"end activity", "lock activity", "insert"} =>
       txn[w].ending \subseteq Range(InsertedIds(w))
  /\ Reporting(w) /\ txn[w].pc = "answered" =>
       \A x \in txn[w].ending : \E i \in DOMAIN activity : activity[i].by = w /\ activity[i].fid = x

Owned ==
  /\ \A i \in Committed(activity) : activity[i].platform \in Committed(platform)
  /\ \A w \in Workers : OwnRows(w)

\* A statement before the platform version is settled finds nothing of its own.
LEMMA NothingOwned ==
  ASSUME Owned, NEW w \in Workers
  PROVE  /\ OwnRows(w)
         /\ (txn[w].pc \notin WithPlatform \/ ~Reporting(w))
              => \A i \in DOMAIN platform : platform[i].by # w
         /\ (txn[w].pc # "answered" \/ ~Reporting(w))
              => \A i \in DOMAIN activity : activity[i].by # w
BY DEF Owned, OwnRows

\* Statements that read, or lock a row, of a request that keeps its version.
LEMMA GoesOnKeepsOwn ==
  ASSUME Typed, Owned, NEW w \in Workers, Started(w), NEW pc, NEW pid, NEW owner, NEW ending,
         NEW targets, NEW accepted, GoesOn(w, pc, pid, owner, ending, targets, accepted),
         txn[w].pc \in WithPlatform <=> pc \in WithPlatform, txn[w].pc \in WithPlatform => pid = txn[w].pid,
         pc # "idle", txn[w].pc # "answered",
         DOMAIN platform' = DOMAIN platform, DOMAIN activity' = DOMAIN activity,
         \A i \in DOMAIN platform :
           /\ platform'[i].by = platform[i].by /\ platform'[i].createdAt = platform[i].createdAt
           /\ platform'[i].fid = platform[i].fid
           /\ (platform'[i].endedBy = w /\ txn[w].pc \in WithPlatform) => platform[i].endedBy = w,
         \A i \in DOMAIN activity : activity'[i].by = activity[i].by,
         (Reporting(w) /\ pc \notin {"end activity", "lock activity", "insert"})
            => ending = {},
         (Reporting(w) /\ pc \in {"end activity", "lock activity", "insert"})
            => ending \subseteq Range(InsertedIds(w)')
  PROVE  OwnRows(w)'
<1>1. /\ txn'[w].pc = pc /\ txn'[w].request = txn[w].request /\ txn'[w].pid = pid
      /\ txn'[w].ending = ending /\ txn'[w].time = txn[w].time
  BY DEF GoesOn
<1>2. Reporting(w)' <=> Reporting(w)
  BY <1>1 DEF Reporting, Started
<1>3. OwnRows(w)
  BY DEF Owned
<1>4. \A i \in DOMAIN activity : activity[i].by # w
  BY NothingOwned
<1>5. ASSUME NEW i \in DOMAIN platform, platform[i].by = w
      PROVE  /\ Reporting(w) /\ pc \in WithPlatform /\ i = pid
             /\ platform[i].createdAt = txn[w].time
  BY <1>3, <1>5 DEF OwnRows
<1>6. ASSUME Reporting(w), pc \in WithPlatform
      PROVE  /\ pid \in DOMAIN platform
             /\ platform[pid].by \in {"committed", w}
             /\ platform[pid].fid = txn[w].request.platform
             /\ txn[w].request.kind = "post" => platform[pid].by = w
             /\ \A i \in DOMAIN platform : platform[i].endedBy = w => platform[pid].by = w
  BY <1>3, <1>6 DEF OwnRows, Typed, RequestKept
<1>7. /\ \A i \in DOMAIN platform' : platform'[i].by = w =>
           /\ Reporting(w)' /\ txn'[w].pc \in WithPlatform
           /\ i = txn'[w].pid /\ platform'[i].createdAt = txn'[w].time
      /\ \A i \in DOMAIN activity' : activity'[i].by # w
  BY <1>1, <1>2, <1>4, <1>5
<1>8. (Reporting(w)' /\ txn'[w].pc \in WithPlatform) =>
        /\ platform'[txn'[w].pid].by \in {"committed", w}
        /\ platform'[txn'[w].pid].fid = txn'[w].request.platform
        /\ txn'[w].request.kind = "post" => platform'[txn'[w].pid].by = w
        /\ \A i \in DOMAIN platform' : platform'[i].endedBy = w => platform'[txn'[w].pid].by = w
  BY <1>1, <1>2, <1>6
<1>9. /\ (Reporting(w)' /\ txn'[w].pc \notin {"end activity", "lock activity", "insert"}) =>
           txn'[w].ending = {}
      /\ (Reporting(w)' /\ txn'[w].pc \in {"end activity", "lock activity", "insert"}) =>
           txn'[w].ending \subseteq Range(InsertedIds(w)')
  BY <1>1, <1>2
<1> QED
  BY <1>7, <1>8, <1>9 DEF OwnRows

\* A transaction that has ended, and one that starts, own nothing.
LEMMA EndsOwnNothing ==
  ASSUME Typed, NEW w \in Workers, IsRolledBack(w) \/ IsCommitted(w)
  PROVE  OwnRows(w)'
<1>1. w \notin {"committed", "aborted", "nobody"}
  BY WorkerTypes
<1>2. /\ \A i \in DOMAIN platform' : platform'[i].by # w
      /\ \A i \in DOMAIN activity' : activity'[i].by # w
  <2>1. CASE IsRolledBack(w)
    BY <1>1, <2>1, RowsOfRollBack, EndedHoldsNothing
  <2>2. CASE IsCommitted(w)
    BY <1>1, <2>2, RowsOfCommit, EndedHoldsNothing
  <2> QED
    BY <2>1, <2>2
<1>3. txn'[w].pc = "idle"
  BY DEF IsRolledBack, IsCommitted, Ends, Idle
<1>4. ~Reporting(w)'
  BY <1>3 DEF Reporting, Started
<1> QED
  BY <1>2, <1>4 DEF OwnRows

\* A request that starts.
LEMMA StartOwnsNothing ==
  ASSUME Typed, Owned, NEW w \in Workers, NEW p \in Platforms, NEW request \in Requests(p),
         Start(w, request)
  PROVE  OwnRows(w)'
<1>1. ~Started(w) /\ UNCHANGED <<platform, activity>> /\ txn'[w].request = request
  BY StartEffect
<1>2. /\ \A i \in DOMAIN platform : platform[i].by # w
      /\ \A i \in DOMAIN activity : activity[i].by # w
  BY <1>1, NothingOwned DEF Reporting
<1>3. CASE request.kind \in {"post", "bulk"}
  <2>1. txn'[w].pc = "find platform" /\ txn'[w].ending = {}
    BY <1>3, StartEffect
  <2> QED
    BY <1>1, <1>2, <2>1 DEF OwnRows, WithPlatform
<1>4. CASE request.kind \notin {"post", "bulk"}
  <2>1. ~Reporting(w)'
    BY <1>1, <1>4 DEF Reporting
  <2> QED
    BY <1>1, <1>2, <2>1 DEF OwnRows
<1> QED
  BY <1>3, <1>4

\* The bulk flow reuses a version it finds.
LEMMA ReuseKeepsOwn ==
  ASSUME Typed, Locked, Owned, NEW w \in Workers, Started(w), txn[w].pc = "find platform",
         txn[w].request.kind = "bulk",
         NEW i \in CurrentTo(w, platform, txn[w].request.platform), NEW pc, pc = "existing",
         Reads(w, pc, i, txn[w].owner, txn[w].ending, txn[w].targets, txn[w].accepted)
  PROVE  OwnRows(w)'
<1>1. /\ OwnRows(w) /\ LocksHeld(w) /\ Reporting(w) /\ txn[w].pc \notin WithPlatform
      /\ txn[w].pc # "answered"
  BY DEF Owned, Locked, Reporting, WithPlatform
<1>2. /\ \A j \in DOMAIN platform : platform[j].by # w /\ platform[j].endedBy # w
      /\ \A j \in DOMAIN activity : activity[j].by # w
  BY <1>1 DEF OwnRows, LocksHeld
<1>3. i \in DOMAIN platform /\ platform[i].fid = txn[w].request.platform /\ platform[i].by = "committed"
  BY <1>2 DEF CurrentTo, VisibleTo, Versions
<1>4. txn[w].ending = {}
  BY <1>1 DEF OwnRows
<1>5. /\ txn'[w].pc = "existing" /\ txn'[w].request = txn[w].request /\ txn'[w].pid = i
      /\ txn'[w].ending = {} /\ UNCHANGED <<platform, activity>>
  BY <1>4 DEF Reads, GoesOn
<1> QED
  BY <1>2, <1>3, <1>5 DEF OwnRows

\* The platform version a report inserts is the one it uses.
LEMMA InsertPlatformOwns ==
  ASSUME Typed, Locked, Owned, NEW w \in Workers, InsertsPlatform(w),
         txn[w].pc \in {"any platform", "lock platform"}
  PROVE  OwnRows(w)'
<1> DEFINE n == Len(platform) + 1
<1>1. /\ OwnRows(w) /\ Reporting(w) /\ txn[w].pc \notin WithPlatform /\ txn[w].pc # "answered"
  BY DEF Owned, WithPlatform, InsertsPlatform
<1>2. /\ \A j \in DOMAIN platform : platform[j].by # w
      /\ \A j \in DOMAIN activity : activity[j].by # w
      /\ txn[w].ending = {}
  BY <1>1 DEF OwnRows
<1>3. /\ n \in DOMAIN platform'
      /\ \A i \in DOMAIN platform' : i # n => i \in DOMAIN platform /\ platform'[i] = platform[i]
      /\ platform'[n].by = w /\ platform'[n].createdAt = txn[w].time
      /\ platform'[n].fid = txn[w].request.platform
  BY RowsOfInsertPlatform
<1>4. /\ txn'[w].request = txn[w].request /\ txn'[w].time = txn[w].time /\ txn'[w].pid = n
      /\ txn'[w].ending = {} /\ txn'[w].pc = AfterPlatform(txn[w].request)
      /\ UNCHANGED activity
  BY <1>2 DEF InsertsPlatform, GoesOn
<1>5. txn'[w].pc \in {"find activity", "insert", "existing"}
  BY <1>1, <1>4, AfterPlatformType
<1>6. Reporting(w)' /\ txn'[w].pc \in WithPlatform
  BY <1>1, <1>4, <1>5 DEF Reporting, Started, WithPlatform
<1>7. txn'[w].pc # "answered"
  BY <1>5
<1> HIDE DEF n
<1>8. \A i \in DOMAIN platform' : platform'[i].by = w => i = n
  BY <1>2, <1>3
<1> QED
  BY <1>2, <1>3, <1>4, <1>6, <1>7, <1>8 DEF OwnRows

\* The answer lists what was inserted, and that replaces what was ended.
LEMMA InsertOwns ==
  ASSUME Typed, Owned, NEW w \in Workers, InsertAndAnswer(w)
  PROVE  OwnRows(w)'
<1>1. /\ txn[w].pc = "insert" /\ Reporting(w) /\ UNCHANGED platform
      /\ GoesOn(w, "answered", txn[w].pid, txn[w].owner, txn[w].ending,
                txn[w].targets, InsertedIds(w))
  BY InsertAndAnswerEffect
<1>2. /\ txn'[w].pc = "answered" /\ txn'[w].request = txn[w].request /\ txn'[w].pid = txn[w].pid
      /\ txn'[w].ending = txn[w].ending /\ txn'[w].time = txn[w].time
  BY <1>1 DEF GoesOn
<1>3. Reporting(w)' /\ "answered" \in WithPlatform /\ txn[w].pc \in WithPlatform /\ txn[w].pc # "answered"
  BY <1>1, <1>2 DEF Reporting, Started, WithPlatform
<1>4. OwnRows(w) /\ \A i \in DOMAIN activity : activity[i].by # w
  BY <1>3, NothingOwned
<1>5. /\ \A i \in DOMAIN activity : i \in DOMAIN activity' /\ activity'[i] = activity[i]
      /\ \A k \in DOMAIN activity' \ DOMAIN activity :
           activity'[k].platform = txn[w].pid /\ activity'[k].createdAt = txn[w].time
      /\ \A n \in DOMAIN InsertedIds(w) :
           /\ Len(activity) + n \in DOMAIN activity'
           /\ activity'[Len(activity) + n].fid = InsertedIds(w)[n]
           /\ activity'[Len(activity) + n].by = w
  BY RowsOfInsert
<1>6. \A i \in DOMAIN activity' : activity'[i].by = w =>
        activity'[i].platform = txn[w].pid /\ activity'[i].createdAt = txn[w].time
  BY <1>4, <1>5
<1>7. \A x \in txn[w].ending : \E i \in DOMAIN activity' : activity'[i].by = w /\ activity'[i].fid = x
  <2>1. txn[w].ending \subseteq Range(InsertedIds(w))
    BY <1>1, <1>4 DEF OwnRows
  <2> SUFFICES ASSUME NEW x \in txn[w].ending
               PROVE  \E i \in DOMAIN activity' : activity'[i].by = w /\ activity'[i].fid = x
    OBVIOUS
  <2>2. PICK n \in DOMAIN InsertedIds(w) : InsertedIds(w)[n] = x
    BY <2>1 DEF Range
  <2> QED
    BY <1>5, <2>2
<1>8. /\ \A i \in DOMAIN platform : platform[i].by = w =>
           i = txn[w].pid /\ platform[i].createdAt = txn[w].time
      /\ platform[txn[w].pid].by \in {"committed", w}
      /\ platform[txn[w].pid].fid = txn[w].request.platform
      /\ txn[w].request.kind = "post" => platform[txn[w].pid].by = w
      /\ \A i \in DOMAIN platform : platform[i].endedBy = w => platform[txn[w].pid].by = w
  BY <1>1, <1>3, <1>4 DEF OwnRows
<1> QED
  BY <1>1, <1>2, <1>3, <1>6, <1>7, <1>8 DEF OwnRows

\* Which ids the INSERT stores does not depend on the statement.
LEMMA InsertedIdsKept ==
  ASSUME NEW w, txn'[w].request = txn[w].request, txn'[w].accepted = txn[w].accepted,
         txn'[w].time = txn[w].time
  PROVE  InsertedIds(w)' = InsertedIds(w)
BY DEF InsertedIds

\* A statement that only reads, on either side of the platform version.
LEMMA ReadKeepsOwn ==
  ASSUME Typed, Owned, NEW w \in Workers, Started(w), NEW pc, NEW owner, NEW ending,
         NEW targets, NEW accepted, Reads(w, pc, txn[w].pid, owner, ending, targets, accepted),
         txn[w].pc \in WithPlatform <=> pc \in WithPlatform,
         pc # "idle", txn[w].pc # "answered",
         (Reporting(w) /\ pc \notin {"end activity", "lock activity", "insert"})
            => ending = {},
         (Reporting(w) /\ pc \in {"end activity", "lock activity", "insert"})
            => ending \subseteq Range(InsertedIds(w)')
  PROVE  OwnRows(w)'
<1>1. GoesOn(w, pc, txn[w].pid, owner, ending, targets, accepted) /\ UNCHANGED <<platform, activity>>
  BY DEF Reads
<1> QED
  BY <1>1, GoesOnKeepsOwn

\* Which is what a statement that keeps the ids to end comes to.
LEMMA ReadWithSameIds ==
  ASSUME Typed, Owned, NEW w \in Workers, Started(w), NEW pc, NEW targets,
         Reads(w, pc, txn[w].pid, txn[w].owner, txn[w].ending, targets, txn[w].accepted),
         txn[w].pc \in WithPlatform <=> pc \in WithPlatform,
         pc # "idle", txn[w].pc # "answered",
         Reporting(w) => /\ pc # "answered"
                         /\ txn[w].pc \in {"end activity", "lock activity", "insert"}
                              => pc \in {"end activity", "lock activity", "insert"}
  PROVE  OwnRows(w)'
<1>1. InsertedIds(w)' = InsertedIds(w)
  BY InsertedIdsKept DEF Reads, GoesOn
<1>2. OwnRows(w)
  BY DEF Owned
<1>3. (Reporting(w) /\ pc \notin {"end activity", "lock activity", "insert"})
        => txn[w].ending = {}
  BY <1>2 DEF OwnRows
<1>4. (Reporting(w) /\ pc \in {"end activity", "lock activity", "insert"})
        => txn[w].ending \subseteq Range(InsertedIds(w)')
  BY <1>1, <1>2 DEF OwnRows
<1> QED
  BY <1>3, <1>4, ReadKeepsOwn

\* A row is locked.
LEMMA LockKeepsOwn ==
  ASSUME Typed, Owned, NEW w \in Workers, Started(w),
         NEW i \in txn[w].targets, LocksPlatform(w, i) \/ LocksActivity(w, i)
  PROVE  OwnRows(w)'
<1> DEFINE pc == txn[w].pc
           targets == txn[w].targets \ {i}
<1>1. GoesOn(w, pc, txn[w].pid, txn[w].owner, txn[w].ending, targets, txn[w].accepted)
  BY DEF LocksPlatform, LocksActivity
<1>2. pc \in {"lock platform", "lock activity"} /\ pc # "idle" /\ pc # "answered"
  BY DEF LocksPlatform, LocksActivity
<1>3. /\ DOMAIN platform' = DOMAIN platform
      /\ \A j \in DOMAIN platform :
           /\ platform'[j].by = platform[j].by /\ platform'[j].createdAt = platform[j].createdAt
           /\ platform'[j].fid = platform[j].fid
           /\ (platform'[j].endedBy = w /\ txn[w].pc \in WithPlatform) => platform[j].endedBy = w
  <2>1. CASE LocksPlatform(w, i)
    <3>1. txn[w].pc \notin WithPlatform
      BY <2>1 DEF LocksPlatform, WithPlatform
    <3>2. /\ DOMAIN platform' = DOMAIN platform /\ RowEnded(platform[i], platform'[i], w)
          /\ \A j \in DOMAIN platform \ {i} : platform'[j] = platform[j]
      BY <2>1, RowsOfLockPlatform
    <3> QED
      BY <3>1, <3>2 DEF RowEnded
  <2>2. CASE LocksActivity(w, i)
    BY <2>2 DEF LocksActivity
  <2> QED
    BY <2>1, <2>2
<1>4. /\ DOMAIN activity' = DOMAIN activity
      /\ \A j \in DOMAIN activity : activity'[j].by = activity[j].by
  <2>1. CASE LocksPlatform(w, i)
    BY <2>1 DEF LocksPlatform
  <2>2. CASE LocksActivity(w, i)
    <3>1. /\ DOMAIN activity' = DOMAIN activity /\ RowEnded(activity[i], activity'[i], w)
          /\ \A j \in DOMAIN activity \ {i} : activity'[j] = activity[j]
      BY <2>2, RowsOfLockActivity
    <3> QED
      BY <3>1 DEF RowEnded
  <2> QED
    BY <2>1, <2>2
<1>5. InsertedIds(w)' = InsertedIds(w) /\ OwnRows(w)
  BY <1>1, InsertedIdsKept DEF GoesOn, Owned
<1>6. /\ (Reporting(w) /\ pc \notin {"end activity", "lock activity", "insert"})
           => txn[w].ending = {}
      /\ (Reporting(w) /\ pc \in {"end activity", "lock activity", "insert"})
           => txn[w].ending \subseteq Range(InsertedIds(w)')
  BY <1>2, <1>5 DEF OwnRows
<1> HIDE DEF pc, targets
<1>7. txn[w].pc \in WithPlatform <=> pc \in WithPlatform
  BY DEF pc
<1>8. txn[w].pc # "answered"
  BY <1>2 DEF pc
<1> QED
  BY <1>1, <1>2, <1>3, <1>4, <1>6, <1>7, <1>8, GoesOnKeepsOwn

\* Whatever w does, its uncommitted rows stay its own.
LEMMA OwnRowsKept ==
  ASSUME Typed, Locked, Owned, NEW w \in Workers, StepBy(w)
  PROVE  OwnRows(w)'
<1>1. ASSUME NEW p \in Platforms, NEW request \in Requests(p), Start(w, request)
      PROVE  OwnRows(w)'
  BY <1>1, StartOwnsNothing
<1>2. CASE IsRolledBack(w) \/ IsCommitted(w)
  BY <1>2, EndsOwnNothing
<1>3. CASE FindPlatform(w)
  <2>1. txn[w].pc = "find platform" /\ Started(w)
    BY <1>3, FindPlatformEffect DEF Started
  <2>2. ASSUME NEW pc \in {"any platform", "end platform"},
               Reads(w, pc, txn[w].pid, txn[w].owner, txn[w].ending, txn[w].targets, txn[w].accepted)
        PROVE  OwnRows(w)'
    <3>1. /\ txn[w].pc \in WithPlatform <=> pc \in WithPlatform
          /\ pc \notin {"idle", "answered"}
          /\ txn[w].pc \notin {"answered", "end activity", "lock activity", "insert"}
      BY <2>1 DEF WithPlatform
    <3> QED
      BY <2>1, <2>2, <3>1, ReadWithSameIds
  <2>3. ASSUME NEW i \in CurrentTo(w, platform, txn[w].request.platform),
               txn[w].request.kind = "bulk", NEW pc, pc = "existing",
               Reads(w, pc, i, txn[w].owner, txn[w].ending, txn[w].targets, txn[w].accepted)
        PROVE  OwnRows(w)'
    BY <2>1, <2>3, ReuseKeepsOwn
  <2> QED
    BY <1>2, <1>3, <2>2, <2>3, FindPlatformEffect
<1>4. CASE AnyPlatform(w)
  BY <1>2, <1>4, AnyPlatformEffect, InsertPlatformOwns
<1>5. CASE EndPlatform(w)
  <2>1. ASSUME NEW pc, pc = "lock platform",
               Reads(w, pc, txn[w].pid, txn[w].owner, txn[w].ending, PlatformTargets(w), txn[w].accepted)
        PROVE  OwnRows(w)'
    <3>1. txn[w].pc = "end platform" /\ Started(w)
      BY <1>5, EndPlatformEffect DEF Started
    <3>2. /\ txn[w].pc \in WithPlatform <=> pc \in WithPlatform
          /\ pc \notin {"idle", "answered"}
          /\ txn[w].pc \notin {"answered", "end activity", "lock activity", "insert"}
      BY <2>1, <3>1 DEF WithPlatform
    <3> QED
      BY <2>1, <3>1, <3>2, ReadWithSameIds
  <2> QED
    BY <1>5, <2>1, EndPlatformEffect
<1>6. CASE LockPlatform(w)
  <2>1. txn[w].pc = "lock platform" /\ Started(w)
    BY <1>6, LockPlatformEffect DEF Started
  <2>2. ASSUME NEW i \in txn[w].targets, LocksPlatform(w, i)
        PROVE  OwnRows(w)'
    BY <2>1, <2>2, LockKeepsOwn
  <2>3. CASE txn[w].request.kind = "end platform" /\ UNCHANGED <<platform, activity>>
             /\ txn'[w].request = txn[w].request
    <3>1. ~Reporting(w) /\ ~Reporting(w)'
      BY <2>3 DEF Reporting
    <3>2. /\ \A i \in DOMAIN platform : platform[i].by # w
          /\ \A i \in DOMAIN activity : activity[i].by # w
      BY <3>1, NothingOwned
    <3> QED
      BY <2>3, <3>1, <3>2 DEF OwnRows
  <2>4. CASE InsertsPlatform(w)
    BY <2>1, <2>4, InsertPlatformOwns
  <2> QED
    BY <1>6, <2>2, <2>3, <2>4, LockPlatformEffect DEF Reads, GoesOn
<1>7. CASE FindActivity(w)
  <2>1. /\ txn[w].pc = "find activity" /\ Started(w) /\ txn[w].request.kind = "post"
        /\ txn[w].request.ids[1] \in ActivityIds
    BY <1>7, FindActivityEffect DEF Started
  <2>2. ASSUME NEW pc, pc = "any activity",
               Reads(w, pc, txn[w].pid, txn[w].owner, txn[w].ending, txn[w].targets, txn[w].accepted)
        PROVE  OwnRows(w)'
    <3>1. /\ txn[w].pc \in WithPlatform <=> pc \in WithPlatform
          /\ pc \notin {"idle", "answered"}
          /\ txn[w].pc \notin {"answered", "end activity", "lock activity", "insert"}
      BY <2>1, <2>2 DEF WithPlatform
    <3> QED
      BY <2>1, <2>2, <3>1, ReadWithSameIds
  <2>3. ASSUME NEW pc, pc = "end activity", NEW owner, NEW ending, ending = {txn[w].request.ids[1]},
               Reads(w, pc, txn[w].pid, owner, ending, txn[w].targets, txn[w].accepted)
        PROVE  OwnRows(w)'
    <3>1. /\ txn[w].pc \in WithPlatform <=> pc \in WithPlatform
          /\ pc \in {"end activity", "lock activity", "insert"} /\ pc # "idle" /\ txn[w].pc # "answered"
      BY <2>1, <2>3 DEF WithPlatform
    <3>2. txn[w].request \in AllRequests
      BY <2>1, WorkerTypes
    <3>3. PICK x \in ActivityIds \cup {NoId} : txn[w].request.ids = <<x>>
      BY <2>1, <3>2, RequestTypes
    <3>4. txn[w].request.ids[1] # NoId
      BY <2>1, TransactionConstantsAssumption
    <3>5. InsertedIds(w)' = <<x>>
      BY <2>1, <2>3, <3>3, <3>4 DEF InsertedIds, Reads, GoesOn
    <3>6. ending \subseteq Range(InsertedIds(w)')
      <4>1. ending = {x}
        <5>1. txn[w].request.ids[1] = x
          BY <3>3
        <5> QED
          BY <2>3, <5>1
      <4>2. x \in Range(<<x>>)
        <5>1. 1 \in DOMAIN <<x>> /\ <<x>>[1] = x
          OBVIOUS
        <5> QED
          BY <5>1 DEF Range
      <4> QED
        BY <3>5, <4>1, <4>2
    <3> QED
      BY <2>1, <2>3, <3>1, <3>6, ReadKeepsOwn
  <2> QED
    BY <1>2, <1>7, <2>2, <2>3, FindActivityEffect
<1>8. CASE AnyActivity(w)
  <2>1. ASSUME NEW pc, pc = "insert",
               Reads(w, pc, txn[w].pid, txn[w].owner, txn[w].ending, txn[w].targets, txn[w].accepted)
        PROVE  OwnRows(w)'
    <3>1. txn[w].pc = "any activity" /\ Started(w)
      BY <1>8, AnyActivityEffect DEF Started
    <3>2. OwnRows(w) /\ (Reporting(w) => txn[w].ending = {})
      BY <3>1 DEF Owned, OwnRows
    <3>3. /\ txn[w].pc \in WithPlatform <=> pc \in WithPlatform
          /\ pc \in {"end activity", "lock activity", "insert"} /\ pc # "idle" /\ txn[w].pc # "answered"
      BY <2>1, <3>1 DEF WithPlatform
    <3> QED
      BY <2>1, <3>1, <3>2, <3>3, ReadKeepsOwn
  <2> QED
    BY <1>2, <1>8, <2>1, AnyActivityEffect
<1>9. CASE FindDeactivated(w)
  <2>1. ASSUME NEW pc, pc = "current", NEW accepted,
               Reads(w, pc, txn[w].pid, txn[w].owner, txn[w].ending, txn[w].targets, accepted)
        PROVE  OwnRows(w)'
    <3>1. txn[w].pc = "deactivated" /\ Started(w)
      BY <1>9, FindDeactivatedEffect DEF Started
    <3>2. OwnRows(w) /\ (Reporting(w) => txn[w].ending = {})
      BY <3>1 DEF Owned, OwnRows
    <3>3. /\ txn[w].pc \in WithPlatform <=> pc \in WithPlatform
          /\ pc \notin {"end activity", "lock activity", "insert"} /\ pc # "idle"
          /\ txn[w].pc # "answered"
      BY <2>1, <3>1 DEF WithPlatform
    <3> QED
      BY <2>1, <3>1, <3>2, <3>3, ReadKeepsOwn
  <2> QED
    BY <1>9, <2>1, FindDeactivatedEffect
<1>10. CASE FindCurrent(w)
  <2> DEFINE pc == IF EndingUnder(w) = {} THEN "insert" ELSE "end activity"
  <2>1. /\ txn[w].pc = "current" /\ txn[w].request.kind = "bulk" /\ Started(w)
        /\ Reads(w, pc, txn[w].pid, txn[w].pid, EndingUnder(w), txn[w].targets, txn[w].accepted)
    BY <1>10, FindCurrentEffect DEF Started
  <2>2. /\ txn[w].pc \in WithPlatform <=> pc \in WithPlatform
        /\ pc \in {"end activity", "lock activity", "insert"} /\ pc # "idle" /\ txn[w].pc # "answered"
    BY <2>1 DEF WithPlatform
  <2> HIDE DEF pc
  <2>3. InsertedIds(w)' = txn[w].accepted
    BY <2>1 DEF InsertedIds, Reads, GoesOn
  <2>4. EndingUnder(w) \subseteq Range(InsertedIds(w)')
    BY <2>3 DEF EndingUnder
  <2> QED
    BY <2>1, <2>2, <2>4, ReadKeepsOwn
<1>11. CASE EndActivity(w)
  <2>1. ASSUME NEW pc, pc = "lock activity",
               Reads(w, pc, txn[w].pid, txn[w].owner, txn[w].ending, ActivityTargets(w), txn[w].accepted)
        PROVE  OwnRows(w)'
    <3>1. txn[w].pc = "end activity" /\ Started(w)
      BY <1>11, EndActivityEffect DEF Started
    <3>2. /\ txn[w].pc \in WithPlatform <=> pc \in WithPlatform
          /\ pc \in {"end activity", "lock activity", "insert"} /\ pc # "idle" /\ pc # "answered"
          /\ txn[w].pc # "answered"
      BY <2>1, <3>1 DEF WithPlatform
    <3> QED
      BY <2>1, <3>1, <3>2, ReadWithSameIds
  <2> QED
    BY <1>11, <2>1, EndActivityEffect
<1>12. CASE LockActivity(w)
  <2>1. txn[w].pc = "lock activity" /\ Started(w)
    BY <1>12, LockActivityEffect DEF Started
  <2>2. ASSUME NEW i \in txn[w].targets, LocksActivity(w, i)
        PROVE  OwnRows(w)'
    BY <2>1, <2>2, LockKeepsOwn
  <2> DEFINE pc == IF txn[w].request.kind = "end activity" THEN "answered" ELSE "insert"
  <2>3. CASE Reads(w, pc, txn[w].pid, txn[w].owner, txn[w].ending, txn[w].targets, txn[w].accepted)
    <3>1. /\ txn[w].pc \in WithPlatform <=> pc \in WithPlatform
          /\ pc # "idle" /\ txn[w].pc # "answered"
      BY <2>1 DEF WithPlatform
    <3>2. Reporting(w) => pc # "answered" /\ pc \in {"end activity", "lock activity", "insert"}
      BY DEF Reporting
    <3> HIDE DEF pc
    <3> QED
      BY <2>1, <2>3, <3>1, <3>2, ReadWithSameIds
  <2> QED
    BY <1>12, <2>2, <2>3, LockActivityEffect
<1>13. CASE InsertAndAnswer(w)
  BY <1>13, InsertOwns
<1>14. CASE Commit(w)
  BY <1>2, <1>14, CommitEffect
<1>15. CASE Crash(w) \/ DeadlockDetected(w)
  BY <1>2, <1>15, FailureEffect
<1>16. CASE FindExisting(w)
  <2>1. ASSUME NEW pc, pc = "deactivated",
               Reads(w, pc, txn[w].pid, txn[w].owner, txn[w].ending, txn[w].targets, txn[w].accepted)
        PROVE  OwnRows(w)'
    <3>1. txn[w].pc = "existing" /\ Started(w)
      BY <1>16, FindExistingEffect DEF Started
    <3>2. /\ txn[w].pc \in WithPlatform <=> pc \in WithPlatform
          /\ pc \notin {"idle", "answered"}
          /\ txn[w].pc \notin {"answered", "end activity", "lock activity", "insert"}
      BY <2>1, <3>1 DEF WithPlatform
    <3> QED
      BY <2>1, <3>1, <3>2, ReadWithSameIds
  <2> QED
    BY <1>16, <2>1, FindExistingEffect
<1> QED
  BY <1>1, <1>3, <1>4, <1>5, <1>6, <1>7, <1>8, <1>9, <1>10, <1>11, <1>12, <1>13, <1>14, <1>15, <1>16
  DEF StepBy, Step

\* What others have inserted stays theirs.
LEMMA OthersKeepOwn ==
  ASSUME Typed, Owned, NEW w \in Workers, StepBy(w), NEW v \in Workers \ {w}
  PROVE  OwnRows(v)'
<1>1. /\ StepOf(platform, platform', w, txn[w].time)
      /\ StepOf(activity, activity', w, txn[w].time) /\ Untouched(v)
      /\ \A i \in DOMAIN activity : activity'[i].platform = activity[i].platform
  BY EffectOfStep DEF StepEffect, Frame
<1>2. /\ w \notin {"committed", "aborted", "nobody"} /\ v \notin {"committed", "aborted", "nobody"}
      /\ v # w
  BY WorkerTypes
<1>3. OwnRows(v)
  BY DEF Owned
<1> DEFINE t == txn[w].time
           platforms == platform'
           activities == activity'
<1>4. StepOf(platform, platforms, w, t) /\ StepOf(activity, activities, w, t)
  BY <1>1
<1> HIDE DEF t, platforms, activities
<1>5. /\ \A i \in DOMAIN platform : /\ (platforms[i].by = v) <=> (platform[i].by = v)
                                    /\ (platforms[i].endedBy = v) <=> (platform[i].endedBy = v)
                                    /\ platforms[i].fid = platform[i].fid
                                    /\ platforms[i].createdAt = platform[i].createdAt
                                    /\ platform[i].by = "committed" => platforms[i].by = "committed"
      /\ \A i \in DOMAIN platforms : (platforms[i].by = v \/ platforms[i].endedBy = v) => i \in DOMAIN platform
  BY <1>2, <1>4 DEF StepOf
<1>6. /\ \A i \in DOMAIN activity : /\ i \in DOMAIN activities
                                    /\ (activities[i].by = v) <=> (activity[i].by = v)
                                    /\ activities[i].fid = activity[i].fid
                                    /\ activities[i].createdAt = activity[i].createdAt
      /\ \A i \in DOMAIN activities : activities[i].by = v => i \in DOMAIN activity
  BY <1>2, <1>4 DEF StepOf
<1>7. /\ txn'[v].pc = txn[v].pc /\ txn'[v].request = txn[v].request /\ txn'[v].pid = txn[v].pid
      /\ txn'[v].ending = txn[v].ending /\ txn'[v].time = txn[v].time
      /\ InsertedIds(v)' = InsertedIds(v)
  BY <1>1, InsertedIdsKept DEF Untouched
<1>8. (Reporting(v)' <=> Reporting(v)) /\ (Reporting(v) /\ txn[v].pc \in WithPlatform => txn[v].pid \in DOMAIN platform)
  BY <1>7 DEF Reporting, Started, Typed, RequestKept
<1>9. \A i \in DOMAIN activity : activities[i].platform = activity[i].platform
  BY <1>1 DEF activities
<1>10. /\ \A i \in DOMAIN platforms : platforms[i].by = v =>
            /\ Reporting(v) /\ txn[v].pc \in WithPlatform
            /\ i = txn[v].pid /\ platforms[i].createdAt = txn[v].time
       /\ \A i \in DOMAIN activities : activities[i].by = v =>
            /\ Reporting(v) /\ txn[v].pc = "answered"
            /\ activities[i].platform = txn[v].pid /\ activities[i].createdAt = txn[v].time
  BY <1>3, <1>5, <1>6, <1>9 DEF OwnRows
<1>11. (Reporting(v) /\ txn[v].pc \in WithPlatform) =>
         /\ platforms[txn[v].pid].by \in {"committed", v}
         /\ platforms[txn[v].pid].fid = txn[v].request.platform
         /\ txn[v].request.kind = "post" => platforms[txn[v].pid].by = v
         /\ \A i \in DOMAIN platforms : platforms[i].endedBy = v => platforms[txn[v].pid].by = v
  BY <1>3, <1>5, <1>8 DEF OwnRows
<1>12. /\ (Reporting(v) /\ txn[v].pc \notin {"end activity", "lock activity", "insert", "answered"})
            => txn[v].ending = {}
       /\ (Reporting(v) /\ txn[v].pc \in {"end activity", "lock activity", "insert"})
            => txn[v].ending \subseteq Range(InsertedIds(v))
       /\ (Reporting(v) /\ txn[v].pc = "answered") =>
            \A x \in txn[v].ending :
              \E i \in DOMAIN activities : activities[i].by = v /\ activities[i].fid = x
  BY <1>3, <1>6 DEF OwnRows
<1> QED
  BY <1>7, <1>8, <1>10, <1>11, <1>12 DEF OwnRows, platforms, activities

\* A committed activity refers to a committed platform: the version a report
\* uses is committed already, or is committed with it.
LEMMA ReferencesKept ==
  ASSUME Typed, Owned, NEW w \in Workers, StepBy(w)
  PROVE  \A i \in Committed(activity') : activity'[i].platform \in Committed(platform')
<1>1. /\ StepOf(platform, platform', w, txn[w].time) /\ StepOf(activity, activity', w, txn[w].time)
      /\ \A i \in DOMAIN activity : activity'[i].platform = activity[i].platform
      /\ ~Commit(w) => Unseen(platform, platform') /\ Unseen(activity, activity')
  BY EffectOfStep DEF StepEffect
<1>2. w \notin {"committed", "aborted", "nobody"}
  BY WorkerTypes
<1>3. /\ \A i \in Committed(platform) : i \in Committed(platform')
      /\ \A i \in Committed(activity') : i \in DOMAIN activity /\ (i \in Committed(activity) \/ activity[i].by = w)
      /\ ~Commit(w) => Committed(activity') = Committed(activity)
  BY <1>1, <1>2, StepKeepsCommitted
<1>4. \A i \in Committed(activity) : activity'[i].platform \in Committed(platform')
  BY <1>1, <1>3 DEF Owned, Committed
<1>5. ASSUME Commit(w), NEW i \in DOMAIN activity, activity[i].by = w
      PROVE  activity'[i].platform \in Committed(platform')
  <2>1. /\ Reporting(w) /\ txn[w].pc \in WithPlatform /\ activity[i].platform = txn[w].pid
        /\ platform[txn[w].pid].by \in {"committed", w} /\ txn[w].pid \in DOMAIN platform
    <3>1. OwnRows(w) /\ RequestKept(w) /\ "answered" \in WithPlatform
      BY DEF Owned, Typed, WithPlatform
    <3>2. Reporting(w) /\ txn[w].pc = "answered" /\ activity[i].platform = txn[w].pid
      BY <1>5, <3>1 DEF OwnRows
    <3> QED
      BY <3>1, <3>2 DEF OwnRows, RequestKept
  <2>2. /\ DOMAIN platform' = DOMAIN platform
        /\ RowCommitted(platform[txn[w].pid], platform'[txn[w].pid], w, txn[w].time)
    BY <1>5, <2>1, CommitEffect, RowsOfCommit
  <2> QED
    BY <1>1, <2>1, <2>2 DEF RowCommitted, Committed
<1> QED
  BY <1>3, <1>4, <1>5

\* So a commit makes nothing visible that refers to an unseen version.
LEMMA OwnedKept ==
  ASSUME Typed, Locked, Owned, NEW w \in Workers, StepBy(w)
  PROVE  Owned'
<1>1. \A v \in Workers : OwnRows(v)'
  BY OwnRowsKept, OthersKeepOwn
<1>2. \A i \in Committed(activity') : activity'[i].platform \in Committed(platform')
  BY ReferencesKept
<1> QED
  BY <1>1, <1>2 DEF Owned, Committed

-----------------------------------------------------------------------------
\* While a request replaces a version its old one stays current; the commit
\* that ends it makes the new one visible.
LEMMA StepKeepsCurrent ==
  ASSUME Typed, Locked, Owned, NEW w \in Workers, StepBy(w)
  PROVE  \/ Commit(w) /\ txn[w].request.kind \in {"end platform", "end activity"}
         \/ /\ NothingVanishes(platform, platform', Platforms)
            /\ NothingVanishes(activity, activity', ActivityIds)
<1>1. /\ StepOf(platform, platform', w, txn[w].time) /\ StepOf(activity, activity', w, txn[w].time)
      /\ ~Commit(w) => Unseen(platform, platform') /\ Unseen(activity, activity')
  BY EffectOfStep DEF StepEffect
<1>2. CASE ~Commit(w)
  <2>1. ASSUME NEW old, NEW new, NEW t, StepOf(old, new, w, t), Unseen(old, new), NEW fids
        PROVE  NothingVanishes(old, new, fids)
    BY <2>1 DEF StepOf, Unseen, NothingVanishes, CommittedCurrent, Versions, Committed, IsCurrent
  <2> QED
    BY <1>1, <1>2, <2>1
<1>3. CASE Commit(w) /\ txn[w].request.kind \notin {"end platform", "end activity"}
  <2>1. txn[w].pc = "answered" /\ Reporting(w)
    <3>1. txn[w].pc = "answered" /\ Started(w)
      BY <1>3 DEF Commit, Started
    <3>2. txn[w].request.kind \in {"post", "bulk", "end platform", "end activity"}
      BY <3>1, WorkerTypes, RequestTypes
    <3> QED
      BY <1>3, <3>1, <3>2 DEF Reporting
  <2>2. /\ DOMAIN platform' = DOMAIN platform /\ DOMAIN activity' = DOMAIN activity
        /\ \A i \in DOMAIN platform : RowCommitted(platform[i], platform'[i], w, txn[w].time)
        /\ \A i \in DOMAIN activity : RowCommitted(activity[i], activity'[i], w, txn[w].time)
    BY <1>3, CommitEffect, RowsOfCommit
  <2>3. /\ OwnRows(w) /\ LocksHeld(w) /\ txn[w].pc \in WithPlatform
        /\ txn[w].pid \in DOMAIN platform
        /\ w \notin {"committed", "aborted", "nobody"}
    <3>1. OwnRows(w) /\ LocksHeld(w) /\ RequestKept(w)
      BY DEF Owned, Locked, Typed
    <3>2. txn[w].pc \in WithPlatform
      BY <2>1 DEF WithPlatform
    <3>3. txn[w].pid \in DOMAIN platform
      BY <2>1, <3>1, <3>2 DEF RequestKept
    <3> QED
      BY <3>1, <3>2, <3>3, WorkerTypes
  <2>4. \* What w has inserted and what nobody ends is visible now, and current.
        /\ \A i \in DOMAIN platform : (IsCurrent(platform[i]) /\ platform[i].by \in {"committed", w}
              /\ platform[i].endedBy # w) => i \in CommittedCurrent(platform', platform[i].fid)
        /\ \A i \in DOMAIN activity : (IsCurrent(activity[i]) /\ activity[i].by \in {"committed", w}
              /\ activity[i].endedBy # w) => i \in CommittedCurrent(activity', activity[i].fid)
    BY <2>2 DEF RowCommitted, CommittedCurrent, Versions, Committed, IsCurrent
  <2>5. /\ \A i \in DOMAIN platform : platform[i].by = w => IsCurrent(platform[i]) /\ platform[i].endedBy # w
        /\ \A i \in DOMAIN activity : activity[i].by = w => IsCurrent(activity[i]) /\ activity[i].endedBy # w
    BY <2>3 DEF Locked, RowsMarked
  <2>6. ASSUME NEW fid, NEW i \in CommittedCurrent(platform, fid)
        PROVE  CommittedCurrent(platform', fid) # {}
    <3>1. i \in DOMAIN platform /\ platform[i].by = "committed" /\ IsCurrent(platform[i]) /\ platform[i].fid = fid
      BY <2>6 DEF CommittedCurrent, Versions, Committed
    <3>2. CASE platform[i].endedBy # w
      BY <2>4, <3>1, <3>2
    <3>3. CASE platform[i].endedBy = w
      <4>1. /\ platform[txn[w].pid].by = w /\ platform[txn[w].pid].fid = txn[w].request.platform
            /\ fid = txn[w].request.platform
        BY <2>1, <2>3, <3>1, <3>3 DEF OwnRows, LocksHeld
      <4> QED
        BY <2>3, <2>4, <2>5, <4>1
    <3> QED
      BY <3>2, <3>3
  <2>7. ASSUME NEW fid, NEW i \in CommittedCurrent(activity, fid)
        PROVE  CommittedCurrent(activity', fid) # {}
    <3>1. i \in DOMAIN activity /\ activity[i].by = "committed" /\ IsCurrent(activity[i]) /\ activity[i].fid = fid
      BY <2>7 DEF CommittedCurrent, Versions, Committed
    <3>2. CASE activity[i].endedBy # w
      BY <2>4, <3>1, <3>2
    <3>3. CASE activity[i].endedBy = w
      <4>1. fid \in txn[w].ending
        BY <2>3, <3>1, <3>3 DEF LocksHeld
      <4>2. PICK j \in DOMAIN activity : activity[j].by = w /\ activity[j].fid = fid
        BY <2>1, <2>3, <4>1 DEF OwnRows
      <4> QED
        BY <2>4, <2>5, <4>2
    <3> QED
      BY <3>2, <3>3
  <2> QED
    BY <2>6, <2>7 DEF NothingVanishes
<1> QED
  BY <1>2, <1>3

-----------------------------------------------------------------------------
(***************************************************************************)
(* The inductive invariant                                                 *)
(***************************************************************************)

TransactionsInv == Typed /\ Locked /\ Owned

\* Nothing is stored and nobody is served.
LEMMA TransactionsInit == Init => TransactionsInv
<1> SUFFICES ASSUME Init
             PROVE  TransactionsInv
  OBVIOUS
<1>1. /\ platform = <<>> /\ activity = <<>> /\ now = 0 /\ finished.time = 0 /\ overlapped = {}
      /\ txn = [w \in Workers |-> Idle]
  BY DEF Init
<1>2. txn \in [Workers -> Transaction]
  BY <1>1, IdleType
<1>3. \A w \in Workers : txn[w] = Idle /\ ~Started(w) /\ ~Reporting(w) /\ txn[w].pc = "idle"
  BY <1>1 DEF Started, Reporting, Idle
<1>4. /\ platform \in Seq(PlatformRow) /\ activity \in Seq(ActivityRow)
      /\ DOMAIN platform = {} /\ DOMAIN activity = {}
      /\ Committed(platform) = {} /\ Committed(activity) = {}
  BY <1>1 DEF Committed
<1>5. \A w \in Workers : RequestKept(w)
  BY <1>3 DEF RequestKept
<1>6. now \in 0..MaxTime /\ finished.time \in 0..MaxTime /\ overlapped \subseteq Platforms
  BY <1>1, TransactionConstantsAssumption
<1>7. Locked
  BY <1>3, <1>4 DEF Locked, LocksHeld, RowsMarked
<1>8. Owned
  BY <1>3, <1>4 DEF Owned, OwnRows
<1> QED
  BY <1>2, <1>4, <1>5, <1>6, <1>7, <1>8 DEF TransactionsInv, Typed

\* Every step has a worker.
LEMMA NextIsStepBy ==
  ASSUME Next
  PROVE  \E w \in Workers : StepBy(w)
BY DEF Next, StepBy

\* What is written of a step holds of a stuttering step.
LEMMA TransactionsStutter ==
  ASSUME TransactionsInv, UNCHANGED vars
  PROVE  TransactionsInv'
<1> USE DEF vars
<1>1. Typed'
  BY DEF TransactionsInv, Typed, RequestKept, Started, Reporting
<1>2. Locked'
  BY DEF TransactionsInv, Locked, LocksHeld, RowsMarked, Committed
<1>3. Owned'
  <2>1. \A w \in Workers : InsertedIds(w)' = InsertedIds(w)
    BY DEF InsertedIds
  <2>2. \A w \in Workers : OwnRows(w)'
    <3> SUFFICES ASSUME NEW w \in Workers
                 PROVE  OwnRows(w)'
      OBVIOUS
    <3>1. OwnRows(w) /\ InsertedIds(w)' = InsertedIds(w) /\ (Reporting(w)' <=> Reporting(w))
      BY <2>1 DEF TransactionsInv, Owned, Started, Reporting
    <3> QED
      BY <3>1 DEF OwnRows
  <2> QED
    BY <2>2 DEF TransactionsInv, Owned, Committed
<1> QED
  BY <1>1, <1>2, <1>3 DEF TransactionsInv

\* The invariant of all interleavings.
THEOREM TransactionsInvariant == Spec => []TransactionsInv
<1>1. Init => TransactionsInv
  BY TransactionsInit
<1>2. TransactionsInv /\ [Next]_vars => TransactionsInv'
  <2> SUFFICES ASSUME TransactionsInv, [Next]_vars
               PROVE  TransactionsInv'
    OBVIOUS
  <2>1. CASE Next
    <3>1. PICK w \in Workers : StepBy(w)
      BY <2>1, NextIsStepBy
    <3> QED
      BY <3>1, TypedKept, LockedKept, OwnedKept DEF TransactionsInv
  <2>2. CASE UNCHANGED vars
    BY <2>2, TransactionsStutter
  <2> QED
    BY <2>1, <2>2
<1> QED
  BY <1>1, <1>2, PTL DEF Spec

-----------------------------------------------------------------------------
(***************************************************************************)
(* The properties                                                          *)
(***************************************************************************)

\* However requests interleave, rows and transactions stay well formed and a
\* committed activity refers to a committed platform.
THEOREM TransactionsTypeCorrect == Spec => []TypeOK
<1>1. TransactionsInv => TypeOK
  BY DEF TransactionsInv, Typed, Owned, TypeOK
<1> QED
  BY <1>1, TransactionsInvariant, PTL

\* A committed row is never rewritten: its only change is that it ends, once.
THEOREM TransactionsKeepHistory == Spec => CommittedHistoryKept
<1>1. TransactionsInv /\ [Next]_vars
        => [CommittedContinues(platform, platform') /\ CommittedContinues(activity, activity')]_vars
  BY NextIsStepBy, StepKeepsHistory DEF TransactionsInv
<1> QED
  BY <1>1, TransactionsInvariant, PTL DEF Spec, CommittedHistoryKept

\* Nobody sees a platform or an activity disappear while a request replaces it.
THEOREM TransactionsNeverHide == Spec => NeverAbsent
<1>1. TransactionsInv /\ [Next]_vars
        => [\/ \E w \in Workers : Commit(w) /\ txn[w].request.kind \in {"end platform", "end activity"}
            \/ /\ NothingVanishes(platform, platform', Platforms)
               /\ NothingVanishes(activity, activity', ActivityIds)]_vars
  BY NextIsStepBy, StepKeepsCurrent DEF TransactionsInv
<1> QED
  BY <1>1, TransactionsInvariant, PTL DEF Spec, NeverAbsent

-----------------------------------------------------------------------------
(***************************************************************************)
(* Platforms of which no two requests overlap                              *)
(***************************************************************************)

VersionFid(i) == platform[activity[i].platform].fid

\* A request whose platform nobody else has asked for while it was served.
Alone(w) == Started(w) /\ txn[w].request.platform \notin overlapped

\* All that is stored of its platform is older than the request, ...
Newest(w) ==
  LET p == txn[w].request.platform
  IN  /\ \A v \in Workers \ {w} : Started(v) => txn[v].request.platform # p
      /\ \A i \in Committed(platform) : platform[i].fid = p =>
           platform[i].createdAt < txn[w].time /\ platform[i].endedAt < txn[w].time
      /\ \A i \in Committed(activity) : VersionFid(i) = p => activity[i].createdAt < txn[w].time

\* ... what its first SELECTs have found of it still holds, ...
FoundStillHolds(w) ==
  LET p == txn[w].request.platform
  IN  /\ txn[w].pc = "any platform" =>
           \A i \in Committed(platform) : platform[i].fid = p => ~IsCurrent(platform[i])
      /\ txn[w].pc = "lock platform" =>
           \A i \in Committed(platform) :
              platform[i].fid = p /\ IsCurrent(platform[i])
                => i \in txn[w].targets \/ platform[i].endedBy = w

\* ... and the version it uses is the one in force once it commits.
VersionInForce(w) ==
  LET p == txn[w].request.platform
      mine == txn[w].pid
  IN  Reporting(w) /\ txn[w].pc \in WithPlatform =>
        /\ IsCurrent(platform[mine])
        /\ platform[mine].by = w =>
             \A i \in Committed(platform) : platform[i].fid = p =>
                i < mine /\ (IsCurrent(platform[i]) => platform[i].endedBy = w)

\* No activity with such an id stays current under the version w uses, or the
\* running UPDATE is going to reach it.
NoneLeft(w, fids) ==
  \A i \in Committed(activity) :
     activity[i].platform = txn[w].pid /\ activity[i].fid \in fids /\ IsCurrent(activity[i])
       => activity[i].endedBy = w \/ (txn[w].pc = "lock activity" /\ i \in txn[w].targets)

\* The UPDATE of a batch ends every activity that the INSERT replaces.
BatchIsolated(w) ==
  Reporting(w) =>
    /\ (txn[w].pc = "end activity" /\ txn[w].request.kind = "bulk") =>
          /\ txn[w].owner = txn[w].pid
          /\ NoneLeft(w, Range(txn[w].accepted) \ txn[w].ending)
    /\ (txn[w].pc = "lock activity" /\ txn[w].request.kind = "bulk") =>
          NoneLeft(w, Range(txn[w].accepted))
    /\ txn[w].pc = "insert" => NoneLeft(w, Range(InsertedIds(w)))
    /\ txn[w].pc = "answered" =>
         \A i \in Committed(activity), j \in DOMAIN activity :
            activity[j].by = w /\ activity[i].fid = activity[j].fid /\ activity[i].platform = txn[w].pid
              => i < j /\ (IsCurrent(activity[i]) => activity[i].endedBy = w)

Isolated(w) ==
  Alone(w) => Newest(w) /\ FoundStillHolds(w) /\ VersionInForce(w) /\ BatchIsolated(w)

\* A batch names each activity once.
DistinctItems(w) ==
  /\ \A m, n \in DOMAIN txn[w].accepted :
        txn[w].accepted[m] = txn[w].accepted[n] => m = n
  /\ \A i, j \in DOMAIN activity :
        activity[i].by = w /\ activity[j].by = w /\ activity[i].fid = activity[j].fid => i = j

\* The transactions that have committed started before now.
Past ==
  /\ \A i \in Committed(platform) : platform[i].createdAt <= now /\ platform[i].endedAt <= now
  /\ \A i \in Committed(activity) : activity[i].createdAt <= now

Isolation == Past /\ \A w \in Workers : Isolated(w) /\ DistinctItems(w)

\* The columns of a row.
LEMMA RowTypes ==
  ASSUME Typed
  PROVE  /\ \A i \in DOMAIN platform :
              /\ platform[i] \in PlatformRow /\ platform[i].fid \in Platforms
              /\ platform[i].createdAt \in Nat /\ platform[i].endedAt \in Nat
         /\ \A i \in DOMAIN activity :
              activity[i] \in ActivityRow /\ activity[i].createdAt \in Nat
<1>1. \A i \in DOMAIN platform : platform[i] \in PlatformRow
  BY DEF Typed
<1>2. \A i \in DOMAIN activity : activity[i] \in ActivityRow
  BY DEF Typed
<1>3. \A r \in PlatformRow : r.fid \in Platforms /\ r.createdAt \in Nat /\ r.endedAt \in Nat
  BY DEF PlatformRow
<1>4. \A r \in ActivityRow : r.createdAt \in Nat
  BY DEF ActivityRow
<1> QED
  BY <1>1, <1>2, <1>3, <1>4

\* Nothing committed is younger than now.
LEMMA PastKept ==
  ASSUME TransactionsInv, Past, NEW w \in Workers, StepBy(w)
  PROVE  Past'
<1>1. /\ StepOf(platform, platform', w, txn[w].time) /\ StepOf(activity, activity', w, txn[w].time)
      /\ now \in Nat /\ now' \in 0..MaxTime /\ now <= now'
  BY EffectOfStep DEF StepEffect, Frame, TransactionsInv
<1>2. w \notin {"committed", "aborted", "nobody"} /\ Typed /\ Owned
  BY WorkerTypes DEF TransactionsInv
<1>3. /\ \A i \in Committed(platform') : i \in DOMAIN platform /\ (i \in Committed(platform) \/ platform[i].by = w)
      /\ \A i \in Committed(activity') : i \in DOMAIN activity /\ (i \in Committed(activity) \/ activity[i].by = w)
  BY <1>1, <1>2, StepKeepsCommitted
<1>4. Started(w) => txn[w].time \in Nat /\ txn[w].time <= now
  <2>1. Started(w) => txn[w].time \in 1..now
    BY <1>2 DEF Typed, RequestKept
  <2> QED
    BY <1>1, <2>1
<1>5. /\ \A i \in DOMAIN platform : platform[i].createdAt \in Nat /\ platform[i].endedAt \in Nat
      /\ \A i \in DOMAIN activity : activity[i].createdAt \in Nat
  BY <1>2, RowTypes
<1>6. ASSUME NEW i \in Committed(platform')
      PROVE  /\ platform'[i].createdAt \in Nat /\ platform'[i].createdAt <= now
             /\ platform'[i].endedAt \in Nat /\ platform'[i].endedAt <= now
  <2>1. /\ i \in DOMAIN platform /\ platform'[i].createdAt = platform[i].createdAt
        /\ \/ platform'[i].endedAt = platform[i].endedAt
           \/ platform[i].endedBy = w /\ platform'[i].endedAt = txn[w].time
    BY <1>1, <1>3 DEF StepOf
  <2>2. platform[i].endedBy = w => Started(w)
    BY <2>1 DEF TransactionsInv, Locked, LocksHeld, Started, WithPlatform
  <2>3. CASE i \in Committed(platform)
    BY <1>4, <1>5, <2>1, <2>2, <2>3 DEF Past
  <2>4. CASE platform[i].by = w
    <3>1. platform[i].createdAt = txn[w].time /\ Started(w) /\ platform[i].endedAt = 0
      BY <1>2, <2>1, <2>4 DEF Owned, OwnRows, Reporting, TransactionsInv, Locked, RowsMarked, IsCurrent, NotEnded
    <3> QED
      BY <1>1, <1>4, <2>1, <3>1
  <2> QED
    BY <1>3, <2>3, <2>4
<1>7. ASSUME NEW i \in Committed(activity')
      PROVE  activity'[i].createdAt \in Nat /\ activity'[i].createdAt <= now
  <2>1. i \in DOMAIN activity /\ activity'[i].createdAt = activity[i].createdAt
    BY <1>1, <1>3 DEF StepOf
  <2>2. CASE i \in Committed(activity)
    BY <1>5, <2>1, <2>2 DEF Past
  <2>3. CASE activity[i].by = w
    <3>1. activity[i].createdAt = txn[w].time /\ Started(w)
      BY <1>2, <2>1, <2>3 DEF Owned, OwnRows, Reporting
    <3> QED
      BY <1>4, <2>1, <3>1
  <2> QED
    BY <1>3, <2>2, <2>3
<1>8. \A t : (t \in Nat /\ t <= now) => t <= now'
  BY <1>1
<1> QED
  BY <1>6, <1>7, <1>8 DEF Past

\* A batch names each activity once, whatever is done.
LEMMA OthersKeepItems ==
  ASSUME TransactionsInv, NEW w \in Workers, StepBy(w), NEW v \in Workers \ {w}, DistinctItems(v)
  PROVE  DistinctItems(v)'
<1>1. /\ StepOf(activity, activity', w, txn[w].time) /\ txn'[v].accepted = txn[v].accepted
  BY EffectOfStep DEF StepEffect, Frame, TransactionsInv, Untouched
<1>2. w \notin {"committed", "aborted", "nobody"} /\ v \notin {"committed", "aborted", "nobody"} /\ v # w
  BY WorkerTypes DEF TransactionsInv
<1>3. \A i \in DOMAIN activity' : activity'[i].by = v =>
        i \in DOMAIN activity /\ activity[i].by = v /\ activity'[i].fid = activity[i].fid
  BY <1>1, <1>2 DEF StepOf
<1> QED
  BY <1>1, <1>3 DEF DistinctItems

\* A worker that goes on has inserted no activity yet.
LEMMA GoesOnKeepsItems ==
  ASSUME NEW w \in Workers, NEW pc, NEW pid, NEW owner, NEW ending, NEW targets, NEW accepted,
         GoesOn(w, pc, pid, owner, ending, targets, accepted), OwnRows(w)',
         txn[w].request.kind \in {"post", "bulk"} => pc # "answered",
         \A m, n \in DOMAIN accepted : accepted[m] = accepted[n] => m = n
  PROVE  DistinctItems(w)'
<1>1. txn'[w].pc = pc /\ txn'[w].accepted = accepted /\ txn'[w].request = txn[w].request
  BY DEF GoesOn
<1>2. \A i \in DOMAIN activity' : activity'[i].by # w
  <2> SUFFICES ASSUME NEW i \in DOMAIN activity', activity'[i].by = w
               PROVE  FALSE
    OBVIOUS
  <2>1. Reporting(w)' /\ txn'[w].pc = "answered"
    BY DEF OwnRows
  <2>2. "answered" \in WithPlatform
    BY DEF WithPlatform
  <2> QED
    BY <1>1, <2>1 DEF Reporting, Started
<1> QED
  BY <1>1, <1>2 DEF DistinctItems

\* Each id a report stores is stored once.
LEMMA InsertKeepsItems ==
  ASSUME TransactionsInv, NEW w \in Workers, InsertAndAnswer(w), DistinctItems(w)
  PROVE  DistinctItems(w)'
<1>1. /\ txn[w].pc = "insert" /\ Reporting(w) /\ Typed /\ OwnRows(w)
      /\ txn'[w].accepted = InsertedIds(w)
  BY InsertAndAnswerEffect DEF TransactionsInv, Owned, GoesOn
<1>2. \A m, n \in DOMAIN InsertedIds(w) : InsertedIds(w)[m] = InsertedIds(w)[n] => m = n
  <2>1. txn[w].request.kind \in {"post", "bulk"} /\ txn[w].request \in AllRequests
    BY <1>1, WorkerTypes DEF Reporting
  <2>2. CASE txn[w].request.kind = "bulk"
    BY <2>2 DEF InsertedIds, DistinctItems
  <2>3. CASE txn[w].request.kind = "post"
    <3>1. PICK x \in ActivityIds \cup {NoId} : txn[w].request.ids = <<x>>
      BY <2>1, <2>3, RequestTypes
    <3>2. PICK y : InsertedIds(w) = <<y>>
      BY <2>3, <3>1 DEF InsertedIds
    <3> QED
      BY <3>2
  <2> QED
    BY <2>1, <2>2, <2>3
<1>3. /\ \A i \in DOMAIN activity : activity[i].by # w
      /\ \A i \in DOMAIN activity : activity'[i] = activity[i]
      /\ \A k \in DOMAIN activity' \ DOMAIN activity :
           /\ k > Len(activity) /\ k - Len(activity) \in DOMAIN InsertedIds(w)
           /\ activity'[k].fid = InsertedIds(w)[k - Len(activity)]
  BY <1>1, RowsOfInsert DEF OwnRows
<1>4. ASSUME NEW i \in DOMAIN activity', NEW j \in DOMAIN activity',
             activity'[i].by = w, activity'[j].by = w, activity'[i].fid = activity'[j].fid
      PROVE  i = j
  <2>1. i \notin DOMAIN activity /\ j \notin DOMAIN activity
    BY <1>3, <1>4
  <2>2. i - Len(activity) = j - Len(activity)
    BY <1>2, <1>3, <1>4, <2>1
  <2>3. activity' \in Seq(ActivityRow) /\ Len(activity) \in Nat
    <3>1. StepBy(w)
      BY DEF StepBy, Step
    <3> QED
      BY <1>1, <3>1, EffectOfStep DEF StepEffect, Typed
  <2>4. i \in Nat /\ j \in Nat
    BY <2>3
  <2> QED
    BY <2>2, <2>3, <2>4
<1> QED
  BY <1>1, <1>2, <1>4 DEF DistinctItems

\* Whatever w does, its batch names each activity once.
LEMMA OwnItemsKept ==
  ASSUME TransactionsInv, NEW w \in Workers, StepBy(w), DistinctItems(w)
  PROVE  DistinctItems(w)'
<1>1. Typed /\ OwnRows(w)'
  BY OwnRowsKept DEF TransactionsInv
<1>2. ASSUME NEW pc, NEW pid, NEW owner, NEW ending, NEW targets,
             GoesOn(w, pc, pid, owner, ending, targets, txn[w].accepted),
             txn[w].request.kind \in {"post", "bulk"} => pc # "answered"
      PROVE  DistinctItems(w)'
  BY <1>1, <1>2, GoesOnKeepsItems DEF DistinctItems
<1>3. CASE IsRolledBack(w) \/ IsCommitted(w)
  <2>1. txn'[w] = Idle
    BY <1>3 DEF IsRolledBack, IsCommitted, Ends
  <2>2. ~Reporting(w)' /\ txn'[w].accepted = <<>>
    BY <2>1 DEF Reporting, Started, Idle
  <2>3. \A i \in DOMAIN activity' : activity'[i].by # w
    BY <1>1, <2>2 DEF OwnRows
  <2> QED
    BY <2>2, <2>3 DEF DistinctItems
<1>4. ASSUME NEW p \in Platforms, NEW request \in Requests(p), Start(w, request)
      PROVE  DistinctItems(w)'
  <2>1. txn'[w].accepted = <<>>
    BY <1>1, <1>4, StartEffect
  <2>2. txn'[w].pc \in {"find platform", "end platform", "end activity"}
    BY <1>1, <1>4, StartEffect
  <2>3. \A i \in DOMAIN activity' : activity'[i].by # w
    BY <1>1, <2>2 DEF OwnRows
  <2>4. DOMAIN txn'[w].accepted = {}
    BY <2>1
  <2> QED
    BY <2>3, <2>4 DEF DistinctItems
<1>5. CASE FindPlatform(w)
  <2>1. ASSUME NEW pc \in {"any platform", "end platform", "existing"}, NEW pid,
               GoesOn(w, pc, pid, txn[w].owner, txn[w].ending, txn[w].targets, txn[w].accepted)
        PROVE  DistinctItems(w)'
    <3>1. pc # "answered"
      OBVIOUS
    <3> QED
      BY <1>2, <2>1, <3>1
  <2> QED
    BY <1>1, <1>3, <1>5, <2>1, FindPlatformEffect DEF Reads
<1>6. ASSUME InsertsPlatform(w)
      PROVE  DistinctItems(w)'
  <2> DEFINE pc == AfterPlatform(txn[w].request)
  <2>1. GoesOn(w, pc, Len(platform) + 1, txn[w].owner, txn[w].ending, txn[w].targets, txn[w].accepted)
    BY <1>6 DEF InsertsPlatform
  <2>2. pc # "answered"
    BY <1>1, <1>6, AfterPlatformType DEF InsertsPlatform
  <2> HIDE DEF pc
  <2> QED
    BY <1>2, <2>1, <2>2
<1>7. CASE AnyPlatform(w)
  BY <1>1, <1>3, <1>6, <1>7, AnyPlatformEffect
<1>8. ASSUME NEW pc, pc \in {"lock platform", "lock activity", "insert", "end activity",
                              "any activity", "deactivated"},
             NEW pid, NEW owner, NEW ending, NEW targets,
             GoesOn(w, pc, pid, owner, ending, targets, txn[w].accepted)
      PROVE  DistinctItems(w)'
  <2>1. pc # "answered"
    BY <1>8
  <2> QED
    BY <1>2, <1>8, <2>1
<1>9. CASE EndPlatform(w) \/ EndActivity(w)
  BY <1>1, <1>8, <1>9, EndPlatformEffect, EndActivityEffect DEF Reads
<1>10. CASE LockPlatform(w)
  <2>1. CASE txn[w].request.kind = "end platform"
    <3>1. txn[w].request.kind \notin {"post", "bulk"}
      BY <2>1
    <3> QED
      BY <1>1, <1>2, <1>6, <1>10, <3>1, LockPlatformEffect DEF Reads, LocksPlatform
  <2>2. CASE txn[w].request.kind # "end platform"
    BY <1>1, <1>6, <1>8, <1>10, <2>2, LockPlatformEffect DEF LocksPlatform
  <2> QED
    BY <2>1, <2>2
<1>11. CASE FindActivity(w)
  BY <1>1, <1>3, <1>8, <1>11, FindActivityEffect DEF Reads
<1>12. CASE AnyActivity(w)
  BY <1>1, <1>3, <1>8, <1>12, AnyActivityEffect DEF Reads
<1>13. CASE FindDeactivated(w)
  <2>1. PICK accepted \in Seq(ActivityIds) :
          /\ \A m, n \in DOMAIN accepted : accepted[m] = accepted[n] => m = n
          /\ Reads(w, "current", txn[w].pid, txn[w].owner, txn[w].ending, txn[w].targets, accepted)
    BY <1>1, <1>13, FindDeactivatedEffect
  <2> DEFINE pc == "current"
  <2>2. GoesOn(w, pc, txn[w].pid, txn[w].owner, txn[w].ending, txn[w].targets, accepted)
    BY <2>1 DEF Reads
  <2>3. pc # "answered"
    OBVIOUS
  <2> HIDE DEF pc
  <2> QED
    BY <1>1, <2>1, <2>2, <2>3, GoesOnKeepsItems
<1>14. CASE FindCurrent(w)
  <2> DEFINE pc == IF EndingUnder(w) = {} THEN "insert" ELSE "end activity"
  <2>1. /\ pc \in {"insert", "end activity"}
        /\ GoesOn(w, pc, txn[w].pid, txn[w].pid, EndingUnder(w), txn[w].targets, txn[w].accepted)
    BY <1>1, <1>14, FindCurrentEffect DEF Reads
  <2> HIDE DEF pc
  <2> QED
    BY <1>8, <2>1
<1>15. CASE LockActivity(w)
  <2> DEFINE pc == IF txn[w].request.kind = "end activity" THEN "answered" ELSE "insert"
  <2>1. CASE GoesOn(w, pc, txn[w].pid, txn[w].owner, txn[w].ending, txn[w].targets, txn[w].accepted)
    <3>1. txn[w].request.kind \in {"post", "bulk"} => pc # "answered"
      OBVIOUS
    <3> HIDE DEF pc
    <3> QED
      BY <1>2, <2>1, <3>1
  <2> QED
    BY <1>1, <1>8, <1>15, <2>1, LockActivityEffect DEF Reads, LocksActivity
<1>16. CASE InsertAndAnswer(w)
  BY <1>16, InsertKeepsItems
<1>17. CASE Commit(w)
  BY <1>1, <1>3, <1>17, CommitEffect
<1>18. CASE Crash(w) \/ DeadlockDetected(w)
  BY <1>1, <1>3, <1>18, FailureEffect
<1>19. CASE FindExisting(w)
  BY <1>1, <1>8, <1>19, FindExistingEffect DEF Reads
<1> QED
  BY <1>4, <1>5, <1>7, <1>9, <1>10, <1>11, <1>12, <1>13, <1>14, <1>15, <1>16, <1>17, <1>18, <1>19
  DEF StepBy, Step

\* A request keeps its parameters and its time until it has ended.
LEMMA StepKeepsRequest ==
  ASSUME Typed, NEW w \in Workers, StepBy(w), Started(w), txn'[w].pc # "idle"
  PROVE  txn'[w].request = txn[w].request /\ txn'[w].time = txn[w].time /\ UNCHANGED <<now, overlapped>>
<1>1. CASE IsRolledBack(w) \/ IsCommitted(w)
  BY <1>1 DEF IsRolledBack, IsCommitted, Ends, Idle
<1>2. ASSUME NEW pc, NEW pid, NEW owner, NEW ending, NEW targets, NEW accepted,
             GoesOn(w, pc, pid, owner, ending, targets, accepted)
      PROVE  txn'[w].request = txn[w].request /\ txn'[w].time = txn[w].time /\ UNCHANGED <<now, overlapped>>
  BY <1>2 DEF GoesOn
<1>3. ASSUME NEW p \in Platforms, NEW request \in Requests(p), Start(w, request)
      PROVE  FALSE
  BY <1>3, StartEffect
<1>4. CASE FindPlatform(w)
  BY <1>1, <1>2, <1>4, FindPlatformEffect DEF Reads
<1>5. CASE AnyPlatform(w)
  BY <1>1, <1>2, <1>5, AnyPlatformEffect DEF InsertsPlatform
<1>6. CASE EndPlatform(w)
  BY <1>2, <1>6, EndPlatformEffect DEF Reads
<1>7. CASE LockPlatform(w)
  BY <1>2, <1>7, LockPlatformEffect DEF Reads, LocksPlatform, InsertsPlatform
<1>8. CASE FindActivity(w)
  BY <1>1, <1>2, <1>8, FindActivityEffect DEF Reads
<1>9. CASE AnyActivity(w)
  BY <1>1, <1>2, <1>9, AnyActivityEffect DEF Reads
<1>10. CASE FindDeactivated(w)
  BY <1>2, <1>10, FindDeactivatedEffect DEF Reads
<1>11. CASE FindCurrent(w)
  BY <1>2, <1>11, FindCurrentEffect DEF Reads
<1>12. CASE EndActivity(w)
  BY <1>2, <1>12, EndActivityEffect DEF Reads
<1>13. CASE LockActivity(w)
  BY <1>2, <1>13, LockActivityEffect DEF Reads, LocksActivity
<1>14. CASE InsertAndAnswer(w)
  BY <1>2, <1>14, InsertAndAnswerEffect
<1>15. CASE Commit(w)
  BY <1>1, <1>15, CommitEffect
<1>16. CASE Crash(w) \/ DeadlockDetected(w)
  BY <1>1, <1>16, FailureEffect
<1>17. CASE FindExisting(w)
  BY <1>2, <1>17, FindExistingEffect DEF Reads
<1> QED
  BY <1>3, <1>4, <1>5, <1>6, <1>7, <1>8, <1>9, <1>10, <1>11, <1>12, <1>13, <1>14, <1>15, <1>16, <1>17
  DEF StepBy, Step

-----------------------------------------------------------------------------
\* A request touches the rows of its own platform only.
LEMMA OthersLeavePlatform ==
  ASSUME TransactionsInv, NEW w \in Workers, StepBy(w), NEW p,
         Started(w) => txn[w].request.platform # p
  PROVE  /\ \A i \in DOMAIN platform : platform[i].fid = p =>
              /\ i \in DOMAIN platform' /\ platform'[i].fid = p
              /\ platform'[i].by = platform[i].by /\ platform'[i].endedAt = platform[i].endedAt
              /\ platform'[i].endedBy = platform[i].endedBy
              /\ platform'[i].createdAt = platform[i].createdAt
         /\ \A i \in Committed(platform') : platform'[i].fid = p => i \in Committed(platform) /\ platform[i].fid = p
         /\ \A i \in Committed(activity') : VersionFid(i)' = p =>
              i \in Committed(activity) /\ VersionFid(i) = p /\ activity'[i].createdAt = activity[i].createdAt
<1>1. /\ StepOf(platform, platform', w, txn[w].time) /\ StepOf(activity, activity', w, txn[w].time)
      /\ \A i \in DOMAIN activity : activity'[i].platform = activity[i].platform
  BY EffectOfStep DEF StepEffect, TransactionsInv
<1>2. /\ w \notin {"committed", "aborted", "nobody"} /\ Typed /\ OwnRows(w) /\ LocksHeld(w)
      /\ LocksHeld(w)' /\ RequestKept(w) /\ Owned
  BY WorkerTypes, OwnLocksKept DEF TransactionsInv, Owned, Locked, Typed
<1>3. /\ \A i \in Committed(platform') : i \in DOMAIN platform /\ (i \in Committed(platform) \/ platform[i].by = w)
      /\ \A i \in Committed(activity') : i \in DOMAIN activity /\ (i \in Committed(activity) \/ activity[i].by = w)
  BY <1>1, <1>2, StepKeepsCommitted
<1>4. ASSUME NEW i \in DOMAIN platform, platform[i].fid = p
      PROVE  platform[i].by # w /\ platform[i].endedBy # w
  <2>1. platform[i].by = w => Started(w) /\ platform[i].fid = txn[w].request.platform
    BY <1>2 DEF OwnRows, Reporting
  <2>2. platform[i].endedBy = w => Started(w) /\ platform[i].fid = txn[w].request.platform
    BY <1>2 DEF LocksHeld, Started, WithPlatform
  <2> QED
    BY <1>4, <2>1, <2>2
<1>5. txn'[w].pc # "idle" /\ Started(w) => txn'[w].request = txn[w].request
  BY <1>2, StepKeepsRequest
<1>6. ASSUME NEW i \in DOMAIN platform, platform[i].fid = p
      PROVE  platform'[i].endedBy # w
  <2>1. CASE ~Started(w)
    BY <1>2, <1>4, <1>6, <2>1, OnlyStarts
  <2>2. CASE Started(w)
    <3> SUFFICES ASSUME platform'[i].endedBy = w
                 PROVE  FALSE
      OBVIOUS
    <3>1. i \in DOMAIN platform' /\ platform'[i].fid = p
      BY <1>1, <1>6 DEF StepOf
    <3>2. platform'[i].fid = txn'[w].request.platform /\ txn'[w].pc # "idle"
      BY <1>2, <3>1 DEF LocksHeld, WithPlatform
    <3> QED
      BY <1>5, <2>2, <3>1, <3>2
  <2> QED
    BY <2>1, <2>2
<1>7. \A i \in DOMAIN platform : platform[i].fid = p =>
        /\ i \in DOMAIN platform' /\ platform'[i].fid = p
        /\ platform'[i].by = platform[i].by /\ platform'[i].endedAt = platform[i].endedAt
        /\ platform'[i].endedBy = platform[i].endedBy
        /\ platform'[i].createdAt = platform[i].createdAt
  BY <1>1, <1>4, <1>6 DEF StepOf
<1>8. ASSUME NEW i \in Committed(platform'), platform'[i].fid = p
      PROVE  i \in Committed(platform) /\ platform[i].fid = p
  <2>1. i \in DOMAIN platform /\ platform[i].fid = p
    BY <1>1, <1>3, <1>8 DEF StepOf
  <2> QED
    BY <1>3, <1>4, <2>1
<1>9. ASSUME NEW i \in Committed(activity'), VersionFid(i)' = p
      PROVE  i \in Committed(activity) /\ VersionFid(i) = p /\ activity'[i].createdAt = activity[i].createdAt
  <2>1. /\ i \in DOMAIN activity /\ activity'[i].platform = activity[i].platform
        /\ activity'[i].createdAt = activity[i].createdAt
    BY <1>1, <1>3 DEF StepOf
  <2>2. ASSUME activity[i].platform \in DOMAIN platform
        PROVE  VersionFid(i) = p
    BY <1>1, <1>9, <2>1, <2>2 DEF StepOf, VersionFid
  <2>3. CASE i \in Committed(activity)
    BY <1>2, <2>1, <2>2, <2>3 DEF Owned, Committed
  <2>4. CASE activity[i].by = w
    <3>1. Started(w) /\ Reporting(w) /\ txn[w].pc = "answered" /\ activity[i].platform = txn[w].pid
      BY <1>2, <2>1, <2>4 DEF OwnRows, Reporting
    <3>2. txn[w].pid \in DOMAIN platform /\ platform[txn[w].pid].fid = txn[w].request.platform
      BY <1>2, <3>1 DEF OwnRows, RequestKept, WithPlatform
    <3>3. VersionFid(i) = txn[w].request.platform
      BY <3>1, <3>2 DEF VersionFid
    <3> QED
      BY <2>2, <3>1, <3>2, <3>3
  <2> QED
    BY <1>3, <2>3, <2>4
<1> QED
  BY <1>7, <1>8, <1>9

\* A request of another platform changes nothing of what isolates v.
LEMMA OthersKeepIsolated ==
  ASSUME TransactionsInv, NEW w \in Workers, StepBy(w), NEW v \in Workers \ {w}, Isolated(v)
  PROVE  Isolated(v)'
<1> SUFFICES ASSUME Alone(v)'
             PROVE  Newest(v)' /\ FoundStillHolds(v)' /\ VersionInForce(v)' /\ BatchIsolated(v)'
  BY DEF Isolated
<1> DEFINE p == txn[v].request.platform
<1>1. /\ StepOf(platform, platform', w, txn[w].time) /\ StepOf(activity, activity', w, txn[w].time)
      /\ \A i \in DOMAIN activity : activity'[i].platform = activity[i].platform
      /\ overlapped \subseteq overlapped' /\ Untouched(v) /\ \A u \in Workers \ {w} : Untouched(u)
  BY EffectOfStep DEF StepEffect, Frame, TransactionsInv
<1>2. /\ w \notin {"committed", "aborted", "nobody"} /\ v \notin {"committed", "aborted", "nobody"}
      /\ v # w /\ v \in Workers
      /\ Typed /\ Owned /\ RequestKept(v) /\ OwnRows(v)
  BY WorkerTypes DEF TransactionsInv, Typed, Owned
<1>3. /\ txn'[v].pc = txn[v].pc /\ txn'[v].request = txn[v].request /\ txn'[v].time = txn[v].time
      /\ txn'[v].pid = txn[v].pid /\ txn'[v].owner = txn[v].owner /\ txn'[v].ending = txn[v].ending
      /\ txn'[v].targets = txn[v].targets /\ txn'[v].accepted = txn[v].accepted
      /\ InsertedIds(v)' = InsertedIds(v)
      /\ (Started(v)' <=> Started(v)) /\ (Reporting(v)' <=> Reporting(v))
  BY <1>1, InsertedIdsKept DEF Untouched, Started, Reporting
<1>4. Started(v) /\ p \notin overlapped /\ p \notin overlapped'
  BY <1>1, <1>3 DEF Alone
<1>5. Newest(v) /\ FoundStillHolds(v) /\ VersionInForce(v) /\ BatchIsolated(v)
  BY <1>4 DEF Isolated, Alone
<1>6. Started(w) => txn[w].request.platform # p
  BY <1>2, <1>5 DEF Newest
<1>7. Started(w)' => txn'[w].request.platform # p
  <2>1. CASE Started(w)
    BY <1>2, <1>6, <2>1, StepKeepsRequest DEF Started
  <2>2. CASE ~Started(w)
    <3>1. Typed
      BY <1>2
    <3>2. ASSUME NEW q \in Platforms, NEW request \in Requests(q), Start(w, request)
          PROVE  /\ txn'[w].request = request /\ request.platform = q
                 /\ \A u \in Workers \ {w} : Started(u) /\ txn[u].request.platform = q => q \in overlapped'
      BY <3>1, <3>2, StartEffect
    <3>3. \E q \in Platforms : \E request \in Requests(q) : Start(w, request)
      BY <2>2, <3>1, OnlyStarts
    <3>4. v \in Workers \ {w} /\ Started(v)
      BY <1>2, <1>4
    <3> QED
      BY <1>4, <3>2, <3>3, <3>4
  <2> QED
    BY <2>1, <2>2
<1> HIDE DEF p
<1>8. /\ \A i \in DOMAIN platform : platform[i].fid = p =>
           /\ i \in DOMAIN platform' /\ platform'[i].fid = p
           /\ platform'[i].by = platform[i].by /\ platform'[i].endedAt = platform[i].endedAt
           /\ platform'[i].endedBy = platform[i].endedBy
           /\ platform'[i].createdAt = platform[i].createdAt
      /\ \A i \in Committed(platform') : platform'[i].fid = p => i \in Committed(platform) /\ platform[i].fid = p
      /\ \A i \in Committed(activity') : VersionFid(i)' = p =>
           i \in Committed(activity) /\ VersionFid(i) = p /\ activity'[i].createdAt = activity[i].createdAt
  BY <1>6, OthersLeavePlatform
<1>9. \A i \in Committed(platform') : platform'[i].fid = p =>
        /\ i \in Committed(platform) /\ platform[i].fid = p
        /\ platform'[i].endedAt = platform[i].endedAt /\ platform'[i].endedBy = platform[i].endedBy
        /\ platform'[i].createdAt = platform[i].createdAt /\ (IsCurrent(platform'[i]) <=> IsCurrent(platform[i]))
  BY <1>8 DEF Committed, IsCurrent
<1>10. Newest(v)'
  <2>1. \A u \in Workers \ {v} : Started(u)' => txn'[u].request.platform # p
    BY <1>1, <1>5, <1>7 DEF Newest, Untouched, Started, p
  <2>2. /\ \A i \in Committed(platform') : platform'[i].fid = p =>
             platform'[i].createdAt < txn[v].time /\ platform'[i].endedAt < txn[v].time
        /\ \A i \in Committed(activity') : VersionFid(i)' = p => activity'[i].createdAt < txn[v].time
    BY <1>5, <1>8, <1>9 DEF Newest, p
  <2> QED
    BY <1>3, <2>1, <2>2 DEF Newest, p
<1>11. FoundStillHolds(v)'
  BY <1>3, <1>5, <1>9 DEF FoundStillHolds, p
<1>12. ASSUME Reporting(v), txn[v].pc \in WithPlatform
       PROVE  txn[v].pid \in DOMAIN platform /\ platform[txn[v].pid].fid = p
  BY <1>2, <1>12 DEF RequestKept, OwnRows, p
<1>13. VersionInForce(v)'
  <2> SUFFICES ASSUME Reporting(v), txn[v].pc \in WithPlatform
               PROVE  /\ IsCurrent(platform'[txn[v].pid])
                      /\ platform'[txn[v].pid].by = v =>
                           \A i \in Committed(platform') : platform'[i].fid = p =>
                              /\ i < txn[v].pid
                              /\ IsCurrent(platform'[i]) => platform'[i].endedBy = v
    BY <1>3 DEF VersionInForce, p
  <2>1. /\ IsCurrent(platform[txn[v].pid])
        /\ platform[txn[v].pid].by = v =>
             \A i \in Committed(platform) : platform[i].fid = p =>
                i < txn[v].pid /\ (IsCurrent(platform[i]) => platform[i].endedBy = v)
    BY <1>5 DEF VersionInForce, p
  <2>2. /\ platform'[txn[v].pid].by = platform[txn[v].pid].by
        /\ platform'[txn[v].pid].endedAt = platform[txn[v].pid].endedAt
    BY <1>8, <1>12
  <2> QED
    BY <1>9, <2>1, <2>2 DEF IsCurrent
<1>14. ASSUME Reporting(v), txn[v].pc \in WithPlatform
       PROVE  \A i \in Committed(activity') : activity'[i].platform = txn[v].pid =>
                /\ i \in Committed(activity) /\ activity[i].platform = txn[v].pid
                /\ activity'[i].fid = activity[i].fid
                /\ IsCurrent(activity'[i]) => IsCurrent(activity[i])
                /\ activity[i].endedBy = v => activity'[i].endedBy = v
  <2> SUFFICES ASSUME NEW i \in Committed(activity'), activity'[i].platform = txn[v].pid
               PROVE  /\ i \in Committed(activity) /\ activity[i].platform = txn[v].pid
                      /\ activity'[i].fid = activity[i].fid
                      /\ IsCurrent(activity'[i]) => IsCurrent(activity[i])
                      /\ activity[i].endedBy = v => activity'[i].endedBy = v
    OBVIOUS
  <2>1. VersionFid(i)' = p
    BY <1>8, <1>12, <1>14 DEF VersionFid
  <2>2. i \in Committed(activity)
    BY <1>8, <2>1
  <2>3. i \in DOMAIN activity
    BY <2>2 DEF Committed
  <2>4. activity[i].endedBy = w => IsCurrent(activity[i])
    BY <1>2, <2>3 DEF TransactionsInv, Locked, RowsMarked
  <2> QED
    BY <1>1, <1>2, <2>2, <2>3, <2>4 DEF StepOf, IsCurrent
<1>15. \A i \in DOMAIN activity' : activity'[i].by = v =>
         i \in DOMAIN activity /\ activity[i].by = v /\ activity'[i].fid = activity[i].fid
  BY <1>1, <1>2 DEF StepOf
<1>16. BatchIsolated(v)'
  <2> SUFFICES ASSUME Reporting(v)
               PROVE  BatchIsolated(v)'
    BY <1>3 DEF BatchIsolated
  <2>1. CASE txn[v].pc \in {"end activity", "lock activity", "insert"}
    <3>1. txn[v].pc \in WithPlatform /\ txn[v].pc # "answered"
      BY <2>1 DEF WithPlatform
    <3>2. ASSUME NEW fids, NoneLeft(v, fids)
          PROVE  \A i \in Committed(activity') :
                   activity'[i].platform = txn[v].pid /\ activity'[i].fid \in fids /\ IsCurrent(activity'[i])
                     => activity'[i].endedBy = v \/ (txn[v].pc = "lock activity" /\ i \in txn[v].targets)
      BY <1>14, <3>1, <3>2 DEF NoneLeft
    <3>3. ASSUME NEW fids, NoneLeft(v, fids)
          PROVE  NoneLeft(v, fids)'
      BY <1>3, <3>2, <3>3 DEF NoneLeft
    <3>4. /\ (txn[v].pc = "end activity" /\ txn[v].request.kind = "bulk") =>
                /\ txn[v].owner = txn[v].pid
                /\ NoneLeft(v, Range(txn[v].accepted) \ txn[v].ending)
          /\ (txn[v].pc = "lock activity" /\ txn[v].request.kind = "bulk") =>
                NoneLeft(v, Range(txn[v].accepted))
          /\ txn[v].pc = "insert" => NoneLeft(v, Range(InsertedIds(v)))
      BY <1>5 DEF BatchIsolated
    <3>5. /\ (txn[v].pc = "end activity" /\ txn[v].request.kind = "bulk") =>
                NoneLeft(v, Range(txn[v].accepted) \ txn[v].ending)'
          /\ (txn[v].pc = "lock activity" /\ txn[v].request.kind = "bulk") =>
                NoneLeft(v, Range(txn[v].accepted))'
          /\ txn[v].pc = "insert" => NoneLeft(v, Range(InsertedIds(v)))'
      BY <1>3, <3>2, <3>4 DEF NoneLeft
    <3> QED
      BY <1>3, <3>1, <3>4, <3>5 DEF BatchIsolated
  <2>2. CASE txn[v].pc = "answered"
    <3>1. txn[v].pc \in WithPlatform
      BY <2>2 DEF WithPlatform
    <3>2. \A i \in Committed(activity), j \in DOMAIN activity :
            activity[j].by = v /\ activity[i].fid = activity[j].fid /\ activity[i].platform = txn[v].pid
              => i < j /\ (IsCurrent(activity[i]) => activity[i].endedBy = v)
      BY <1>5, <2>2 DEF BatchIsolated
    <3>3. \A i \in Committed(activity'), j \in DOMAIN activity' :
            activity'[j].by = v /\ activity'[i].fid = activity'[j].fid /\ activity'[i].platform = txn[v].pid
              => i < j /\ (IsCurrent(activity'[i]) => activity'[i].endedBy = v)
      BY <1>14, <1>15, <3>1, <3>2
    <3> QED
      BY <1>3, <2>2, <3>3 DEF BatchIsolated
  <2>3. CASE txn[v].pc \notin {"end activity", "lock activity", "insert", "answered"}
    BY <1>3, <2>3 DEF BatchIsolated
  <2> QED
    BY <2>1, <2>2, <2>3
<1> QED
  BY <1>10, <1>11, <1>13, <1>16

-----------------------------------------------------------------------------
\* Until it commits, a request changes nothing of what is committed.
LEMMA OwnStepUnseen ==
  ASSUME TransactionsInv, NEW w \in Workers, StepBy(w), Started(w), txn'[w].pc # "idle"
  PROVE  /\ txn'[w].request = txn[w].request /\ txn'[w].time = txn[w].time /\ overlapped' = overlapped
         /\ Committed(platform') = Committed(platform) /\ Committed(activity') = Committed(activity)
         /\ \A i \in Committed(platform) :
              /\ platform'[i].fid = platform[i].fid /\ platform'[i].createdAt = platform[i].createdAt
              /\ platform'[i].endedAt = platform[i].endedAt
         /\ \A i \in Committed(activity) :
              /\ activity'[i].fid = activity[i].fid /\ activity'[i].createdAt = activity[i].createdAt
              /\ activity'[i].endedAt = activity[i].endedAt
              /\ activity'[i].platform = activity[i].platform
              /\ activity[i].platform \in Committed(platform)
<1>1. StepEffect(w) /\ w \notin {"committed", "aborted", "nobody"} /\ Typed /\ Owned
  BY EffectOfStep, WorkerTypes DEF TransactionsInv
<1>2. ~Commit(w)
  <2>1. Commit(w) => txn'[w] = Idle
    BY <1>1, CommitEffect DEF IsCommitted, Ends
  <2> QED
    BY <2>1 DEF Idle
<1>3. /\ StepOf(platform, platform', w, txn[w].time) /\ StepOf(activity, activity', w, txn[w].time)
      /\ Unseen(platform, platform') /\ Unseen(activity, activity')
      /\ \A i \in DOMAIN activity : activity'[i].platform = activity[i].platform
  BY <1>1, <1>2 DEF StepEffect
<1>4. Committed(platform') = Committed(platform) /\ Committed(activity') = Committed(activity)
  BY <1>1, <1>3, StepKeepsCommitted
<1>5. txn'[w].request = txn[w].request /\ txn'[w].time = txn[w].time /\ overlapped' = overlapped
  BY <1>1, StepKeepsRequest
<1>6. \A i \in Committed(platform) :
        /\ platform'[i].fid = platform[i].fid /\ platform'[i].createdAt = platform[i].createdAt
        /\ platform'[i].endedAt = platform[i].endedAt
  BY <1>3 DEF StepOf, Unseen, Committed
<1>7. \A i \in Committed(activity) :
        /\ activity'[i].fid = activity[i].fid /\ activity'[i].createdAt = activity[i].createdAt
        /\ activity'[i].endedAt = activity[i].endedAt
        /\ activity'[i].platform = activity[i].platform
        /\ activity[i].platform \in Committed(platform)
  BY <1>1, <1>3 DEF StepOf, Unseen, Committed, Owned
<1> QED
  BY <1>4, <1>5, <1>6, <1>7

\* All that is stored of a platform stays older than the request that reports it.
LEMMA OwnNewestKept ==
  ASSUME TransactionsInv, NEW w \in Workers, StepBy(w), Started(w), txn'[w].pc # "idle", Newest(w)
  PROVE  Newest(w)'
<1> DEFINE p == txn[w].request.platform
<1>1. Frame(w)
  BY EffectOfStep DEF TransactionsInv
<1>2. /\ \A v \in Workers \ {w} : Started(v) => txn[v].request.platform # p
      /\ \A i \in Committed(platform) : platform[i].fid = p =>
           platform[i].createdAt < txn[w].time /\ platform[i].endedAt < txn[w].time
      /\ \A i \in Committed(activity) : VersionFid(i) = p => activity[i].createdAt < txn[w].time
  BY DEF Newest
<1> HIDE DEF p
<1>3. \A v \in Workers \ {w} : Started(v)' => txn'[v].request.platform # p
  BY <1>1, <1>2 DEF Frame, Untouched, Started
<1>4. \A i \in Committed(platform') : platform'[i].fid = p =>
        platform'[i].createdAt < txn[w].time /\ platform'[i].endedAt < txn[w].time
  BY <1>2, OwnStepUnseen
<1>5. \A i \in Committed(activity') : VersionFid(i)' = p => activity'[i].createdAt < txn[w].time
  BY <1>2, OwnStepUnseen DEF VersionFid
<1>6. txn'[w].request.platform = p /\ txn'[w].time = txn[w].time
  BY OwnStepUnseen DEF p
<1> QED
  BY <1>3, <1>4, <1>5, <1>6 DEF Newest

\* A request that starts is the newest of its platform.
LEMMA StartIsolated ==
  ASSUME TransactionsInv, Past, NEW w \in Workers, NEW p \in Platforms, NEW request \in Requests(p),
         Start(w, request)
  PROVE  Isolated(w)'
<1> SUFFICES ASSUME Alone(w)'
             PROVE  Newest(w)' /\ FoundStillHolds(w)' /\ VersionInForce(w)' /\ BatchIsolated(w)'
  BY DEF Isolated
<1>1. Typed /\ now \in Nat /\ Owned
  BY WorkerTypes DEF TransactionsInv
<1>2. /\ now' = now + 1 /\ request.platform = p
      /\ txn'[w].request = request /\ txn'[w].time = now + 1
      /\ \A v \in Workers \ {w} : Untouched(v)
      /\ \A v \in Workers \ {w} : Started(v) /\ txn[v].request.platform = p => p \in overlapped'
      /\ UNCHANGED <<platform, activity>>
  BY <1>1, StartEffect
<1>3. \/ request.kind \in {"post", "bulk"} /\ txn'[w].pc = "find platform"
      \/ request.kind = "end platform" /\ txn'[w].pc = "end platform"
      \/ request.kind = "end activity" /\ txn'[w].pc = "end activity"
  BY <1>1, StartEffect
<1>4. p \notin overlapped'
  BY <1>2 DEF Alone
<1>5. Newest(w)'
  <2>1. \A v \in Workers \ {w} : Started(v)' => txn'[v].request.platform # p
    BY <1>2, <1>4 DEF Untouched, Started
  <2> DEFINE t == now + 1
  <2>2. /\ \A i \in Committed(platform) : platform[i].createdAt < t /\ platform[i].endedAt < t
        /\ \A i \in Committed(activity) : activity[i].createdAt < t
    <3>1. /\ \A i \in Committed(platform) : platform[i].createdAt \in Nat /\ platform[i].endedAt \in Nat
          /\ \A i \in Committed(activity) : activity[i].createdAt \in Nat
      BY <1>1, RowTypes DEF Committed
    <3> QED
      BY <1>1, <3>1 DEF Past
  <2> HIDE DEF t
  <2>3. /\ \A i \in Committed(platform') : platform'[i].createdAt < t /\ platform'[i].endedAt < t
        /\ \A i \in Committed(activity') : activity'[i].createdAt < t
    BY <1>2, <2>2
  <2>4. txn'[w].request.platform = p /\ txn'[w].time = t
    BY <1>2 DEF t
  <2> QED
    BY <2>1, <2>3, <2>4 DEF Newest
<1>6. FoundStillHolds(w)'
  BY <1>3 DEF FoundStillHolds
<1>7. Reporting(w)' => txn'[w].pc = "find platform"
  BY <1>2, <1>3 DEF Reporting
<1>8. VersionInForce(w)'
  BY <1>7 DEF VersionInForce, WithPlatform
<1>9. BatchIsolated(w)'
  BY <1>7 DEF BatchIsolated
<1> QED
  BY <1>5, <1>6, <1>8, <1>9

-----------------------------------------------------------------------------
\* The statements that work with a platform version keep it as it is.
LEMMA VersionSettled ==
  ASSUME Typed, NEW w \in Workers, StepBy(w), Started(w), txn'[w].pc # "idle",
         txn[w].pc \in WithPlatform
  PROVE  UNCHANGED platform /\ txn'[w].pid = txn[w].pid /\ txn'[w].pc \in WithPlatform
<1>1. txn[w].pc \notin {"idle", "find platform", "any platform", "end platform", "lock platform"}
  BY DEF WithPlatform
<1>2. ~(\E p \in Platforms : \E request \in Requests(p) : Start(w, request))
  BY StartEffect
<1>3. ~Crash(w) /\ ~DeadlockDetected(w) /\ ~Commit(w) /\ ~IsRolledBack(w)
  <2>1. ~IsRolledBack(w) /\ ~IsCommitted(w)
    BY DEF IsRolledBack, IsCommitted, Ends, Idle
  <2> QED
    BY <2>1, CommitEffect, FailureEffect
<1>4. CASE FindActivity(w)
  BY <1>3, <1>4, FindActivityEffect DEF Reads, GoesOn, WithPlatform
<1>5. CASE AnyActivity(w)
  BY <1>3, <1>5, AnyActivityEffect DEF Reads, GoesOn, WithPlatform
<1>6. CASE FindDeactivated(w)
  BY <1>6, FindDeactivatedEffect DEF Reads, GoesOn, WithPlatform
<1>7. CASE FindCurrent(w)
  BY <1>7, FindCurrentEffect DEF Reads, GoesOn, WithPlatform
<1>8. CASE EndActivity(w)
  BY <1>8, EndActivityEffect DEF Reads, GoesOn, WithPlatform
<1>9. CASE LockActivity(w)
  BY <1>9, LockActivityEffect DEF Reads, GoesOn, WithPlatform, LocksActivity
<1>10. CASE InsertAndAnswer(w)
  BY <1>10, InsertAndAnswerEffect DEF GoesOn, WithPlatform
<1>11. CASE FindExisting(w)
  BY <1>11, FindExistingEffect DEF Reads, GoesOn, WithPlatform
<1> QED
  BY <1>1, <1>2, <1>3, <1>4, <1>5, <1>6, <1>7, <1>8, <1>9, <1>10, <1>11
     DEF StepBy, Step, FindPlatform, AnyPlatform, EndPlatform, LockPlatform

\* The statements that find and end the platform version.
LEMMA SettlesPlatform ==
  ASSUME Typed, NEW w \in Workers, StepBy(w), Started(w), txn'[w].pc # "idle",
         txn[w].pc \notin WithPlatform
  PROVE  \/ /\ txn[w].pc = "find platform"
            /\ CurrentTo(w, platform, txn[w].request.platform) = {}
            /\ txn'[w].pc = "any platform" /\ UNCHANGED platform
         \/ /\ txn[w].pc = "find platform" /\ txn'[w].pc = "end platform"
         \/ /\ txn[w].pc = "find platform" /\ txn'[w].pc = "existing"
            /\ txn'[w].pid \in CurrentTo(w, platform, txn[w].request.platform)
            /\ UNCHANGED platform
         \/ /\ txn[w].pc = "any platform" /\ InsertsPlatform(w)
         \/ /\ txn[w].pc = "end platform" /\ txn'[w].pc = "lock platform"
            /\ txn'[w].targets = PlatformTargets(w) /\ UNCHANGED platform
         \/ \E i \in txn[w].targets : LocksPlatform(w, i)
         \/ /\ txn[w].pc = "lock platform" /\ txn'[w].pc = "answered"
            /\ txn[w].request.kind = "end platform"
         \/ /\ txn[w].pc = "lock platform" /\ txn[w].targets = {} /\ InsertsPlatform(w)
<1>1. txn[w].pc \in {"find platform", "any platform", "end platform", "lock platform"}
  BY WorkerTypes DEF WithPlatform, Statements, Started
<1>2. ~(\E p \in Platforms : \E request \in Requests(p) : Start(w, request))
  BY StartEffect
<1>3. ~Crash(w) /\ ~DeadlockDetected(w) /\ ~Commit(w) /\ ~IsRolledBack(w)
  <2>1. ~IsRolledBack(w) /\ ~IsCommitted(w)
    BY DEF IsRolledBack, IsCommitted, Ends, Idle
  <2> QED
    BY <2>1, CommitEffect, FailureEffect
<1>4. CASE FindPlatform(w)
  BY <1>3, <1>4, FindPlatformEffect DEF Reads, GoesOn
<1>5. CASE AnyPlatform(w)
  BY <1>3, <1>5, AnyPlatformEffect
<1>6. CASE EndPlatform(w)
  BY <1>6, EndPlatformEffect DEF Reads, GoesOn
<1>7. CASE LockPlatform(w)
  BY <1>7, LockPlatformEffect DEF Reads, GoesOn
<1> QED
  BY <1>1, <1>2, <1>3, <1>4, <1>5, <1>6, <1>7
     DEF StepBy, Step, FindActivity, AnyActivity, FindExisting, FindDeactivated, FindCurrent,
         EndActivity, LockActivity, InsertAndAnswer

\* What the first SELECTs found of the platform still holds after the next one.
LEMMA OwnFoundKept ==
  ASSUME TransactionsInv, NEW w \in Workers, StepBy(w), Started(w), txn'[w].pc # "idle",
         FoundStillHolds(w)
  PROVE  FoundStillHolds(w)'
<1> DEFINE p == txn[w].request.platform
<1>1. Typed /\ Locked /\ Owned /\ w \notin {"committed", "aborted", "nobody"}
  BY WorkerTypes DEF TransactionsInv
<1>2. /\ txn'[w].request = txn[w].request /\ Committed(platform') = Committed(platform)
      /\ \A i \in Committed(platform) :
           platform'[i].fid = platform[i].fid /\ platform'[i].endedAt = platform[i].endedAt
  BY OwnStepUnseen
<1>3. CASE txn[w].pc \in WithPlatform
  <2>1. txn'[w].pc \in WithPlatform
    BY <1>1, <1>3, VersionSettled
  <2> QED
    BY <2>1 DEF FoundStillHolds, WithPlatform
<1>4. CASE txn[w].pc = "find platform" /\ CurrentTo(w, platform, p) = {}
           /\ txn'[w].pc = "any platform" /\ UNCHANGED platform
  <2>1. txn[w].pc \notin WithPlatform \cup {"lock platform"}
    BY <1>4 DEF WithPlatform
  <2>2. \A i \in Committed(platform) : platform[i].fid = p => ~IsCurrent(platform[i])
    <3>1. \A i \in DOMAIN platform : platform[i].endedBy # w
      BY <1>1, <2>1 DEF Locked, LocksHeld
    <3> QED
      BY <1>4, <3>1 DEF CurrentTo, VisibleTo, Versions, Committed
  <2> QED
    BY <1>2, <1>4, <2>2 DEF FoundStillHolds
<1>5. CASE txn[w].pc = "end platform" /\ txn'[w].pc = "lock platform"
           /\ txn'[w].targets = PlatformTargets(w) /\ UNCHANGED platform
  <2>1. \A i \in Committed(platform) : platform[i].fid = p /\ IsCurrent(platform[i])
           => i \in txn'[w].targets \/ platform[i].endedBy = w
    BY <1>5 DEF PlatformTargets, CurrentTo, VisibleTo, Versions, Committed
  <2> QED
    BY <1>2, <1>5, <2>1 DEF FoundStillHolds
<1>6. ASSUME NEW i \in txn[w].targets, LocksPlatform(w, i)
      PROVE  FoundStillHolds(w)'
  <2>1. /\ i \in DOMAIN platform /\ RowEnded(platform[i], platform'[i], w)
        /\ \A j \in DOMAIN platform \ {i} : platform'[j] = platform[j]
    BY <1>1, <1>6, RowsOfLockPlatform
  <2>2. /\ txn[w].pc = "lock platform" /\ txn'[w].pc = "lock platform"
        /\ txn'[w].targets = txn[w].targets \ {i}
    BY <1>6 DEF LocksPlatform, GoesOn
  <2>3. \A j \in Committed(platform) : platform[j].fid = p /\ IsCurrent(platform[j])
          => j \in txn[w].targets \/ platform[j].endedBy = w
    BY <2>2 DEF FoundStillHolds
  <2>4. \A j \in Committed(platform) : platform[j].fid = p /\ IsCurrent(platform[j])
          => j \in txn'[w].targets \/ platform'[j].endedBy = w
    BY <2>1, <2>2, <2>3 DEF RowEnded, Committed
  <2> QED
    BY <1>2, <2>2, <2>4 DEF FoundStillHolds, IsCurrent
<1>7. CASE txn'[w].pc \notin {"any platform", "lock platform"}
  BY <1>7 DEF FoundStillHolds
<1>8. InsertsPlatform(w) => txn'[w].pc \notin {"any platform", "lock platform"}
  BY <1>1, AfterPlatformType DEF InsertsPlatform, GoesOn
<1> QED
  BY <1>1, <1>3, <1>4, <1>5, <1>6, <1>7, <1>8, SettlesPlatform

-----------------------------------------------------------------------------
\* The version a report inserts comes after the committed ones, and is the only
\* current one if those that are have been ended by the request.
LEMMA InsertedInForce ==
  ASSUME TransactionsInv, NEW w \in Workers, StepBy(w), Started(w), txn'[w].pc # "idle",
         InsertsPlatform(w),
         \A i \in Committed(platform) :
            platform[i].fid = txn[w].request.platform /\ IsCurrent(platform[i]) => platform[i].endedBy = w
  PROVE  VersionInForce(w)'
<1> DEFINE p == txn[w].request.platform
           mine == Len(platform) + 1
<1>1. /\ Typed /\ Len(platform) \in Nat /\ DOMAIN platform = 1..Len(platform)
      /\ platform \in Seq(PlatformRow)
  BY WorkerTypes DEF TransactionsInv, Typed
<1>2. /\ txn'[w].request = txn[w].request /\ Committed(platform') = Committed(platform)
      /\ txn'[w].pid = mine
  BY OwnStepUnseen DEF InsertsPlatform, GoesOn
<1>3. /\ \A i \in DOMAIN platform : platform'[i] = platform[i]
      /\ platform'[mine].endedAt = NotEnded
  BY <1>1, RowsOfInsertPlatform
<1>4. \A i \in Committed(platform) : i < mine
  BY <1>1 DEF Committed
<1>5. \A i \in Committed(platform) :
         platform'[i].fid = p /\ IsCurrent(platform'[i]) => platform'[i].endedBy = w
  BY <1>3 DEF Committed
<1> HIDE DEF mine, p
<1>6. txn'[w].request.platform = p
  BY <1>2 DEF p
<1> QED
  BY <1>2, <1>3, <1>4, <1>5, <1>6 DEF VersionInForce, IsCurrent

\* The version a report uses stays the one in force.
LEMMA OwnVersionKept ==
  ASSUME TransactionsInv, NEW w \in Workers, StepBy(w), Started(w), txn'[w].pc # "idle",
         FoundStillHolds(w), VersionInForce(w)
  PROVE  VersionInForce(w)'
<1> DEFINE p == txn[w].request.platform
<1>1. Typed /\ Locked /\ Owned /\ w \notin {"committed", "aborted", "nobody"}
  BY WorkerTypes DEF TransactionsInv
<1>2. txn'[w].request = txn[w].request
  BY OwnStepUnseen
<1>3. Reporting(w)' => Reporting(w)
  BY <1>2 DEF Reporting
<1>4. CASE txn[w].pc \in WithPlatform
  <2>1. platform' = platform /\ txn'[w].pid = txn[w].pid
    BY <1>1, <1>4, VersionSettled
  <2> QED
    BY <1>2, <1>3, <1>4, <2>1 DEF VersionInForce
<1>5. CASE txn'[w].pid \in CurrentTo(w, platform, p) /\ UNCHANGED platform
           /\ txn[w].pc = "find platform"
  <2>1. txn[w].pc \notin WithPlatform
    BY <1>5 DEF WithPlatform
  <2>2. \A i \in DOMAIN platform : platform[i].by # w
    BY <1>1, <2>1, NothingOwned
  <2>3. IsCurrent(platform[txn'[w].pid]) /\ platform[txn'[w].pid].by # w
    BY <1>5, <2>2 DEF CurrentTo, VisibleTo, Versions
  <2> QED
    BY <1>5, <2>3 DEF VersionInForce
<1>6. CASE txn[w].pc = "any platform" /\ InsertsPlatform(w)
  BY <1>6, InsertedInForce DEF FoundStillHolds
<1>7. CASE txn[w].pc = "lock platform" /\ txn[w].targets = {} /\ InsertsPlatform(w)
  BY <1>7, InsertedInForce DEF FoundStillHolds
<1>8. CASE txn[w].pc = "lock platform" /\ txn'[w].pc = "answered" /\ txn[w].request.kind = "end platform"
  BY <1>2, <1>8 DEF VersionInForce, Reporting
<1>9. ASSUME NEW i \in txn[w].targets, LocksPlatform(w, i)
      PROVE  VersionInForce(w)'
  BY <1>9 DEF VersionInForce, LocksPlatform, GoesOn, WithPlatform
<1>10. CASE txn'[w].pc \notin WithPlatform
  BY <1>10 DEF VersionInForce
<1>11. txn'[w].pc \in {"any platform", "end platform", "lock platform"} => txn'[w].pc \notin WithPlatform
  BY DEF WithPlatform
<1>12. CASE txn[w].pc \notin WithPlatform
  BY <1>1, <1>5, <1>6, <1>7, <1>8, <1>9, <1>10, <1>11, <1>12, SettlesPlatform
<1> QED
  BY <1>4, <1>12

-----------------------------------------------------------------------------
\* The statements on the activities of a batch.
LEMMA BatchStatements ==
  ASSUME Typed, NEW w \in Workers, StepBy(w), Started(w), txn'[w].pc # "idle",
         txn[w].pc \in WithPlatform, txn[w].request.kind = "bulk"
  PROVE  \/ txn[w].pc = "existing" /\ txn'[w].pc = "deactivated"
         \/ txn[w].pc = "deactivated" /\ txn'[w].pc = "current"
         \/ /\ txn[w].pc = "current"
            /\ Reads(w, IF EndingUnder(w) = {} THEN "insert" ELSE "end activity", txn[w].pid,
                     txn[w].pid, EndingUnder(w), txn[w].targets, txn[w].accepted)
         \/ /\ txn[w].pc = "end activity"
            /\ Reads(w, "lock activity", txn[w].pid, txn[w].owner, txn[w].ending,
                     ActivityTargets(w), txn[w].accepted)
         \/ \E i \in txn[w].targets : LocksActivity(w, i)
         \/ /\ txn[w].pc = "lock activity" /\ txn[w].targets = {}
            /\ Reads(w, "insert", txn[w].pid, txn[w].owner, txn[w].ending, txn[w].targets,
                     txn[w].accepted)
         \/ InsertAndAnswer(w)
<1>1. txn[w].pc \notin {"idle", "find platform", "any platform", "end platform", "lock platform"}
  BY DEF WithPlatform
<1>2. ~(\E p \in Platforms : \E request \in Requests(p) : Start(w, request))
  BY StartEffect
<1>3. ~Crash(w) /\ ~DeadlockDetected(w) /\ ~Commit(w)
  <2>1. ~IsRolledBack(w) /\ ~IsCommitted(w)
    BY DEF IsRolledBack, IsCommitted, Ends, Idle
  <2> QED
    BY <2>1, CommitEffect, FailureEffect
<1>4. ~FindActivity(w) /\ ~AnyActivity(w)
  BY FindActivityEffect, NextStatement, AnyActivityEffect
<1>5. CASE FindDeactivated(w)
  BY <1>5, FindDeactivatedEffect DEF Reads, GoesOn
<1>6. CASE FindCurrent(w)
  BY <1>6, FindCurrentEffect
<1>7. CASE EndActivity(w)
  BY <1>7, EndActivityEffect
<1>8. CASE LockActivity(w)
  BY <1>8, LockActivityEffect
<1>9. CASE FindExisting(w)
  BY <1>9, FindExistingEffect DEF Reads, GoesOn
<1> QED
  BY <1>1, <1>2, <1>3, <1>4, <1>5, <1>6, <1>7, <1>8, <1>9
     DEF StepBy, Step, FindPlatform, AnyPlatform, EndPlatform, LockPlatform

\* The single flow always inserts a version, which no committed activity has.
LEMMA PostVersionUnused ==
  ASSUME TransactionsInv, NEW w \in Workers, StepBy(w), Started(w), txn'[w].pc # "idle",
         txn[w].request.kind = "post", txn'[w].pc \in WithPlatform
  PROVE  BatchIsolated(w)'
<1>1. Typed /\ Locked /\ Owned /\ w \notin {"committed", "aborted", "nobody"}
  BY WorkerTypes DEF TransactionsInv
<1>2. txn'[w].request = txn[w].request
  BY OwnStepUnseen
<1>3. Owned'
  BY <1>1, OwnedKept
<1>4. OwnRows(w)' /\ \A i \in Committed(activity') : activity'[i].platform \in Committed(platform')
  BY <1>3 DEF Owned
<1>5. platform'[txn'[w].pid].by = w
  BY <1>2, <1>4 DEF OwnRows, Reporting, Started
<1>6. txn'[w].pid \notin Committed(platform')
  BY <1>1, <1>5 DEF Committed
<1>7. \A i \in Committed(activity') : activity'[i].platform # txn'[w].pid
  BY <1>4, <1>6
<1>8. txn'[w].request.kind # "bulk"
  BY <1>2
<1>9. NoneLeft(w, Range(InsertedIds(w)))'
  BY <1>7 DEF NoneLeft
<1> QED
  BY <1>7, <1>8, <1>9 DEF BatchIsolated

\* What the running statement of a batch is going to end, before it starts and
\* while it locks.
LEMMA BatchEndsAll ==
  ASSUME TransactionsInv, NEW w \in Workers, StepBy(w), Started(w), txn'[w].pc # "idle",
         txn[w].pc = "end activity", NoneLeft(w, Range(txn[w].accepted) \ txn[w].ending),
         txn[w].owner = txn[w].pid,
         Reads(w, "lock activity", txn[w].pid, txn[w].owner, txn[w].ending,
               ActivityTargets(w), txn[w].accepted)
  PROVE  NoneLeft(w, Range(txn[w].accepted))'
<1> DEFINE mine == txn[w].pid
<1>1. /\ txn'[w].pc = "lock activity" /\ txn'[w].targets = ActivityTargets(w)
      /\ txn'[w].pid = mine /\ txn'[w].accepted = txn[w].accepted /\ activity' = activity
  BY DEF Reads, GoesOn
<1>2. ASSUME NEW i \in Committed(activity), activity[i].platform = mine,
             activity[i].fid \in Range(txn[w].accepted), IsCurrent(activity[i])
      PROVE  activity[i].endedBy = w \/ i \in ActivityTargets(w)
  <2>1. CASE activity[i].fid \in txn[w].ending
    <3>1. activity[i].endedBy = w \/ i \in CurrentTo(w, activity, activity[i].fid)
      BY <1>2 DEF CurrentTo, VisibleTo, Versions, Committed
    <3>2. i \in CurrentTo(w, activity, activity[i].fid) =>
            i \in UNION {CurrentTo(w, activity, x) : x \in txn[w].ending}
      BY <2>1
    <3> QED
      BY <1>2, <3>1, <3>2 DEF ActivityTargets
  <2>2. CASE activity[i].fid \notin txn[w].ending
    <3>1. txn[w].pc # "lock activity"
      OBVIOUS
    <3> QED
      BY <1>2, <2>2, <3>1 DEF NoneLeft
  <2> QED
    BY <2>1, <2>2
<1> QED
  BY <1>1, <1>2 DEF NoneLeft

\* A row that the statement of a batch has locked is one of those it ends.
LEMMA BatchLocksAll ==
  ASSUME TransactionsInv, NEW w \in Workers, StepBy(w), Started(w), txn'[w].pc # "idle",
         NEW i \in txn[w].targets, LocksActivity(w, i), NoneLeft(w, Range(txn[w].accepted))
  PROVE  NoneLeft(w, Range(txn[w].accepted))'
<1>1. /\ i \in DOMAIN activity /\ RowEnded(activity[i], activity'[i], w)
      /\ \A j \in DOMAIN activity \ {i} : activity'[j] = activity[j]
  BY RowsOfLockActivity DEF TransactionsInv
<1>2. /\ txn[w].pc = "lock activity" /\ txn'[w].pc = "lock activity"
      /\ txn'[w].targets = txn[w].targets \ {i}
      /\ txn'[w].pid = txn[w].pid /\ txn'[w].accepted = txn[w].accepted
  BY DEF LocksActivity, GoesOn
<1>3. /\ Committed(activity') = Committed(activity)
      /\ \A j \in Committed(activity) :
           /\ activity'[j].fid = activity[j].fid /\ activity'[j].endedAt = activity[j].endedAt
           /\ activity'[j].platform = activity[j].platform
  BY OwnStepUnseen
<1>4. ASSUME NEW j \in Committed(activity), activity[j].platform = txn[w].pid,
             activity[j].fid \in Range(txn[w].accepted), IsCurrent(activity[j])
      PROVE  activity'[j].endedBy = w \/ j \in txn'[w].targets
  <2>1. activity[j].endedBy = w \/ j \in txn[w].targets
    BY <1>4 DEF NoneLeft
  <2>2. CASE j = i
    BY <1>1, <1>4, <2>2 DEF RowEnded
  <2>3. CASE j # i
    BY <1>1, <1>2, <2>1, <2>3 DEF Committed
  <2> QED
    BY <2>2, <2>3
<1> QED
  BY <1>2, <1>3, <1>4 DEF NoneLeft, IsCurrent

\* What is left under the version when the INSERT of a batch comes next.
LEMMA BatchFindsAll ==
  ASSUME TransactionsInv, NEW w \in Workers, NEW ending, ending = EndingUnder(w), NEW pc, NEW owner,
         Reads(w, pc, txn[w].pid, owner, ending, txn[w].targets, txn[w].accepted)
  PROVE  NoneLeft(w, Range(txn[w].accepted) \ txn[w].ending)'
<1>1. /\ txn'[w].ending = ending /\ txn'[w].accepted = txn[w].accepted
      /\ txn'[w].pid = txn[w].pid /\ activity' = activity
  BY DEF Reads, GoesOn
<1>2. ASSUME NEW i \in Committed(activity), activity[i].platform = txn[w].pid,
             activity[i].fid \in Range(txn[w].accepted), activity[i].fid \notin ending,
             IsCurrent(activity[i])
      PROVE  activity[i].endedBy = w
  <2>1. i \notin CurrentTo(w, activity, activity[i].fid)
    BY <1>2 DEF EndingUnder
  <2> QED
    BY <1>2, <2>1 DEF CurrentTo, VisibleTo, Versions, Committed
<1> QED
  BY <1>1, <1>2 DEF NoneLeft

\* The rows that a report inserts come after those they replace.
LEMMA InsertedLast ==
  ASSUME TransactionsInv, NEW w \in Workers, StepBy(w), Started(w), txn'[w].pc # "idle",
         InsertAndAnswer(w), NoneLeft(w, Range(InsertedIds(w)))
  PROVE  \A i \in Committed(activity'), j \in DOMAIN activity' :
            activity'[j].by = w /\ activity'[i].fid = activity'[j].fid /\ activity'[i].platform = txn[w].pid
              => i < j /\ (IsCurrent(activity'[i]) => activity'[i].endedBy = w)
<1>1. /\ Typed /\ Owned
      /\ Len(activity) \in Nat /\ DOMAIN activity = 1..Len(activity)
  BY DEF TransactionsInv, Typed
<1>2. Committed(activity') = Committed(activity)
  BY OwnStepUnseen
<1>3. /\ \A i \in DOMAIN activity : activity'[i] = activity[i]
      /\ \A k \in DOMAIN activity' \ DOMAIN activity :
           /\ k > Len(activity)
           /\ k - Len(activity) \in DOMAIN InsertedIds(w)
           /\ activity'[k].fid = InsertedIds(w)[k - Len(activity)]
  BY <1>1, RowsOfInsert
<1>4. txn[w].pc = "insert"
  BY <1>1, InsertAndAnswerEffect
<1>5. \A i \in DOMAIN activity : activity[i].by # w
  BY <1>1, <1>4, NothingOwned
<1>6. \A i \in Committed(activity) :
        activity[i].platform = txn[w].pid /\ activity[i].fid \in Range(InsertedIds(w)) /\ IsCurrent(activity[i])
          => activity[i].endedBy = w
  BY <1>4 DEF NoneLeft
<1> HIDE <1>4
<1> SUFFICES ASSUME NEW i \in Committed(activity), NEW j \in DOMAIN activity', activity'[j].by = w,
                    activity'[i].fid = activity'[j].fid, activity'[i].platform = txn[w].pid
             PROVE  i < j /\ (IsCurrent(activity'[i]) => activity'[i].endedBy = w)
  BY <1>2
<1>7. i \in 1..Len(activity) /\ activity'[i] = activity[i]
  BY <1>1, <1>3 DEF Committed
<1>8. j \notin DOMAIN activity
  BY <1>3, <1>5
<1>9. j > Len(activity) /\ activity'[j].fid \in Range(InsertedIds(w))
  BY <1>3, <1>8 DEF Range
<1>10. j \in Nat
  BY <1>1, EffectOfStep DEF StepEffect
<1>11. i < j
  BY <1>1, <1>7, <1>9, <1>10
<1> QED
  BY <1>6, <1>7, <1>9, <1>11

\* The UPDATE of a batch reaches all that its INSERT replaces.
LEMMA OwnBatchKept ==
  ASSUME TransactionsInv, NEW w \in Workers, StepBy(w), Started(w), txn'[w].pc # "idle",
         BatchIsolated(w)
  PROVE  BatchIsolated(w)'
<1>1. Typed /\ Locked /\ Owned
  BY DEF TransactionsInv
<1>2. txn'[w].request = txn[w].request /\ txn'[w].time = txn[w].time
  BY OwnStepUnseen
<1> SUFFICES ASSUME Reporting(w)
             PROVE  BatchIsolated(w)'
  BY <1>2 DEF BatchIsolated, Reporting
<1>3. CASE txn'[w].pc \notin WithPlatform
  BY <1>3 DEF BatchIsolated, WithPlatform
<1>4. CASE txn'[w].pc \in WithPlatform /\ txn[w].request.kind = "post"
  BY <1>4, PostVersionUnused
<1>5. CASE txn[w].pc \notin WithPlatform /\ txn[w].request.kind = "bulk"
  <2>1. InsertsPlatform(w) => txn'[w].pc = "existing"
    BY <1>1, <1>5, AfterPlatformType DEF InsertsPlatform, GoesOn
  <2>2. \A i \in txn[w].targets : LocksPlatform(w, i) => txn'[w].pc = "lock platform"
    BY DEF LocksPlatform, GoesOn
  <2>3. txn'[w].pc \notin {"end activity", "lock activity", "insert", "answered"}
    BY <1>1, <1>5, <2>1, <2>2, SettlesPlatform
  <2> QED
    BY <2>3 DEF BatchIsolated
<1>6. CASE txn[w].pc \in WithPlatform /\ txn[w].request.kind = "bulk"
  <2>1. InsertedIds(w) = txn[w].accepted /\ InsertedIds(w)' = txn'[w].accepted
    BY <1>2, <1>6 DEF InsertedIds
  <2>2. CASE txn'[w].pc \in {"deactivated", "current"}
    BY <2>2 DEF BatchIsolated
  <2>3. CASE /\ txn[w].pc = "current"
             /\ Reads(w, IF EndingUnder(w) = {} THEN "insert" ELSE "end activity", txn[w].pid,
                      txn[w].pid, EndingUnder(w), txn[w].targets, txn[w].accepted)
    <3>1. NoneLeft(w, Range(txn[w].accepted) \ txn[w].ending)'
      BY <2>3, BatchFindsAll
    <3>2. CASE EndingUnder(w) # {}
      <4>1. txn'[w].pc = "end activity" /\ txn'[w].owner = txn'[w].pid
        BY <2>3, <3>2 DEF Reads, GoesOn
      <4> QED
        BY <3>1, <4>1 DEF BatchIsolated
    <3>3. CASE EndingUnder(w) = {}
      <4>1. txn'[w].pc = "insert" /\ txn'[w].ending = {}
        BY <2>3, <3>3 DEF Reads, GoesOn
      <4>2. NoneLeft(w, Range(InsertedIds(w)))'
        BY <2>1, <3>1, <4>1 DEF NoneLeft
      <4> QED
        BY <4>1, <4>2 DEF BatchIsolated
    <3> QED
      BY <3>2, <3>3
  <2>4. CASE /\ txn[w].pc = "end activity"
             /\ Reads(w, "lock activity", txn[w].pid, txn[w].owner, txn[w].ending,
                      ActivityTargets(w), txn[w].accepted)
    <3>1. txn'[w].pc = "lock activity"
      BY <2>4 DEF Reads, GoesOn
    <3>2. txn[w].owner = txn[w].pid /\ NoneLeft(w, Range(txn[w].accepted) \ txn[w].ending)
      BY <1>6, <2>4 DEF BatchIsolated
    <3>3. NoneLeft(w, Range(txn[w].accepted))'
      BY <2>4, <3>2, BatchEndsAll
    <3> QED
      BY <3>1, <3>3 DEF BatchIsolated
  <2>5. ASSUME NEW i \in txn[w].targets, LocksActivity(w, i)
        PROVE  BatchIsolated(w)'
    <3>1. txn[w].pc = "lock activity" /\ txn'[w].pc = "lock activity"
      BY <2>5 DEF LocksActivity, GoesOn
    <3>2. NoneLeft(w, Range(txn[w].accepted))
      BY <1>6, <3>1 DEF BatchIsolated
    <3>3. NoneLeft(w, Range(txn[w].accepted))'
      BY <2>5, <3>2, BatchLocksAll
    <3> QED
      BY <3>1, <3>3 DEF BatchIsolated
  <2>6. CASE /\ txn[w].pc = "lock activity" /\ txn[w].targets = {}
             /\ Reads(w, "insert", txn[w].pid, txn[w].owner, txn[w].ending, txn[w].targets,
                      txn[w].accepted)
    <3>1. /\ txn'[w].pc = "insert" /\ txn'[w].accepted = txn[w].accepted
          /\ txn'[w].pid = txn[w].pid /\ activity' = activity
      BY <2>6 DEF Reads, GoesOn
    <3>2. NoneLeft(w, Range(txn[w].accepted))
      BY <1>6, <2>6 DEF BatchIsolated
    <3>3. NoneLeft(w, Range(InsertedIds(w)))'
      BY <2>1, <2>6, <3>1, <3>2 DEF NoneLeft
    <3> QED
      BY <3>1, <3>3 DEF BatchIsolated
  <2>7. CASE InsertAndAnswer(w)
    <3>1. txn[w].pc = "insert" /\ txn'[w].pc = "answered" /\ txn'[w].pid = txn[w].pid
      BY <1>1, <2>7, InsertAndAnswerEffect DEF GoesOn
    <3>2. NoneLeft(w, Range(InsertedIds(w)))
      BY <3>1 DEF BatchIsolated
    <3>3. \A i \in Committed(activity'), j \in DOMAIN activity' :
            activity'[j].by = w /\ activity'[i].fid = activity'[j].fid /\ activity'[i].platform = txn[w].pid
              => i < j /\ (IsCurrent(activity'[i]) => activity'[i].endedBy = w)
      BY <2>7, <3>2, InsertedLast
    <3> QED
      BY <3>1, <3>3 DEF BatchIsolated
  <2> QED
    BY <1>1, <1>6, <2>2, <2>3, <2>4, <2>5, <2>6, <2>7, BatchStatements
<1>7. txn[w].request.kind \in {"post", "bulk"}
  BY DEF Reporting
<1> QED
  BY <1>3, <1>4, <1>5, <1>6, <1>7

-----------------------------------------------------------------------------
\* Whatever w does, what isolates its own request still holds.
LEMMA OwnIsolatedKept ==
  ASSUME TransactionsInv, Past, NEW w \in Workers, StepBy(w), Isolated(w)
  PROVE  Isolated(w)'
<1>1. Typed
  BY DEF TransactionsInv
<1>2. CASE ~Started(w)
  <2>1. \E p \in Platforms : \E request \in Requests(p) : Start(w, request)
    BY <1>1, <1>2, OnlyStarts
  <2> QED
    BY <2>1, StartIsolated
<1>3. CASE txn'[w].pc = "idle"
  BY <1>3 DEF Isolated, Alone, Started
<1>4. CASE Started(w) /\ txn'[w].pc # "idle"
  <2> SUFFICES ASSUME Alone(w)'
               PROVE  Newest(w)' /\ FoundStillHolds(w)' /\ VersionInForce(w)' /\ BatchIsolated(w)'
    BY DEF Isolated
  <2>1. txn'[w].request = txn[w].request /\ overlapped' = overlapped
    BY <1>4, OwnStepUnseen
  <2>2. Alone(w)
    BY <1>4, <2>1 DEF Alone
  <2>3. Newest(w) /\ FoundStillHolds(w) /\ VersionInForce(w) /\ BatchIsolated(w)
    BY <2>2 DEF Isolated
  <2> QED
    BY <1>4, <2>3, OwnNewestKept, OwnFoundKept, OwnVersionKept, OwnBatchKept
<1> QED
  BY <1>2, <1>3, <1>4

\* Isolation survives every step.
LEMMA IsolationKept ==
  ASSUME TransactionsInv, Isolation, NEW w \in Workers, StepBy(w)
  PROVE  Isolation'
<1>1. Past /\ \A v \in Workers : Isolated(v) /\ DistinctItems(v)
  BY DEF Isolation
<1>2. Past'
  BY <1>1, PastKept
<1>3. Isolated(w)' /\ DistinctItems(w)'
  BY <1>1, OwnIsolatedKept, OwnItemsKept
<1>4. ASSUME NEW v \in Workers \ {w}
      PROVE  Isolated(v)' /\ DistinctItems(v)'
  <2>1. Isolated(v) /\ DistinctItems(v)
    BY <1>1
  <2> QED
    BY <2>1, OthersKeepIsolated, OthersKeepItems
<1> QED
  BY <1>2, <1>3, <1>4 DEF Isolation

\* Nobody is served and nothing is stored.
LEMMA IsolationInit ==
  ASSUME Init
  PROVE  Isolation
<1>1. Committed(platform) = {} /\ Committed(activity) = {} /\ DOMAIN activity = {}
  BY DEF Init, Committed
<1>2. \A w \in Workers : ~Started(w) /\ txn[w].accepted = <<>>
  BY DEF Init, Started, Idle
<1> QED
  BY <1>1, <1>2 DEF Isolation, Past, Isolated, Alone, DistinctItems

\* A stuttering step changes nothing of it.
LEMMA IsolationStutter ==
  ASSUME Isolation, UNCHANGED vars
  PROVE  Isolation'
<1>1. UNCHANGED <<platform, activity, now, txn, overlapped>>
  BY DEF vars
<1>2. Past'
  BY <1>1 DEF Isolation, Past
<1>3. ASSUME NEW w \in Workers
      PROVE  Isolated(w)' /\ DistinctItems(w)'
  <2>1. Isolated(w) /\ DistinctItems(w)
    BY DEF Isolation
  <2>2. InsertedIds(w)' = InsertedIds(w)
    BY <1>1, InsertedIdsKept
  <2>3. (Alone(w)' => Alone(w)) /\ (Newest(w) => Newest(w)')
    BY <1>1 DEF Alone, Started, Newest, VersionFid
  <2>4. (FoundStillHolds(w) => FoundStillHolds(w)') /\ (VersionInForce(w) => VersionInForce(w)')
    BY <1>1 DEF FoundStillHolds, VersionInForce, Reporting, Started
  <2>5. BatchIsolated(w) => BatchIsolated(w)'
    BY <1>1, <2>2 DEF BatchIsolated, NoneLeft, Reporting, Started
  <2>6. DistinctItems(w)'
    BY <1>1, <2>1 DEF DistinctItems
  <2> QED
    BY <2>1, <2>3, <2>4, <2>5, <2>6 DEF Isolated
<1> QED
  BY <1>2, <1>3 DEF Isolation

\* A request whose platform nobody else has asked for meanwhile is isolated
\* although its statements are committed one by one with those of others.
THEOREM TransactionsIsolated == Spec => []Isolation
<1>1. Init => Isolation
  BY IsolationInit
<1>2. TransactionsInv /\ Isolation /\ [Next]_vars => Isolation'
  <2>1. ASSUME TransactionsInv, Isolation, Next
        PROVE  Isolation'
    <3>1. PICK w \in Workers : StepBy(w)
      BY <2>1, NextIsStepBy
    <3> QED
      BY <2>1, <3>1, IsolationKept
  <2>2. ASSUME Isolation, UNCHANGED vars
        PROVE  Isolation'
    BY <2>2, IsolationStutter
  <2> QED
    BY <2>1, <2>2
<1> QED
  BY <1>1, <1>2, TransactionsInvariant, PTL DEF Spec

-----------------------------------------------------------------------------
(***************************************************************************)
(* Platforms that nobody else asks for meanwhile                           *)
(***************************************************************************)

\* Until something is committed, nothing changes for them.
LEMMA UnseenLeavesUndisturbed ==
  ASSUME TransactionsInv, PlatformsUndisturbed, NEW w \in Workers, StepBy(w), ~Commit(w)
  PROVE  PlatformsUndisturbed'
<1>1. /\ StepEffect(w) /\ overlapped \subseteq overlapped' /\ Owned
      /\ w \notin {"committed", "aborted", "nobody"}
  BY EffectOfStep, WorkerTypes DEF TransactionsInv, Frame
<1>2. /\ StepOf(platform, platform', w, txn[w].time) /\ StepOf(activity, activity', w, txn[w].time)
      /\ Unseen(platform, platform') /\ Unseen(activity, activity')
  BY <1>1 DEF StepEffect
<1>3. Committed(platform') = Committed(platform) /\ Committed(activity') = Committed(activity)
  BY <1>1, <1>2, StepKeepsCommitted
<1>4. \A i \in Committed(platform) :
        /\ platform'[i].fid = platform[i].fid /\ platform'[i].createdAt = platform[i].createdAt
        /\ platform'[i].endedAt = platform[i].endedAt
  BY <1>2 DEF StepOf, Unseen, Committed
<1>5. \A i \in Committed(activity) :
        /\ activity'[i].fid = activity[i].fid /\ activity'[i].createdAt = activity[i].createdAt
        /\ activity'[i].endedAt = activity[i].endedAt
        /\ activity'[i].platform = activity[i].platform
        /\ activity[i].platform \in Committed(platform)
  BY <1>1, <1>2 DEF StepEffect, StepOf, Unseen, Committed, Owned
<1>6. CommittedStacked(platform', Platforms \ overlapped')
  <2>1. CommittedStacked(platform, Platforms \ overlapped)
    BY DEF PlatformsUndisturbed
  <2> QED
    BY <1>1, <1>3, <1>4, <2>1 DEF CommittedStacked, IsCurrent
<1>7. ASSUME NEW i \in Committed(activity), platform'[activity'[i].platform].fid \notin overlapped'
      PROVE  /\ InForceAt(platform'[activity'[i].platform], activity'[i].createdAt)
             /\ \A j \in Committed(activity) :
                   (i < j /\ activity'[i].fid = activity'[j].fid
                          /\ activity'[i].platform = activity'[j].platform)
                     => ~IsCurrent(activity'[i])
  <2>1. platform[activity[i].platform].fid \notin overlapped
    BY <1>1, <1>4, <1>5, <1>7
  <2>2. /\ InForceAt(platform[activity[i].platform], activity[i].createdAt)
        /\ \A j \in Committed(activity) :
              (i < j /\ activity[i].fid = activity[j].fid
                     /\ activity[i].platform = activity[j].platform)
                => ~IsCurrent(activity[i])
    BY <2>1 DEF PlatformsUndisturbed
  <2> QED
    BY <1>4, <1>5, <2>2 DEF InForceAt, IsCurrent
<1> QED
  BY <1>3, <1>6, <1>7 DEF PlatformsUndisturbed

\* What a commit makes of the rows: those of w are committed, those it has
\* locked are ended, and what had ended stays as it was.
LEMMA CommitOfRows ==
  ASSUME TransactionsInv, NEW w \in Workers, IsCommitted(w)
  PROVE  /\ \A i \in Committed(platform') : i \in DOMAIN platform /\ (i \in Committed(platform) \/ platform[i].by = w)
         /\ \A i \in Committed(activity') : i \in DOMAIN activity /\ (i \in Committed(activity) \/ activity[i].by = w)
         /\ \A i \in DOMAIN platform :
              /\ platform'[i].fid = platform[i].fid /\ platform'[i].createdAt = platform[i].createdAt
              /\ platform[i].endedBy = w => /\ IsCurrent(platform[i]) /\ platform[i].by = "committed"
                                            /\ platform'[i].endedAt = txn[w].time
              /\ platform[i].endedBy # w => platform'[i].endedAt = platform[i].endedAt
         /\ \A i \in DOMAIN activity :
              /\ activity'[i].fid = activity[i].fid /\ activity'[i].createdAt = activity[i].createdAt
              /\ activity'[i].platform = activity[i].platform
              /\ activity[i].endedBy = w => /\ IsCurrent(activity[i]) /\ activity[i].by = "committed"
                                            /\ activity'[i].endedAt = txn[w].time
              /\ activity[i].endedBy # w => activity'[i].endedAt = activity[i].endedAt
<1>1. /\ Typed /\ Locked /\ w \notin {"committed", "aborted", "nobody"}
      /\ activity \in Seq(ActivityRow) /\ txn[w].time \in Timestamps
  <2>1. Typed /\ Locked
    BY DEF TransactionsInv
  <2>2. Started(w)
    BY DEF IsCommitted, Started
  <2> QED
    BY <2>1, <2>2, WorkerTypes DEF Typed
<1>2. /\ DOMAIN platform' = DOMAIN platform /\ DOMAIN activity' = DOMAIN activity
      /\ \A i \in DOMAIN platform : RowCommitted(platform[i], platform'[i], w, txn[w].time)
      /\ \A i \in DOMAIN activity : RowCommitted(activity[i], activity'[i], w, txn[w].time)
  BY <1>1, RowsOfCommit
<1>3. \A i \in DOMAIN activity : activity'[i].platform = activity[i].platform
  <2>1. \A i \in DOMAIN activity : activity[i] \in ActivityRow
    BY <1>1
  <2>2. \A i \in DOMAIN activity : activity'[i] = CommittedRow(activity[i], w, txn[w].time)
    BY DEF IsCommitted, AllCommitted
  <2> QED
    BY <1>1, <2>1, <2>2, MarksKeepVersion
<1>4. /\ \A i \in DOMAIN platform : platform[i].endedBy = w => IsCurrent(platform[i]) /\ platform[i].by = "committed"
      /\ \A i \in DOMAIN activity : activity[i].endedBy = w => IsCurrent(activity[i]) /\ activity[i].by = "committed"
  BY <1>1 DEF Locked, RowsMarked
<1> QED
  BY <1>2, <1>3, <1>4 DEF RowCommitted, Committed

\* What a request of a platform that nobody else asks for has settled when it
\* commits.
LEMMA CommitsUndisturbed ==
  ASSUME TransactionsInv, Isolation, NEW w \in Workers, IsCommitted(w),
         txn[w].request.platform \notin overlapped
  PROVE  LET p == txn[w].request.platform
             t == txn[w].time
         IN  /\ \A i \in Committed(platform) : platform[i].fid = p =>
                  platform[i].createdAt < t /\ platform[i].endedAt < t
             /\ \A i \in Committed(activity) : VersionFid(i) = p => activity[i].createdAt < t
             /\ \A i \in Committed(platform), j \in DOMAIN platform :
                  platform[j].by = w /\ platform[i].fid = p
                    => i < j /\ (IsCurrent(platform[i]) => platform[i].endedBy = w)
             /\ Reporting(w) => IsCurrent(platform[txn[w].pid])
             /\ \A i \in Committed(activity), j \in DOMAIN activity :
                  activity[j].by = w /\ activity[i].fid = activity[j].fid /\ activity[i].platform = txn[w].pid
                    => i < j /\ (IsCurrent(activity[i]) => activity[i].endedBy = w)
<1> DEFINE p == txn[w].request.platform
           t == txn[w].time
<1>1. txn[w].pc = "answered" /\ txn[w].pc \in WithPlatform /\ Alone(w)
  BY DEF IsCommitted, WithPlatform, Alone, Started
<1>2. Newest(w) /\ VersionInForce(w) /\ BatchIsolated(w) /\ OwnRows(w)
  BY <1>1 DEF Isolation, Isolated, TransactionsInv, Owned
<1>3. /\ \A i \in Committed(platform) : platform[i].fid = p =>
           platform[i].createdAt < t /\ platform[i].endedAt < t
      /\ \A i \in Committed(activity) : VersionFid(i) = p => activity[i].createdAt < t
  BY <1>2 DEF Newest
<1>4. \A j \in DOMAIN platform : platform[j].by = w => Reporting(w) /\ j = txn[w].pid
  BY <1>2 DEF OwnRows
<1>5. Reporting(w) => IsCurrent(platform[txn[w].pid])
  BY <1>1, <1>2 DEF VersionInForce
<1>6. \A i \in Committed(platform), j \in DOMAIN platform :
        platform[j].by = w /\ platform[i].fid = p
          => i < j /\ (IsCurrent(platform[i]) => platform[i].endedBy = w)
  BY <1>1, <1>2, <1>4 DEF VersionInForce
<1>7. \A j \in DOMAIN activity : activity[j].by = w => Reporting(w)
  BY <1>2 DEF OwnRows
<1>8. \A i \in Committed(activity), j \in DOMAIN activity :
        activity[j].by = w /\ activity[i].fid = activity[j].fid /\ activity[i].platform = txn[w].pid
          => i < j /\ (IsCurrent(activity[i]) => activity[i].endedBy = w)
  BY <1>1, <1>2, <1>7 DEF BatchIsolated
<1> QED
  BY <1>3, <1>5, <1>6, <1>8

\* The versions of a platform are stacked by its commits.
LEMMA CommitStacks ==
  ASSUME TransactionsInv, Isolation, PlatformsUndisturbed, NEW w \in Workers, IsCommitted(w)
  PROVE  CommittedStacked(platform', Platforms \ overlapped)
<1> DEFINE p == txn[w].request.platform
           t == txn[w].time
<1>1. /\ Typed /\ Owned /\ OwnRows(w) /\ w \notin {"committed", "aborted", "nobody"}
      /\ t \in Nat /\ t # NotEnded
  <2>1. Started(w)
    BY DEF IsCommitted, Started
  <2>2. Typed /\ Owned /\ OwnRows(w)
    BY DEF TransactionsInv, Owned
  <2>3. t \in 1..MaxTime /\ MaxTime \in Nat
    BY <2>1, <2>2, WorkerTypes
  <2> QED
    BY <2>2, <2>3, WorkerTypes DEF NotEnded
<1>2. \A j \in DOMAIN platform : platform[j].by = w =>
        /\ j = txn[w].pid /\ platform[j].createdAt = t /\ platform[j].fid = p
  BY <1>1 DEF OwnRows
<1>3. CommittedStacked(platform, Platforms \ overlapped)
  BY DEF PlatformsUndisturbed
<1>4. /\ \A i \in Committed(platform') : i \in DOMAIN platform /\ (i \in Committed(platform) \/ platform[i].by = w)
      /\ \A i \in DOMAIN platform :
           /\ platform'[i].fid = platform[i].fid /\ platform'[i].createdAt = platform[i].createdAt
           /\ platform[i].endedBy = w => IsCurrent(platform[i]) /\ platform'[i].endedAt = t
           /\ platform[i].endedBy # w => platform'[i].endedAt = platform[i].endedAt
  BY CommitOfRows
<1>5. p \notin overlapped =>
        /\ \A i \in Committed(platform) : platform[i].fid = p => platform[i].endedAt < t
        /\ \A i \in Committed(platform), j \in DOMAIN platform :
             platform[j].by = w /\ platform[i].fid = p
               => i < j /\ (IsCurrent(platform[i]) => platform[i].endedBy = w)
  BY CommitsUndisturbed
<1>6. \A i \in DOMAIN platform : i \in Nat /\ platform[i].endedAt \in Nat
  BY <1>1, RowTypes DEF Typed
<1> HIDE DEF p, t
<1> SUFFICES ASSUME NEW i \in Committed(platform'), NEW j \in Committed(platform'), i < j,
                    platform'[i].fid = platform'[j].fid, platform'[i].fid \in Platforms \ overlapped
             PROVE  ~IsCurrent(platform'[i]) /\ platform'[i].endedAt <= platform'[j].createdAt
  BY DEF CommittedStacked
<1>7. /\ i \in DOMAIN platform /\ j \in DOMAIN platform
      /\ platform[i].fid = platform[j].fid /\ platform[i].fid \in Platforms \ overlapped
      /\ i \in Nat /\ j \in Nat
  BY <1>4, <1>6
<1>8. CASE i \in Committed(platform) /\ j \in Committed(platform)
  <2>1. ~IsCurrent(platform[i]) /\ platform[i].endedAt <= platform[j].createdAt
    BY <1>3, <1>7, <1>8 DEF CommittedStacked
  <2> QED
    BY <1>4, <1>7, <2>1 DEF IsCurrent
<1>9. CASE i \in Committed(platform) /\ platform[j].by = w
  <2>1. platform[j].createdAt = t /\ platform[i].fid = p /\ p \notin overlapped
    BY <1>2, <1>7, <1>9
  <2>2. platform[i].endedAt < t /\ (IsCurrent(platform[i]) => platform[i].endedBy = w)
    BY <1>5, <1>7, <1>9, <2>1
  <2>3. CASE platform[i].endedBy = w
    BY <1>1, <1>4, <1>7, <2>1, <2>3 DEF IsCurrent
  <2>4. CASE platform[i].endedBy # w
    BY <1>1, <1>4, <1>6, <1>7, <2>1, <2>2, <2>4 DEF IsCurrent
  <2> QED
    BY <2>3, <2>4
<1>10. CASE platform[i].by = w /\ j \in Committed(platform)
  <2>1. platform[j].fid = p /\ p \notin overlapped
    BY <1>2, <1>7, <1>10
  <2>2. j < i
    BY <1>5, <1>7, <1>10, <2>1
  <2> QED
    BY <1>7, <2>2
<1>11. CASE platform[i].by = w /\ platform[j].by = w
  BY <1>2, <1>7, <1>11
<1> QED
  BY <1>4, <1>8, <1>9, <1>10, <1>11

\* An activity is reported by the version in force, also when a commit ends that
\* version or makes the activity visible.
LEMMA CommitKeepsVersion ==
  ASSUME TransactionsInv, Isolation, PlatformsUndisturbed, NEW w \in Workers, IsCommitted(w),
         NEW i \in Committed(activity'), platform'[activity'[i].platform].fid \notin overlapped
  PROVE  InForceAt(platform'[activity'[i].platform], activity'[i].createdAt)
<1> DEFINE p == txn[w].request.platform
           t == txn[w].time
           q == activity[i].platform
           c == activity[i].createdAt
<1>1. /\ Typed /\ Owned /\ Locked /\ OwnRows(w) /\ LocksHeld(w)
      /\ w \notin {"committed", "aborted", "nobody"} /\ t \in Nat /\ t # NotEnded
  <2>1. Started(w)
    BY DEF IsCommitted, Started
  <2>2. Typed /\ Owned /\ OwnRows(w) /\ Locked /\ LocksHeld(w)
    BY DEF TransactionsInv, Owned, Locked
  <2>3. t \in 1..MaxTime /\ MaxTime \in Nat
    BY <2>1, <2>2, WorkerTypes
  <2> QED
    BY <2>2, <2>3, WorkerTypes DEF NotEnded
<1>2. /\ \A k \in DOMAIN platform :
           /\ platform'[k].fid = platform[k].fid /\ platform'[k].createdAt = platform[k].createdAt
           /\ platform[k].endedBy = w => /\ IsCurrent(platform[k]) /\ platform[k].by = "committed"
                                         /\ platform'[k].endedAt = t
           /\ platform[k].endedBy # w => platform'[k].endedAt = platform[k].endedAt
      /\ i \in DOMAIN activity /\ (i \in Committed(activity) \/ activity[i].by = w)
      /\ activity'[i].platform = q /\ activity'[i].createdAt = c
  BY CommitOfRows
<1>3. p \notin overlapped =>
        /\ \A k \in Committed(platform) : platform[k].fid = p => platform[k].createdAt < t
        /\ \A k \in Committed(activity) : VersionFid(k) = p => activity[k].createdAt < t
        /\ Reporting(w) => IsCurrent(platform[txn[w].pid])
  BY CommitsUndisturbed
<1>4. CASE i \in Committed(activity)
  <2>1. q \in Committed(platform) /\ q \in DOMAIN platform
    BY <1>1, <1>4 DEF Owned, Committed
  <2>2. platform[q].fid \notin overlapped
    BY <1>2, <2>1
  <2>3. InForceAt(platform[q], c)
    BY <1>4, <2>2 DEF PlatformsUndisturbed
  <2>4. CASE platform[q].endedBy # w
    BY <1>2, <2>1, <2>3, <2>4 DEF InForceAt, IsCurrent
  <2>5. CASE platform[q].endedBy = w
    <3>1. platform[q].fid = p
      BY <1>1, <2>1, <2>5 DEF LocksHeld
    <3>2. c < t
      BY <1>3, <1>4, <2>2, <3>1 DEF VersionFid
    <3> QED
      BY <1>2, <2>1, <2>3, <2>5, <3>2 DEF InForceAt
  <2> QED
    BY <2>4, <2>5
<1>5. CASE activity[i].by = w
  <2>1. Reporting(w) /\ q = txn[w].pid /\ c = t /\ txn[w].pc \in WithPlatform
    BY <1>1, <1>2, <1>5 DEF OwnRows, WithPlatform
  <2>2. q \in DOMAIN platform
    BY <1>1, <2>1 DEF Typed, RequestKept
  <2>3. /\ platform[q].by \in {"committed", w} /\ platform[q].fid = p
        /\ \A k \in DOMAIN platform : platform[k].endedBy = w => platform[q].by = w
        /\ platform[q].by = w => platform[q].createdAt = t
    BY <1>1, <2>1, <2>2 DEF OwnRows
  <2>4. p \notin overlapped
    BY <1>2, <2>2, <2>3
  <2>5. IsCurrent(platform[q])
    BY <1>3, <2>1, <2>4
  <2>6. platform[q].endedBy # w
    BY <1>1, <1>2, <2>2, <2>3
  <2>7. platform[q].createdAt <= t
    <3>1. CASE platform[q].by = w
      BY <1>1, <2>3, <3>1
    <3>2. CASE platform[q].by = "committed"
      <4>1. platform[q].createdAt \in Nat
        BY <1>1, <2>2, RowTypes
      <4>2. q \in Committed(platform)
        BY <2>2, <3>2 DEF Committed
      <4>3. platform[q].createdAt < t
        BY <1>3, <2>3, <2>4, <4>2
      <4> QED
        BY <1>1, <4>1, <4>3
    <3> QED
      BY <2>3, <3>1, <3>2
  <2> QED
    BY <1>2, <2>1, <2>2, <2>5, <2>6, <2>7 DEF InForceAt, IsCurrent
<1> QED
  BY <1>2, <1>4, <1>5

\* Within a version an activity has one current row, also once those of a
\* request are committed.
LEMMA CommitKeepsActivities ==
  ASSUME TransactionsInv, Isolation, PlatformsUndisturbed, NEW w \in Workers, IsCommitted(w),
         NEW i \in Committed(activity'), platform'[activity'[i].platform].fid \notin overlapped,
         NEW j \in Committed(activity'), i < j, activity'[i].fid = activity'[j].fid,
         activity'[i].platform = activity'[j].platform
  PROVE  ~IsCurrent(activity'[i])
<1> DEFINE p == txn[w].request.platform
           t == txn[w].time
           q == activity[i].platform
<1>1. /\ Typed /\ Owned /\ OwnRows(w) /\ DistinctItems(w)
      /\ w \notin {"committed", "aborted", "nobody"} /\ t \in Nat /\ t # NotEnded
  <2>1. Started(w)
    BY DEF IsCommitted, Started
  <2>2. Typed /\ Owned /\ OwnRows(w) /\ DistinctItems(w)
    BY DEF TransactionsInv, Owned, Isolation
  <2>3. t \in 1..MaxTime /\ MaxTime \in Nat
    BY <2>1, <2>2, WorkerTypes
  <2> QED
    BY <2>2, <2>3, WorkerTypes DEF NotEnded
<1>2. /\ \A k \in DOMAIN platform : platform'[k].fid = platform[k].fid
      /\ i \in DOMAIN activity /\ (i \in Committed(activity) \/ activity[i].by = w)
      /\ j \in DOMAIN activity /\ (j \in Committed(activity) \/ activity[j].by = w)
      /\ activity'[i].platform = q /\ activity[j].platform = q /\ activity[i].fid = activity[j].fid
      /\ activity[i].endedBy = w => IsCurrent(activity[i]) /\ activity'[i].endedAt = t
      /\ activity[i].endedBy # w => activity'[i].endedAt = activity[i].endedAt
  BY CommitOfRows
<1>3. p \notin overlapped =>
        \A k \in Committed(activity), l \in DOMAIN activity :
           activity[l].by = w /\ activity[k].fid = activity[l].fid /\ activity[k].platform = txn[w].pid
             => k < l /\ (IsCurrent(activity[k]) => activity[k].endedBy = w)
  BY CommitsUndisturbed
<1>4. i \in Nat /\ j \in Nat
  BY <1>1, <1>2 DEF Typed
<1>5. ASSUME NEW k \in {i, j}, activity[k].by = w
      PROVE  q = txn[w].pid /\ p \notin overlapped
  <2>1. Reporting(w) /\ q = txn[w].pid /\ txn[w].pc \in WithPlatform
    BY <1>1, <1>2, <1>5 DEF OwnRows, WithPlatform
  <2>2. q \in DOMAIN platform
    BY <1>1, <2>1 DEF Typed, RequestKept
  <2>3. platform[q].fid = p
    BY <1>1, <2>1 DEF OwnRows
  <2> QED
    BY <1>2, <2>1, <2>2, <2>3
<1> HIDE DEF p, t, q
<1>6. CASE i \in Committed(activity) /\ j \in Committed(activity)
  <2>1. q \in DOMAIN platform /\ activity[i].platform = q
    BY <1>1, <1>6 DEF Owned, Committed, q
  <2>2. platform[q].fid \notin overlapped
    BY <1>2, <2>1
  <2>3. ~IsCurrent(activity[i])
    BY <1>2, <1>6, <2>1, <2>2 DEF PlatformsUndisturbed
  <2> QED
    BY <1>2, <2>3 DEF IsCurrent
<1>7. CASE i \in Committed(activity) /\ activity[j].by = w
  <2>1. activity[i].platform = txn[w].pid /\ p \notin overlapped
    BY <1>5, <1>7 DEF q
  <2>2. IsCurrent(activity[i]) => activity[i].endedBy = w
    BY <1>2, <1>3, <1>7, <2>1
  <2> QED
    BY <1>1, <1>2, <2>2 DEF IsCurrent
<1>8. CASE activity[i].by = w /\ j \in Committed(activity)
  <2>1. activity[j].platform = txn[w].pid /\ p \notin overlapped
    BY <1>2, <1>5, <1>8
  <2>2. j < i
    BY <1>2, <1>3, <1>8, <2>1
  <2> QED
    BY <1>4, <2>2
<1>9. CASE activity[i].by = w /\ activity[j].by = w
  <2>1. i = j
    BY <1>1, <1>2, <1>9 DEF DistinctItems
  <2> QED
    BY <1>4, <2>1
<1> QED
  BY <1>2, <1>6, <1>7, <1>8, <1>9

\* Every commit.
LEMMA CommitLeavesUndisturbed ==
  ASSUME TransactionsInv, Isolation, PlatformsUndisturbed, NEW w \in Workers, Commit(w)
  PROVE  PlatformsUndisturbed'
<1>1. IsCommitted(w) /\ overlapped' = overlapped
  BY CommitEffect DEF TransactionsInv, IsCommitted, Ends
<1>2. CommittedStacked(platform', Platforms \ overlapped)
  BY <1>1, CommitStacks
<1>3. ASSUME NEW i \in Committed(activity'), platform'[activity'[i].platform].fid \notin overlapped
      PROVE  /\ InForceAt(platform'[activity'[i].platform], activity'[i].createdAt)
             /\ \A j \in Committed(activity') :
                   (i < j /\ activity'[i].fid = activity'[j].fid
                          /\ activity'[i].platform = activity'[j].platform)
                     => ~IsCurrent(activity'[i])
  BY <1>1, <1>3, CommitKeepsVersion, CommitKeepsActivities
<1> QED
  BY <1>1, <1>2, <1>3 DEF PlatformsUndisturbed

\* Platforms that wait for their answers disturb each other as little as if all
\* requests were served one at a time: their versions are stacked, an activity
\* has one current row under a version, and is reported by the one in force.
THEOREM TransactionsUndisturbed == Spec => []PlatformsUndisturbed
<1>1. Init => PlatformsUndisturbed
  BY DEF Init, PlatformsUndisturbed, CommittedStacked, Committed
<1>2. TransactionsInv /\ Isolation /\ PlatformsUndisturbed /\ [Next]_vars => PlatformsUndisturbed'
  <2>1. ASSUME TransactionsInv, Isolation, PlatformsUndisturbed, Next
        PROVE  PlatformsUndisturbed'
    <3>1. PICK w \in Workers : StepBy(w)
      BY <2>1, NextIsStepBy
    <3> QED
      BY <2>1, <3>1, UnseenLeavesUndisturbed, CommitLeavesUndisturbed
  <2>2. ASSUME PlatformsUndisturbed, UNCHANGED vars
        PROVE  PlatformsUndisturbed'
    BY <2>2 DEF vars, PlatformsUndisturbed
  <2> QED
    BY <2>1, <2>2
<1> QED
  BY <1>1, <1>2, TransactionsInvariant, TransactionsIsolated, PTL DEF Spec

\* A platform is refused as deactivated only if it is, unless requests of that
\* platform overlap: what the first SELECT of the guard has found still holds
\* when the second one runs.
THEOREM TransactionsRefuseDeactivated == Spec => RefusedOnlyIfDeactivated
<1>1. ASSUME Isolation, NEW w \in Workers, txn[w].pc = "any platform"
      PROVE  \/ txn[w].request.platform \in overlapped
             \/ CommittedCurrent(platform, txn[w].request.platform) = {}
  <2>1. txn[w].request.platform \notin overlapped => FoundStillHolds(w)
    BY <1>1 DEF Isolation, Isolated, Alone, Started
  <2> QED
    BY <1>1, <2>1 DEF FoundStillHolds, CommittedCurrent, Versions
<1>2. Isolation =>
        [\A w \in Workers :
           (txn[w].pc = "any platform" /\ txn'[w].pc = "idle" /\ finished'.reply.status = 422)
             => \/ txn[w].request.platform \in overlapped
                \/ CommittedCurrent(platform, txn[w].request.platform) = {}]_vars
  BY <1>1
<1> QED
  BY <1>2, TransactionsIsolated, PTL DEF RefusedOnlyIfDeactivated

-----------------------------------------------------------------------------
(***************************************************************************)
(* Deadlocks                                                               *)
(***************************************************************************)

\* What an UPDATE of activities is about: one activity of a single request, the
\* version of its own platform in a batch.
UpdateScope(w) ==
  txn[w].pc \in {"end activity", "lock activity"} =>
    /\ txn[w].request.kind = "bulk" => txn[w].owner = txn[w].pid
    /\ txn[w].request.kind # "bulk" => \A x, y \in txn[w].ending : x = y

\* A row of an activity is ended for good by its id.
LEMMA StartScope ==
  ASSUME Typed, NEW w \in Workers, NEW p \in Platforms, NEW request \in Requests(p),
         Start(w, request)
  PROVE  UpdateScope(w)'
<1>1. /\ txn'[w].request = request /\ request \in AllRequests
      /\ \/ request.kind \in {"post", "bulk"} /\ txn'[w].pc = "find platform"
         \/ request.kind = "end platform" /\ txn'[w].pc = "end platform"
         \/ request.kind = "end activity" /\ txn'[w].pc = "end activity"
  BY StartEffect
<1>2. CASE request.kind # "end activity"
  BY <1>1, <1>2 DEF UpdateScope
<1>3. CASE request.kind = "end activity"
  <2>1. PICK i \in CurrentTo(w, activity, request.ids[1]) :
               Begin(w, request, "end activity", {request.ids[1]}, activity[i].platform)
    BY <1>3 DEF Start
  <2>2. txn'[w].ending = {request.ids[1]}
    <3> DEFINE x == {request.ids[1]}
               o == activity[i].platform
    <3>1. Begin(w, request, "end activity", x, o)
      BY <2>1
    <3> HIDE DEF x, o
    <3>2. txn'[w].ending = x
      BY <3>1 DEF Begin, Idle
    <3> QED
      BY <3>2 DEF x
  <2> QED
    BY <1>1, <1>3, <2>2 DEF UpdateScope
<1> QED
  BY <1>2, <1>3

\* Whatever w does, its UPDATE keeps its scope.
LEMMA OwnScopeKept ==
  ASSUME Typed, NEW w \in Workers, StepBy(w), UpdateScope(w)
  PROVE  UpdateScope(w)'
<1>1. ASSUME NEW p \in Platforms, NEW request \in Requests(p), Start(w, request)
      PROVE  UpdateScope(w)'
  BY <1>1, StartScope
<1>2. CASE txn'[w].pc \notin {"end activity", "lock activity"}
  BY <1>2 DEF UpdateScope
<1>3. CASE IsRolledBack(w) \/ IsCommitted(w)
  <2>1. txn'[w] = Idle
    BY <1>3 DEF IsRolledBack, IsCommitted, Ends
  <2>2. txn'[w].pc = "idle"
    BY <2>1 DEF Idle
  <2> QED
    BY <1>2, <2>2
<1>4. CASE FindPlatform(w)
  BY <1>2, <1>3, <1>4, FindPlatformEffect DEF Reads, GoesOn
<1>5. ASSUME InsertsPlatform(w)
      PROVE  UpdateScope(w)'
  <2>1. PICK pc : /\ pc = AfterPlatform(txn[w].request)
                  /\ GoesOn(w, pc, Len(platform) + 1, txn[w].owner,
                            txn[w].ending, txn[w].targets, txn[w].accepted)
    BY <1>5 DEF InsertsPlatform
  <2>2. pc \in {"find activity", "insert", "existing"}
    BY <1>5, <2>1, AfterPlatformType DEF InsertsPlatform
  <2> QED
    BY <1>2, <2>1, <2>2 DEF GoesOn
<1>6. CASE AnyPlatform(w)
  BY <1>3, <1>5, <1>6, AnyPlatformEffect
<1>7. CASE EndPlatform(w)
  BY <1>2, <1>7, EndPlatformEffect DEF Reads, GoesOn
<1>8. CASE LockPlatform(w)
  BY <1>2, <1>5, <1>8, LockPlatformEffect DEF Reads, GoesOn, LocksPlatform
<1>9. CASE FindActivity(w)
  <2>1. ASSUME NEW owner \in Nat,
               Reads(w, "end activity", txn[w].pid, owner, {txn[w].request.ids[1]},
                     txn[w].targets, txn[w].accepted)
        PROVE  UpdateScope(w)'
    <3>1. txn[w].request.kind = "post" /\ txn'[w].request = txn[w].request
      BY <1>9, <2>1, FindActivityEffect DEF Reads, GoesOn
    <3>2. txn'[w].ending = {txn[w].request.ids[1]}
      BY <2>1 DEF Reads, GoesOn
    <3> QED
      BY <3>1, <3>2 DEF UpdateScope
  <2>2. CASE Reads(w, "any activity", txn[w].pid, txn[w].owner, txn[w].ending,
                   txn[w].targets, txn[w].accepted)
    BY <1>2, <2>2 DEF Reads, GoesOn
  <2> QED
    BY <1>3, <1>9, <2>1, <2>2, FindActivityEffect
<1>10. CASE AnyActivity(w)
  BY <1>2, <1>3, <1>10, AnyActivityEffect DEF Reads, GoesOn
<1>11. CASE FindExisting(w)
  BY <1>2, <1>11, FindExistingEffect DEF Reads, GoesOn
<1>12. CASE FindDeactivated(w)
  BY <1>2, <1>12, FindDeactivatedEffect DEF Reads, GoesOn
<1>13. CASE FindCurrent(w)
  <2>1. /\ txn[w].request.kind = "bulk" /\ txn'[w].request = txn[w].request
        /\ txn'[w].owner = txn[w].pid /\ txn'[w].pid = txn[w].pid
    BY <1>13, FindCurrentEffect DEF Reads, GoesOn
  <2> QED
    BY <2>1 DEF UpdateScope
<1>14. ASSUME txn[w].pc \in {"end activity", "lock activity"},
              txn'[w].request = txn[w].request, txn'[w].owner = txn[w].owner,
              txn'[w].pid = txn[w].pid, txn'[w].ending = txn[w].ending
       PROVE  UpdateScope(w)'
  BY <1>14 DEF UpdateScope
<1>15. CASE EndActivity(w)
  BY <1>14, <1>15, EndActivityEffect DEF Reads, GoesOn
<1>16. CASE LockActivity(w)
  BY <1>14, <1>16, LockActivityEffect DEF Reads, GoesOn, LocksActivity
<1>17. CASE InsertAndAnswer(w)
  BY <1>2, <1>17, InsertAndAnswerEffect DEF GoesOn
<1>18. CASE Commit(w)
  BY <1>3, <1>18, CommitEffect
<1>19. CASE Crash(w) \/ DeadlockDetected(w)
  BY <1>3, <1>19, FailureEffect
<1> QED
  BY <1>1, <1>4, <1>6, <1>7, <1>8, <1>9, <1>10, <1>11, <1>12, <1>13, <1>15, <1>16, <1>17, <1>18, <1>19
  DEF StepBy, Step

\* The scope of every UPDATE, throughout.
LEMMA TransactionsUpdateScope == Spec => [](\A w \in Workers : UpdateScope(w))
<1> DEFINE Inv == \A w \in Workers : UpdateScope(w)
<1>1. Init => Inv
  <2> SUFFICES ASSUME Init, NEW w \in Workers
               PROVE  UpdateScope(w)
    OBVIOUS
  <2>1. txn[w] = Idle
    BY DEF Init
  <2>2. txn[w].pc = "idle"
    BY <2>1 DEF Idle
  <2> QED
    BY <2>2 DEF UpdateScope
<1>2. TransactionsInv /\ Inv /\ [Next]_vars => Inv'
  <2>1. ASSUME TransactionsInv, Inv, Next, NEW v \in Workers
        PROVE  UpdateScope(v)'
    <3>1. PICK w \in Workers : StepBy(w)
      BY <2>1, NextIsStepBy
    <3>2. Typed /\ UpdateScope(v)
      BY <2>1 DEF TransactionsInv
    <3>3. CASE v = w
      BY <3>1, <3>2, <3>3, OwnScopeKept
    <3>4. CASE v # w
      <4>1. Untouched(v)
        BY <3>1, <3>2, <3>4, EffectOfStep DEF Frame
      <4> QED
        BY <3>2, <4>1 DEF Untouched, UpdateScope
    <3> QED
      BY <3>3, <3>4
  <2>2. ASSUME Inv, UNCHANGED vars
        PROVE  Inv'
    BY <2>2 DEF vars, UpdateScope
  <2> QED
    BY <2>1, <2>2
<1> HIDE DEF Inv
<1>3. Spec => []Inv
  BY <1>1, <1>2, TransactionsInvariant, PTL DEF Spec
<1> QED
  BY <1>3 DEF Inv

\* Two requests of one platform overlap.
LEMMA BusyTogether ==
  ASSUME Isolation, NEW v \in Workers, NEW w \in Workers, v # w, Started(v), Started(w),
         txn[v].request.platform = txn[w].request.platform
  PROVE  txn[w].request.platform \in overlapped
<1> SUFFICES ASSUME txn[w].request.platform \notin overlapped
             PROVE  FALSE
  OBVIOUS
<1>1. Newest(w)
  BY DEF Isolation, Isolated, Alone
<1> QED
  BY <1>1 DEF Newest

\* w has ended a current row that v is about to end.
HoldsRowFor(w, v) ==
  \E i \in Committed(activity) :
     /\ activity[i].endedBy = w /\ IsCurrent(activity[i])
     /\ activity[i].platform = txn[v].owner /\ activity[i].platform = txn[w].owner
     /\ activity[i].fid \in txn[v].ending /\ activity[i].fid \in txn[w].ending
     /\ txn[w].pc \in {"lock activity", "insert", "answered"}

\* Who is waited for ends a row of the version that is waited for, ...
LEMMA HolderOfActivity ==
  ASSUME TransactionsInv, NEW v \in Workers, NEW w \in Workers, Waits(v, w),
         txn[v].pc = "lock activity"
  PROVE  HoldsRowFor(w, v)
<1>1. PICK i \in txn[v].targets : activity[i].endedBy = w
  BY DEF Waits
<1>2. LocksHeld(v) /\ LocksHeld(w) /\ RowsMarked(activity, Workers)
  BY DEF TransactionsInv, Locked
<1>3. /\ i \in Committed(activity) /\ i \in DOMAIN activity
      /\ activity[i].fid \in txn[v].ending /\ activity[i].platform = txn[v].owner
  BY <1>1, <1>2 DEF LocksHeld, Committed
<1>4. /\ txn[w].pc \in {"lock activity", "insert", "answered"}
      /\ activity[i].fid \in txn[w].ending /\ activity[i].platform = txn[w].owner
  BY <1>1, <1>2, <1>3 DEF LocksHeld
<1>5. IsCurrent(activity[i])
  <2>1. w \notin {"committed", "aborted", "nobody"}
    BY WorkerTypes DEF TransactionsInv
  <2> QED
    BY <1>1, <1>2, <1>3, <2>1 DEF RowsMarked, IsCurrent
<1> QED
  BY <1>1, <1>3, <1>4, <1>5 DEF HoldsRowFor

\* Technical ids are ordered.
LEMMA DistinctNumbers ==
  ASSUME NEW i \in Nat, NEW j \in Nat, i # j
  PROVE  i < j \/ j < i
OBVIOUS

\* The technical id of an activity row.
LEMMA RowNumber ==
  ASSUME TransactionsInv, NEW i \in Committed(activity)
  PROVE  i \in Nat
<1>1. activity \in Seq(ActivityRow)
  BY DEF TransactionsInv, Typed
<1>2. i \in DOMAIN activity
  BY DEF Committed
<1> QED
  BY <1>1, <1>2

\* ... and if it waits for another one, it is a batch of the platform, because
\* otherwise both rows are current rows of one activity in that version.
LEMMA HolderIsBatch ==
  ASSUME TransactionsInv, PlatformsUndisturbed,
         NEW u \in Workers, NEW v \in Workers, NEW w \in Workers, UpdateScope(v),
         txn[u].pc = "lock activity", Waits(u, v), Waits(v, w), v # w,
         txn[v].pc = "lock activity", platform[txn[v].owner].fid \notin overlapped
  PROVE  /\ txn[v].owner = txn[u].owner
         /\ txn[v].request.platform = platform[txn[v].owner].fid
<1>1. PICK i \in Committed(activity) :
             /\ activity[i].endedBy = v /\ IsCurrent(activity[i])
             /\ activity[i].platform = txn[u].owner /\ activity[i].platform = txn[v].owner
             /\ activity[i].fid \in txn[v].ending
  <2>1. HoldsRowFor(v, u)
    BY HolderOfActivity
  <2> QED
    BY <2>1 DEF HoldsRowFor
<1>2. PICK j \in Committed(activity) :
             /\ activity[j].endedBy = w /\ IsCurrent(activity[j])
             /\ activity[j].platform = txn[v].owner /\ activity[j].fid \in txn[v].ending
  <2>1. HoldsRowFor(w, v)
    BY HolderOfActivity
  <2> QED
    BY <2>1 DEF HoldsRowFor
<1>3. i # j /\ i \in Nat /\ j \in Nat
  <2>1. i \in Nat /\ j \in Nat
    BY RowNumber
  <2> QED
    BY <1>1, <1>2, <2>1
<1>4. txn[v].request.kind = "bulk"
  <2> SUFFICES ASSUME txn[v].request.kind # "bulk"
               PROVE  FALSE
    OBVIOUS
  <2>1. activity[i].fid = activity[j].fid
    <3>1. \A x, y \in txn[v].ending : x = y
      BY DEF UpdateScope
    <3> QED
      BY <1>1, <1>2, <3>1
  <2>2. i < j \/ j < i
    BY <1>3, DistinctNumbers
  <2>3. \A m, n \in Committed(activity) :
           (/\ platform[activity[m].platform].fid \notin overlapped
            /\ m < n /\ activity[m].fid = activity[n].fid
            /\ activity[m].platform = activity[n].platform)
             => ~IsCurrent(activity[m])
    BY DEF PlatformsUndisturbed
  <2> QED
    BY <1>1, <1>2, <2>1, <2>2, <2>3
<1>5. Started(v)
  BY DEF Started
<1>6. txn[v].owner = txn[v].pid /\ platform[txn[v].pid].fid = txn[v].request.platform
  BY <1>4, <1>5 DEF UpdateScope, TransactionsInv, Owned, OwnRows, Reporting, WithPlatform
<1> QED
  BY <1>1, <1>6

\* Whoever waits for a row of a platform is waited for in turn only if requests
\* of that platform overlap: two of them have ended its version, or two batches
\* its activities, or an activity has two current rows in one version.
LEMMA DeadlockNeedsOverlap ==
  ASSUME TransactionsInv, Isolation, PlatformsUndisturbed, \A w \in Workers : UpdateScope(w)
  PROVE  DeadlockOnlyWithinPlatform
<1> SUFFICES ASSUME NEW w \in Workers, Deadlocked(w)
             PROVE  EndsRowsOf(w) \in overlapped
  BY DEF DeadlockOnlyWithinPlatform
<1>1. PICK S \in SUBSET Workers :
             w \in S /\ \E next \in Bijection(S, S) : \A v \in S : Waits(v, next[v])
  BY DEF Deadlocked
<1>2. PICK next \in Bijection(S, S) : \A v \in S : Waits(v, next[v])
  BY <1>1
<1>3. \A v \in S : next[v] \in S
  BY DEF Bijection, Injection, Surjection
<1>4. \A v \in S : txn[v].pc \in {"lock platform", "lock activity"} /\ next[v] # v
  BY <1>2 DEF Waits
<1> DEFINE u == next[w]
           v == next[u]
           x == next[v]
<1>5. u \in S /\ v \in S /\ x \in S /\ w \in Workers /\ u \in Workers /\ v \in Workers /\ x \in Workers
  BY <1>1, <1>3
<1>6. Waits(w, u) /\ Waits(u, v) /\ Waits(v, x) /\ w # u /\ u # v /\ v # x
  BY <1>1, <1>2, <1>4, <1>5
<1>7. /\ txn[w].pc \in {"lock platform", "lock activity"}
      /\ txn[u].pc \in {"lock platform", "lock activity"}
      /\ txn[v].pc \in {"lock platform", "lock activity"}
  BY <1>1, <1>4, <1>5
<1> HIDE DEF u, v, x
<1>8. Started(w) /\ Started(u) /\ Started(v)
  BY <1>7 DEF Started
<1>9. CASE txn[w].pc = "lock platform"
  <2>1. PICK i \in txn[w].targets : platform[i].endedBy = u
    BY <1>6, <1>9 DEF Waits
  <2>2. LocksHeld(w) /\ LocksHeld(u)
    BY <1>5 DEF TransactionsInv, Locked
  <2>3. i \in DOMAIN platform /\ platform[i].fid = txn[w].request.platform
    BY <1>9, <2>2 DEF LocksHeld, Committed
  <2>4. platform[i].fid = txn[u].request.platform
    BY <2>1, <2>2, <2>3 DEF LocksHeld
  <2>5. txn[w].request.platform \in overlapped
    BY <1>5, <1>6, <1>8, <2>3, <2>4, BusyTogether
  <2> QED
    BY <1>9, <2>5 DEF EndsRowsOf
<1>10. CASE txn[w].pc = "lock activity"
  <2> SUFFICES ASSUME platform[txn[w].owner].fid \notin overlapped
               PROVE  FALSE
    BY <1>10 DEF EndsRowsOf
  <2>1. txn[u].pc = "lock activity" /\ txn[u].owner = txn[w].owner
    <3>1. HoldsRowFor(u, w)
      BY <1>5, <1>6, <1>10, HolderOfActivity
    <3> QED
      BY <1>7, <3>1 DEF HoldsRowFor
  <2>2. txn[v].pc = "lock activity" /\ txn[v].owner = txn[u].owner
    <3>1. HoldsRowFor(v, u)
      BY <1>5, <1>6, <2>1, HolderOfActivity
    <3> QED
      BY <1>7, <3>1 DEF HoldsRowFor
  <2>3. txn[u].request.platform = platform[txn[u].owner].fid
    <3>1. UpdateScope(u) /\ platform[txn[u].owner].fid \notin overlapped
      BY <1>5, <2>1
    <3> QED
      BY <1>5, <1>6, <1>10, <2>1, <3>1, HolderIsBatch
  <2>4. txn[v].request.platform = platform[txn[v].owner].fid
    <3>1. UpdateScope(v) /\ platform[txn[v].owner].fid \notin overlapped
      BY <1>5, <2>1, <2>2
    <3> QED
      BY <1>5, <1>6, <2>1, <2>2, <3>1, HolderIsBatch
  <2>5. txn[u].request.platform \in overlapped
    BY <1>5, <1>6, <1>8, <2>2, <2>3, <2>4, BusyTogether
  <2> QED
    BY <2>1, <2>3, <2>5
<1> QED
  BY <1>7, <1>9, <1>10

\* Whatever order an UPDATE locks its rows in, nobody gets into a deadlock over
\* the rows of a platform unless two requests of that platform overlap.
THEOREM TransactionsDeadlockWithinPlatform == Spec => []DeadlockOnlyWithinPlatform
<1>1. TransactionsInv /\ Isolation /\ PlatformsUndisturbed /\ (\A w \in Workers : UpdateScope(w))
        => DeadlockOnlyWithinPlatform
  BY DeadlockNeedsOverlap
<1> QED
  BY <1>1, TransactionsInvariant, TransactionsIsolated, TransactionsUndisturbed,
     TransactionsUpdateScope, PTL

=============================================================================
