----------------------------- MODULE IngestProofs -----------------------------
(***************************************************************************)
(* Proofs about Ingest, for any number of requests, any submissions, any   *)
(* hash collisions, any pool size and any number of faults.                *)
(***************************************************************************)
EXTENDS Ingest, FiniteSetTheorems, TLAPS

-----------------------------------------------------------------------------
(* Type correctness, with the shape of a transaction it needs *)

LEMMA InitTypes == Init => Types /\ CursorInRange /\ Shape
  BY SubmissionsAssumption, BoundsAssumption
  DEF Init, Types, CursorInRange, Shape, TransactionShape, PublishedIsOver,
      Phases, Answers, Tables, Writes

(* COMMIT is the only step that changes the database. *)
LEMMA StoreChangesOnCommit ==
  ASSUME NEW r \in Requests, Serve(r) \/ Timeout(r) \/ ConnectionLost(r), ~Commit(r)
  PROVE  UNCHANGED dbVars
  BY DEF Serve, Receive, Admit, VerifyIdentity, Begin, Respond, Timeout, ConnectionLost, Rollback,
         AdvisoryLock, SelectAttestation, Upsert, InsertAttestation, InsertOwn, InsertRun,
         InsertSubmission, SelectIdentity, InsertIdentity, InsertFindings, UpdateCount

LEMMA StepTransactionShape ==
  ASSUME Types, Shape, NEW r \in Requests, Serve(r) \/ Timeout(r) \/ ConnectionLost(r)
  PROVE  \A q \in Requests : TransactionShape(q)'
  <1> SUFFICES ASSUME NEW q \in Requests PROVE TransactionShape(q)'
    OBVIOUS
  <1> TransactionShape(q)
    BY DEF Shape
  <1> USE DEF Types, TransactionShape, Goto, Phases, Statements, Tables, Writes, OwnRows, BeforeRow
  <1>1. CASE Receive(r)
    BY <1>1 DEF Receive, txVars, dbVars
  <1>2. CASE Admit(r)
    BY <1>2 DEF Admit, txVars, dbVars
  <1>3. CASE VerifyIdentity(r)
    BY <1>3 DEF VerifyIdentity, txVars, dbVars
  <1>4. CASE Begin(r)
    BY <1>4 DEF Begin, txVars, dbVars
  <1>5. CASE Respond(r)
    BY <1>5 DEF Respond, txVars, dbVars
  <1>6. CASE Timeout(r)
    BY <1>6 DEF Timeout, CutOff, AtAwait, txVars, dbVars
  <1>7. CASE ConnectionLost(r)
    BY <1>7 DEF ConnectionLost, CutOff, txVars, dbVars
  <1>8. CASE Commit(r)
    BY <1>8 DEF Commit, Bundle
  <1>9. CASE Rollback(r)
    BY <1>9 DEF Rollback, dbVars
  <1>10. CASE AdvisoryLock(r)
    BY <1>10 DEF AdvisoryLock, Executes, dbVars
  <1>11. CASE SelectAttestation(r)
    <2>1. CASE RowsWithId(Id(r)) = {}
      BY <1>11, <2>1 DEF SelectAttestation, Executes
    <2>2. CASE RowsWithId(Id(r)) # {}
      <3>1. (CHOOSE a \in RowsWithId(Id(r)) : TRUE) \in Requests
        BY <2>2 DEF RowsWithId, Tables
      <3>2. row'[r] \in Requests \ {r}
        BY <1>11, <2>2, <3>1 DEF SelectAttestation, RowsWithId, Executes, Shape, PublishedIsOver
      <3>3. /\ pc[r] = "select"
            /\ pc' = [pc EXCEPT ![r] = IF Bundle(r) = NoBundle THEN "updateCount" ELSE "selectIdentity"]
            /\ wrote' = wrote
            /\ row' = [row EXCEPT ![r] = CHOOSE a \in RowsWithId(Id(r)) : TRUE]
        BY <1>11, <2>2 DEF SelectAttestation, Executes
      <3> QED
        BY <3>2, <3>3
    <2> QED
      BY <2>1, <2>2
  <1>12. CASE Upsert(r)
    BY <1>12 DEF Upsert, Executes, dbVars
  <1>13. CASE InsertAttestation(r)
    <2>1. CASE RowsWithId(Id(r)) = {}
      BY <1>13, <2>1 DEF InsertAttestation, Executes
    <2>2. CASE RowsWithId(Id(r)) # {}
      <3>1. pc' = [pc EXCEPT ![r] = "rollback"] /\ row' = row /\ wrote' = wrote
        BY <1>13, <2>2 DEF InsertAttestation, Fail
      <3> QED
        BY <3>1
    <2> QED
      BY <2>1, <2>2
  <1>14. CASE InsertRun(r)
    BY <1>14 DEF InsertRun, InsertOwn, Executes, dbVars
  <1>15. CASE InsertSubmission(r)
    BY <1>15 DEF InsertSubmission, InsertOwn, Executes, dbVars
  <1>16. CASE SelectIdentity(r)
    BY <1>16 DEF SelectIdentity, Executes, Fail, AfterIdentity, dbVars
  <1>17. CASE InsertIdentity(r)
    <2>1. CASE identity[row[r]] = NoBundle
      BY <1>17, <2>1 DEF InsertIdentity, Executes, AfterIdentity
    <2>2. CASE identity[row[r]] # NoBundle
      BY <1>17, <2>2 DEF InsertIdentity, Executes, Fail
    <2> QED
      BY <2>1, <2>2
  <1>18. CASE InsertFindings(r)
    BY <1>18 DEF InsertFindings, InsertOwn, Executes, dbVars
  <1>19. CASE UpdateCount(r)
    BY <1>19 DEF UpdateCount, Executes, dbVars
  <1>20. QED
    BY <1>1, <1>2, <1>3, <1>4, <1>5, <1>6, <1>7, <1>8, <1>9, <1>10, <1>11, <1>12, <1>13, <1>14, <1>15, <1>16, <1>17, <1>18, <1>19 DEF Serve

(* Only the request that inserted an attestation publishes it. *)
LEMMA StepPublishedIsOver ==
  ASSUME Types, Shape, NEW r \in Requests, Serve(r) \/ Timeout(r) \/ ConnectionLost(r)
  PROVE  PublishedIsOver'
  <1>1. stored'["attestations"] \subseteq stored["attestations"] \cup {r}
    <2>1. CASE Commit(r)
      BY <2>1 DEF Commit, Shape, TransactionShape, Tables
    <2> QED
      BY <2>1, StoreChangesOnCommit DEF dbVars
  <1>2. ASSUME NEW q \in Requests, pc[q] \in {"committed", "done"}
        PROVE  pc'[q] \in {"committed", "done"}
    BY <1>2 DEF Serve, Receive, Admit, VerifyIdentity, Begin, Respond, Timeout, AtAwait,
       ConnectionLost, CutOff, Commit, Rollback, AdvisoryLock, SelectAttestation, Upsert,
       InsertAttestation, InsertOwn, InsertRun, InsertSubmission, SelectIdentity, InsertIdentity,
       InsertFindings, UpdateCount, Executes, Goto, Fail, Types, Statements, AfterIdentity
  <1>3. CASE Commit(r)
    <2>1. pc'[r] \in {"committed", "done"}
      BY <1>3 DEF Commit, Goto, Types
    <2> QED
      BY <2>1, <1>1, <1>2 DEF Shape, PublishedIsOver, Types, Tables
  <1> QED
    BY <1>2, <1>3, StoreChangesOnCommit DEF dbVars, Shape, PublishedIsOver, Types, Tables

LEMMA StepTypes ==
  ASSUME Types, Shape, NEW r \in Requests, Serve(r) \/ Timeout(r) \/ ConnectionLost(r)
  PROVE  Types'
  <1> USE DEF Types, Goto, Phases, Statements, Answers
  <1>1. CASE Receive(r)
    BY <1>1 DEF Receive, txVars, dbVars
  <1>2. CASE Admit(r)
    BY <1>2 DEF Admit, txVars, dbVars
  <1>3. CASE VerifyIdentity(r)
    BY <1>3 DEF VerifyIdentity, txVars, dbVars
  <1>4. CASE Begin(r)
    BY <1>4 DEF Begin, txVars, dbVars
  <1>5. CASE Respond(r)
    BY <1>5 DEF Respond, txVars, dbVars
  <1>6. CASE Timeout(r)
    BY <1>6, BoundsAssumption DEF Timeout, CutOff, AtAwait, txVars, dbVars
  <1>7. CASE ConnectionLost(r)
    BY <1>7, BoundsAssumption DEF ConnectionLost, CutOff, txVars, dbVars
  <1>8. CASE Commit(r)
    <2>1. row[r] \in Requests /\ Bundle(r) \in Bundles \cup {NoBundle}
      BY <1>8, SubmissionsAssumption DEF Commit, Shape, TransactionShape, Bundle
    <2>2. stored' \in [Tables -> SUBSET Requests]
      BY <1>8, <2>1 DEF Commit
    <2>3. submissionCount' \in [Requests -> Nat]
      BY <1>8, <2>1 DEF Commit
    <2>4. identity' \in [Requests -> Bundles \cup {NoBundle}]
      BY <1>8, <2>1 DEF Commit
    <2>5. pc' \in [Requests -> Phases] /\ wrote' \in [Requests -> SUBSET Writes]
      BY <1>8 DEF Commit
    <2>6. held' = [q \in Requests |-> held'[q]] /\ applied' \subseteq Requests
      BY <1>8 DEF Commit
    <2> QED
      BY <1>8, <2>2, <2>3, <2>4, <2>5, <2>6 DEF Commit
  <1>9. CASE Rollback(r)
    BY <1>9 DEF Rollback, dbVars
  <1>10. CASE AdvisoryLock(r)
    BY <1>10 DEF AdvisoryLock, Executes, dbVars
  <1>11. CASE SelectAttestation(r)
    <2>1. CASE RowsWithId(Id(r)) = {}
      BY <1>11, <2>1 DEF SelectAttestation, Executes, dbVars
    <2>2. CASE RowsWithId(Id(r)) # {}
      <3>1. (CHOOSE a \in RowsWithId(Id(r)) : TRUE) \in Requests
        BY <2>2 DEF RowsWithId, Tables
      <3> QED
        <4>1. pc' \in [Requests -> Phases]
          BY <1>11, <2>2 DEF SelectAttestation
        <4>2. row' \in [Requests -> Requests \cup {NoRow}]
          BY <1>11, <2>2, <3>1 DEF SelectAttestation
        <4>3. held' = [q \in Requests |-> held'[q]]
          BY <1>11 DEF SelectAttestation, Executes
        <4> QED
          BY <1>11, <4>1, <4>2, <4>3 DEF SelectAttestation, dbVars
    <2> QED
      BY <2>1, <2>2
  <1>12. CASE Upsert(r)
    <2>1. pc' \in [Requests -> Phases]
      BY <1>12 DEF Upsert
    <2>2. held' = [q \in Requests |-> held'[q]]
      BY <1>12 DEF Upsert, Executes
    <2>3. upserted' \in [Requests -> Nat]
      BY <1>12 DEF Upsert
    <2> QED
      BY <1>12, <2>1, <2>2, <2>3 DEF Upsert, dbVars
  <1>13. CASE InsertAttestation(r)
    <2>1. CASE RowsWithId(Id(r)) = {}
      <3>1. pc' \in [Requests -> Phases] /\ row' \in [Requests -> Requests \cup {NoRow}]
        BY <1>13, <2>1 DEF InsertAttestation
      <3>2. wrote' \in [Requests -> SUBSET Writes]
        BY <1>13, <2>1 DEF InsertAttestation, Tables, Writes
      <3>3. held' = [q \in Requests |-> held'[q]]
        BY <1>13 DEF InsertAttestation, Executes
      <3> QED
        BY <1>13, <2>1, <3>1, <3>2, <3>3 DEF InsertAttestation, dbVars
    <2>2. CASE RowsWithId(Id(r)) # {}
      BY <1>13, <2>2 DEF InsertAttestation, Executes, Fail, dbVars
    <2> QED
      BY <2>1, <2>2
  <1>14. CASE InsertRun(r)
    BY <1>14 DEF InsertRun, InsertOwn, Executes, Tables, Writes, dbVars
  <1>15. CASE InsertSubmission(r)
    BY <1>15 DEF InsertSubmission, InsertOwn, Executes, Tables, Writes, dbVars
  <1>16. CASE SelectIdentity(r)
    <2>1. pc' \in [Requests -> Phases]
      BY <1>16 DEF SelectIdentity, Fail, AfterIdentity
    <2>2. held' = [q \in Requests |-> held'[q]]
      BY <1>16 DEF SelectIdentity, Executes
    <2>3. handler' \in [Requests -> {"live", "dropped", "lost"}] /\ answer' \in [Requests -> Answers]
      BY <1>16 DEF SelectIdentity, Fail
    <2> QED
      BY <1>16, <2>1, <2>2, <2>3 DEF SelectIdentity, dbVars
  <1>17. CASE InsertIdentity(r)
    <2>1. CASE identity[row[r]] = NoBundle
      <3>1. pc' \in [Requests -> Phases]
        BY <1>17, <2>1 DEF InsertIdentity, AfterIdentity
      <3>2. wrote' \in [Requests -> SUBSET Writes]
        BY <1>17, <2>1 DEF InsertIdentity, Writes
      <3>3. held' = [q \in Requests |-> held'[q]]
        BY <1>17 DEF InsertIdentity, Executes
      <3> QED
        BY <1>17, <2>1, <3>1, <3>2, <3>3 DEF InsertIdentity, dbVars
    <2>2. CASE identity[row[r]] # NoBundle
      BY <1>17, <2>2 DEF InsertIdentity, Executes, Fail, dbVars
    <2> QED
      BY <2>1, <2>2
  <1>18. CASE InsertFindings(r)
    BY <1>18 DEF InsertFindings, InsertOwn, Executes, Tables, Writes, dbVars
  <1>19. CASE UpdateCount(r)
    BY <1>19 DEF UpdateCount, Executes, Writes, dbVars
  <1>20. QED
    BY <1>1, <1>2, <1>3, <1>4, <1>5, <1>6, <1>7, <1>8, <1>9, <1>10, <1>11, <1>12, <1>13, <1>14, <1>15, <1>16, <1>17, <1>18, <1>19 DEF Serve

(* A crash changes only where requests are. *)
LEMMA CrashTypes ==
  ASSUME Types, Shape, CursorInRange, Crash
  PROVE  Types' /\ Shape' /\ CursorInRange'
  <1> USE DEF Crash, CutOff, txVars, dbVars
  <1>1. Types'
    BY BoundsAssumption DEF Types, Phases, Statements
  <1>2. \A q \in Requests : TransactionShape(q)'
    <2> SUFFICES ASSUME NEW q \in Requests PROVE TransactionShape(q)'
      OBVIOUS
    <2>1. TransactionShape(q) /\ pc'[q] \in {pc[q], "done"}
          /\ (pc'[q] # pc[q] => pc[q] \in {"admission", "verifyIdentity", "begin", "committed"})
      BY DEF Shape, Types, Phases
    <2> QED
      BY <2>1 DEF TransactionShape, BeforeRow, Types
  <1>3. PublishedIsOver'
    BY DEF Shape, PublishedIsOver, Types, Statements, Tables
  <1>4. CursorInRange'
    BY DEF CursorInRange, Types
  <1> QED
    BY <1>1, <1>2, <1>3, <1>4 DEF Shape

(* The upsert loop of persist has seven rows to upsert. *)
LEMMA UpsertRowsLength == ASSUME NEW e PROVE Len(UpsertRows(e)) = 7
  BY DEF UpsertRows

LEMMA StepCursor ==
  ASSUME Types, CursorInRange, NEW r \in Requests, Serve(r) \/ Timeout(r) \/ ConnectionLost(r)
  PROVE  CursorInRange'
  <1> SUFFICES ASSUME NEW q \in Requests
               PROVE  /\ pc'[q] \in {"idle", "admission", "verifyIdentity", "begin", "lock", "select"} => upserted'[q] = 0
                      /\ pc'[q] = "upsert" => upserted'[q] < Len(UpsertRows(EnvelopeOf[submission'[q].body]))
    BY DEF CursorInRange
  <1> DEFINE length == Len(UpsertRows(EnvelopeOf[submission[q].body]))
             length1 == Len(UpsertRows(EnvelopeOf[submission'[q].body]))
  <1>0. length = 7 /\ length1 = 7
    BY UpsertRowsLength
  <1>a. /\ pc[q] \in {"idle", "admission", "verifyIdentity", "begin", "lock", "select"} => upserted[q] = 0
        /\ pc[q] = "upsert" => upserted[q] < length
    BY DEF CursorInRange
  <1>b. Upsert(r) => IF upserted[r] + 1 = Len(UpsertRows(EnvelopeOf[submission[r].body]))
                     THEN pc' = [pc EXCEPT ![r] = "insertAttestation"]
                     ELSE pc' = [pc EXCEPT ![r] = "upsert"]
    BY DEF Upsert, Goto
  <1> HIDE DEF length, length1
  <1>2. CASE Upsert(r)
    <2>1. upserted[q] \in Nat /\ upserted' = [upserted EXCEPT ![r] = @ + 1] /\ pc[r] = "upsert"
      BY <1>2 DEF Upsert, Executes, Types
    <2>2. CASE q = r
      <3>1. IF upserted[q] + 1 = length THEN pc'[q] = "insertAttestation" ELSE pc'[q] = "upsert"
        BY <1>2, <1>b, <2>2 DEF length, Types
      <3>2. pc'[q] = "upsert" => upserted'[q] < 7
        BY <1>0, <1>a, <2>1, <2>2, <3>1 DEF Types
      <3>3. length1 = 7 /\ pc'[q] \in {"insertAttestation", "upsert"}
        BY <1>0, <3>1
      <3> QED
        BY <3>2, <3>3 DEF length1
    <2>3. CASE q # r
      <3>1. pc'[q] = pc[q] /\ upserted'[q] = upserted[q]
        BY <1>2, <1>b, <2>1, <2>3 DEF Types
      <3> QED
        BY <1>0, <1>a, <3>1 DEF length1
    <2> QED
      BY <2>2, <2>3
  <1>3. CASE ~Upsert(r)
    <2>1. upserted' = upserted
      BY <1>3 DEF Serve, Receive, Admit, VerifyIdentity, Begin, Respond, Timeout, ConnectionLost,
         Commit, Rollback, AdvisoryLock, SelectAttestation, InsertAttestation, InsertOwn, InsertRun,
         InsertSubmission, SelectIdentity, InsertIdentity, InsertFindings, UpdateCount, txVars
    <2>2. \/ pc'[q] \notin {"idle", "admission", "verifyIdentity", "begin", "lock", "select", "upsert"}
          \/ pc'[q] = "upsert" /\ pc[q] \in {"select", "upsert"}
          \/ pc'[q] # "upsert" /\ pc[q] \in {"idle", "admission", "verifyIdentity", "begin", "lock", "select"}
      BY <1>3 DEF Serve, Receive, Admit, VerifyIdentity, Begin, Respond, Timeout, ConnectionLost,
         Commit, Rollback, AdvisoryLock, SelectAttestation, InsertAttestation, InsertOwn, InsertRun,
         InsertSubmission, SelectIdentity, InsertIdentity, InsertFindings, UpdateCount, Executes, Goto,
         Fail, AfterIdentity, CutOff, AtAwait, Statements, Types
    <2> QED
      BY <1>0, <1>a, <2>1, <2>2 DEF length1
  <1> QED
    BY <1>2, <1>3

(* Types hold in every state, for every number of requests and faults: in
   particular the index of the upsert loop stays within the rows and every
   attestation row a statement refers to exists. *)
THEOREM TypeCorrect == Spec => [](TypeOK /\ Shape)
  <1>1. Init => TypeOK /\ Shape
    BY InitTypes DEF TypeOK
  <1>2. TypeOK /\ Shape /\ [Next]_vars => (TypeOK /\ Shape)'
    <2> SUFFICES ASSUME TypeOK, Shape, [Next]_vars PROVE (TypeOK /\ Shape)'
      OBVIOUS
    <2>1. ASSUME NEW r \in Requests, Serve(r) \/ Timeout(r) \/ ConnectionLost(r)
          PROVE  (TypeOK /\ Shape)'
      BY <2>1, StepTypes, StepTransactionShape, StepPublishedIsOver, StepCursor DEF TypeOK, Shape
    <2>2. CASE Crash
      BY <2>2, CrashTypes DEF TypeOK
    <2>3. CASE UNCHANGED vars
      BY <2>3 DEF vars, TypeOK, Types, CursorInRange, Shape, TransactionShape, PublishedIsOver
    <2> QED
      BY <2>1, <2>2, <2>3 DEF Next, Finished
  <1> QED
    BY <1>1, <1>2, PTL DEF Spec

-----------------------------------------------------------------------------
(* Locks *)

(* A statement adds the lock it was granted; the end of a transaction releases
   all of them. *)
LEMMA HeldStep ==
  ASSUME Types, NEW r \in Requests, Serve(r) \/ Timeout(r) \/ ConnectionLost(r)
  PROVE  \/ held' = held
         \/ held' = [held EXCEPT ![r] = {}] /\ pc'[r] \notin Serialized
         \/ held' = [held EXCEPT ![r] = @ \cup Wants(r)] /\ Granted(r)
  BY DEF Serve, Receive, Admit, VerifyIdentity, Begin, Respond, Timeout, AtAwait, ConnectionLost,
       CutOff, Commit, Rollback, AdvisoryLock, SelectAttestation, Upsert, InsertAttestation, InsertOwn,
       InsertRun, InsertSubmission, SelectIdentity, InsertIdentity, InsertFindings, UpdateCount, Executes,
       Goto, Fail, AfterIdentity, Serialized, Statements, txVars, TypeOK, Types

(* The advisory lock is the only way into the rest of a transaction. *)
LEMMA SerializedStep ==
  ASSUME Types, NEW r \in Requests, Serve(r) \/ Timeout(r) \/ ConnectionLost(r)
  PROVE  /\ pc'[r] \in Serialized /\ pc[r] \notin Serialized =>
              pc[r] = "lock" /\ held' = [held EXCEPT ![r] = @ \cup Wants(r)]
         /\ \A q \in Requests \ {r} : pc'[q] = pc[q]
  BY DEF Serve, Receive, Admit, VerifyIdentity, Begin, Respond, Timeout, AtAwait, ConnectionLost,
       CutOff, Commit, Rollback, AdvisoryLock, SelectAttestation, Upsert, InsertAttestation, InsertOwn,
       InsertRun, InsertSubmission, SelectIdentity, InsertIdentity, InsertFindings, UpdateCount, Executes,
       Goto, Fail, AfterIdentity, Serialized, Statements, txVars, TypeOK, Types

LEMMA SubmissionStep ==
  ASSUME NEW r \in Requests, Serve(r) \/ Timeout(r) \/ ConnectionLost(r)
  PROVE  submission' = submission
  BY DEF Serve, Receive, Admit, VerifyIdentity, Begin, Respond, Timeout, AtAwait, ConnectionLost,
       CutOff, Commit, Rollback, AdvisoryLock, SelectAttestation, Upsert, InsertAttestation, InsertOwn,
       InsertRun, InsertSubmission, SelectIdentity, InsertIdentity, InsertFindings, UpdateCount, Executes,
       Goto, Fail, AfterIdentity

LEMMA StepLocksHeld ==
  ASSUME Types, LocksHeld, NEW r \in Requests, Serve(r) \/ Timeout(r) \/ ConnectionLost(r)
  PROVE  LocksHeld'
  <1>1. \A p, q \in Requests : p # q => held'[p] \cap held'[q] = {}
    BY HeldStep DEF LocksHeld, Granted, Types
  <1>2. ASSUME NEW q \in Requests, pc'[q] \in Serialized
        PROVE  AdvisoryKey(q) \in held'[q]
    <2>1. CASE pc[q] \in Serialized
      BY <1>2, <2>1, HeldStep DEF LocksHeld, Types
    <2>2. CASE pc[q] \notin Serialized
      BY <1>2, <2>2, SerializedStep DEF Wants, Types
    <2> QED
      BY <2>1, <2>2
  <1>3. \A q \in Requests : AdvisoryKey(q)' = AdvisoryKey(q)
    BY SubmissionStep DEF AdvisoryKey
  <1> QED
    BY <1>1, <1>2, <1>3 DEF LocksHeld

(* For every number of requests: no two transactions hold one lock, and the
   part of persist after its advisory lock excludes every other submission
   with the same key. *)
THEOREM LocksCorrect == Spec => []LocksHeld
  <1>1. Init => LocksHeld
    BY DEF Init, LocksHeld, Serialized, Statements
  <1>2. TypeOK /\ LocksHeld /\ [Next]_vars => LocksHeld'
    <2> SUFFICES ASSUME TypeOK, LocksHeld, [Next]_vars PROVE LocksHeld'
      OBVIOUS
    <2>1. ASSUME NEW r \in Requests, Serve(r) \/ Timeout(r) \/ ConnectionLost(r)
          PROVE  LocksHeld'
      BY <2>1, StepLocksHeld DEF TypeOK
    <2>2. CASE Crash
      BY <2>2 DEF Crash, CutOff, LocksHeld, AdvisoryKey, Serialized, Statements, txVars, TypeOK, Types
    <2>3. CASE UNCHANGED vars
      BY <2>3 DEF vars, LocksHeld, AdvisoryKey
    <2> QED
      BY <2>1, <2>2, <2>3 DEF Next, Finished
  <1> QED
    BY <1>1, <1>2, TypeCorrect, PTL DEF Spec

-----------------------------------------------------------------------------
(* Attestation rows *)

(* Which row a transaction works on, and when it may have to find none. *)
Unstored(r) ==
  \/ pc[r] \in {"upsert", "insertAttestation"}
  \/ pc[r] \in Serialized \ {"rollback"} /\ row[r] = r

LEMMA RowStep ==
  ASSUME Types, Shape, NEW r \in Requests, Serve(r) \/ Timeout(r) \/ ConnectionLost(r)
  PROVE  \/ row' = row
         \/ pc[r] = "insertAttestation" /\ row' = [row EXCEPT ![r] = r]
         \/ /\ pc[r] = "select" /\ RowsWithId(Id(r)) # {}
            /\ row' = [row EXCEPT ![r] = CHOOSE a \in RowsWithId(Id(r)) : TRUE]
  <1>1. CASE SelectAttestation(r)
    BY <1>1 DEF SelectAttestation, Executes
  <1>2. CASE InsertAttestation(r)
    BY <1>2 DEF InsertAttestation, Executes
  <1>3. CASE ~SelectAttestation(r) /\ ~InsertAttestation(r)
    BY <1>3 DEF Serve, Receive, Admit, VerifyIdentity, Begin, Respond, Timeout, ConnectionLost,
       Commit, Rollback, AdvisoryLock, Upsert, InsertOwn, InsertRun, InsertSubmission, SelectIdentity,
       InsertIdentity, InsertFindings, UpdateCount, txVars
  <1> QED
    BY <1>1, <1>2, <1>3

(* Committing is final, and only COMMIT commits. *)
LEMMA CommittedStep ==
  ASSUME Types, NEW r \in Requests, Serve(r) \/ Timeout(r) \/ ConnectionLost(r)
  PROVE  /\ pc[r] \in {"committed", "done"} => pc'[r] \in {"committed", "done"}
         /\ pc'[r] = "committed" => pc[r] = "committed" \/ Commit(r)
  <1>1. CASE Commit(r)
    BY <1>1 DEF Commit, Goto, Types
  <1>2. CASE ~Commit(r)
    BY <1>2 DEF Serve, Receive, Admit, VerifyIdentity, Begin, Respond, Timeout, AtAwait, ConnectionLost,
       CutOff, Rollback, AdvisoryLock, SelectAttestation, Upsert, InsertAttestation, InsertOwn,
       InsertRun, InsertSubmission, SelectIdentity, InsertIdentity, InsertFindings, UpdateCount, Executes,
       Goto, Fail, AfterIdentity, Types, Statements
  <1> QED
    BY <1>1, <1>2

(* A transaction starts to insert an attestation only after its SELECT found
   none. *)
LEMMA UnstoredStep ==
  ASSUME Types, Shape, NEW r \in Requests, Serve(r) \/ Timeout(r) \/ ConnectionLost(r), Unstored(r)'
  PROVE  Unstored(r) \/ RowsWithId(Id(r)) = {}
  <1>1. CASE SelectAttestation(r)
    <2>1. CASE RowsWithId(Id(r)) # {}
      <3>1. row'[r] \in stored["attestations"]
        BY <1>1, <2>1 DEF SelectAttestation, RowsWithId, Types
      <3>2. row'[r] # r /\ pc'[r] \notin {"upsert", "insertAttestation"}
        BY <1>1, <2>1, <3>1 DEF SelectAttestation, Executes, Goto, Shape, PublishedIsOver, Types
      <3> QED
        BY <3>2 DEF Unstored
    <2> QED
      BY <2>1
  <1>2. CASE InsertAttestation(r) \/ Upsert(r)
    BY <1>2 DEF InsertAttestation, Upsert, Executes, Unstored
  <1>3. CASE ~SelectAttestation(r) /\ ~InsertAttestation(r) /\ ~Upsert(r)
    <2>1. row' = row
      BY <1>3 DEF Serve, Receive, Admit, VerifyIdentity, Begin, Respond, Timeout, ConnectionLost,
         Commit, Rollback, AdvisoryLock, InsertOwn, InsertRun, InsertSubmission, SelectIdentity,
         InsertIdentity, InsertFindings, UpdateCount, txVars
    <2>2. TransactionShape(r) /\ NoRow # r
      BY SubmissionsAssumption DEF Shape
    <2> QED
      BY <1>3, <2>1, <2>2 DEF Serve, Receive, Admit, VerifyIdentity, Begin, Respond, Timeout, AtAwait, ConnectionLost,
       CutOff, Commit, Rollback, AdvisoryLock, InsertOwn,
       InsertRun, InsertSubmission, SelectIdentity, InsertIdentity, InsertFindings, UpdateCount, Executes,
       Goto, Fail, AfterIdentity, Types, Statements, Serialized, Unstored, TransactionShape, BeforeRow
  <1> QED
    BY <1>1, <1>2, <1>3

(* What COMMIT publishes: the inserting request's own attestation, or none. *)
LEMMA CommitStep ==
  ASSUME Types, Shape, NEW r \in Requests, Commit(r)
  PROVE  /\ pc[r] = "commit" /\ row[r] \in Requests
         /\ row' = row /\ submission' = submission /\ applied' = applied \cup {r}
         /\ \A t \in Tables : stored'[t] = IF row[r] = r THEN stored[t] \cup {r} ELSE stored[t]
         /\ pc'[r] \in {"committed", "done"}
  <1>1. pc[r] = "commit" /\ TransactionShape(r)
    BY DEF Commit, Shape
  <1>2. /\ row[r] \in Requests
        /\ \A t \in Tables : t \in wrote[r] <=> row[r] = r
    BY <1>1 DEF TransactionShape, Tables
  <1>3. \A t \in Tables : stored'[t] = IF row[r] = r THEN stored[t] \cup {r} ELSE stored[t]
    BY <1>2 DEF Commit
  <1> QED
    BY <1>1, <1>2, <1>3 DEF Commit, Goto, Types

LEMMA StepRowsMatch ==
  ASSUME Types, Shape, LocksHeld, RowsMatch,
         NEW r \in Requests, Serve(r) \/ Timeout(r) \/ ConnectionLost(r)
  PROVE  RowsMatch'
  <1> USE DEF SameEnvelope
  <1>s. submission' = submission
    BY SubmissionStep
  <1>id. \A q : Id(q)' = Id(q)
    BY <1>s DEF Id, EvidenceId
  <1>a. "attestations" \in Tables
    BY DEF Tables
  <1>1. CASE Commit(r)
    <2>0. /\ pc[r] = "commit" /\ row[r] \in Requests
          /\ row' = row /\ applied' = applied \cup {r}
          /\ \A t \in Tables : stored'[t] = IF row[r] = r THEN stored[t] \cup {r} ELSE stored[t]
          /\ pc'[r] \in {"committed", "done"}
          /\ \A q \in Requests \ {r} : pc'[q] = pc[q]
      BY <1>1, CommitStep, SerializedStep
    <2>1. stored'["attestations"] =
             IF row[r] = r THEN stored["attestations"] \cup {r} ELSE stored["attestations"]
      BY <1>a, <2>0
    <2>2. ASSUME NEW q \in Requests, Unstored(q)' PROVE (RowsWithId(Id(q)) = {})'
      <3>1. q # r /\ Unstored(q)
        BY <2>0, <2>2 DEF Unstored, Serialized, Statements
      <3>2. RowsWithId(Id(q)) = {}
        BY <3>1 DEF RowsMatch, Unstored
      <3>3. row[r] = r => Id(r) # Id(q)
        <4>1. AdvisoryKey(q) \in held[q] /\ AdvisoryKey(r) \in held[r]
          BY <2>0, <3>1 DEF LocksHeld, Unstored, Serialized, Statements
        <4> QED
          BY <3>1, <4>1 DEF LocksHeld, AdvisoryKey, Id, EvidenceId
      <3> QED
        BY <1>id, <2>1, <3>2, <3>3 DEF RowsWithId
    <2>3. ASSUME NEW q \in Requests, row'[q] \notin {q, NoRow}
          PROVE  row'[q] \in stored'["attestations"] /\ SameEnvelope(row'[q], q)
      BY <1>s, <2>0, <2>1, <2>3 DEF RowsMatch
    <2>4. ASSUME NEW a \in stored'["attestations"] PROVE a \in applied' /\ row'[a] = a
      BY <2>0, <2>1 DEF RowsMatch
    <2>5. ASSUME NEW q \in applied'
          PROVE  /\ pc'[q] \in {"committed", "done"} /\ row'[q] \in stored'["attestations"]
                 /\ SameEnvelope(row'[q], q)
      <3>1. CASE q = r
        BY <1>s, <2>0, <2>1, <3>1, SubmissionsAssumption DEF RowsMatch
      <3>2. CASE q # r
        BY <1>s, <2>0, <2>1, <2>5, <3>2 DEF RowsMatch, Types
      <3> QED
        BY <3>1, <3>2
    <2>6. ASSUME NEW q \in Requests, pc'[q] = "committed" PROVE q \in applied'
      BY <2>0, <2>6 DEF RowsMatch
    <2> QED
      BY <1>s, <2>2, <2>3, <2>4, <2>5, <2>6 DEF RowsMatch, Unstored
  <1>2. CASE ~Commit(r)
    <2>1. stored' = stored /\ applied' = applied
      BY <1>2, StoreChangesOnCommit DEF dbVars
    <2>2. \A q : (RowsWithId(Id(q)) = {})' <=> RowsWithId(Id(q)) = {}
      BY <1>id, <2>1 DEF RowsWithId
    <2>3. ASSUME NEW q \in Requests, Unstored(q)' PROVE RowsWithId(Id(q)) = {}
      <3>1. CASE q = r
        BY <2>3, <3>1, UnstoredStep DEF RowsMatch, Unstored
      <3>2. CASE q # r
        <4>1. pc'[q] = pc[q] /\ row'[q] = row[q]
          BY <3>2, SerializedStep, RowStep DEF Types
        <4> QED
          BY <2>3, <4>1 DEF RowsMatch, Unstored
      <3> QED
        BY <3>1, <3>2
    <2>4. ASSUME NEW q \in Requests, row'[q] \notin {q, NoRow}
          PROVE  row'[q] \in stored["attestations"] /\ SameEnvelope(row'[q], q)
      <3>1. CASE row'[q] = row[q]
        BY <2>4, <3>1 DEF RowsMatch
      <3>2. CASE row'[q] # row[q]
        <4>1. q = r /\ row'[q] \in RowsWithId(Id(q))
          BY <2>4, <3>2, RowStep DEF Types
        <4> QED
          BY <4>1 DEF RowsWithId, Id, EvidenceId
      <3> QED
        BY <3>1, <3>2
    <2>5. ASSUME NEW q \in Requests, pc[q] \in {"committed", "done"}
          PROVE  pc'[q] \in {"committed", "done"} /\ row'[q] = row[q]
      BY <2>5, CommittedStep, SerializedStep, RowStep DEF Types
    <2>6. applied \subseteq Requests /\ stored["attestations"] \subseteq Requests
      BY <1>a DEF Types
    <2>7. ASSUME NEW q \in Requests, pc'[q] = "committed" PROVE q \in applied
      BY <1>2, <2>7, CommittedStep, SerializedStep DEF RowsMatch
    <2>8. \A a \in stored["attestations"] : a \in applied /\ row'[a] = a
      BY <2>5, <2>6 DEF RowsMatch
    <2>9. \A q \in applied : /\ pc'[q] \in {"committed", "done"} /\ row'[q] \in stored["attestations"]
                              /\ SameEnvelope(row'[q], q)
      BY <2>5, <2>6 DEF RowsMatch
    <2> QED
      BY <1>s, <2>1, <2>2, <2>3, <2>4, <2>7, <2>8, <2>9 DEF RowsMatch, Unstored
  <1> QED
    BY <1>1, <1>2

LEMMA CrashRowsMatch ==
  ASSUME Types, RowsMatch, Crash
  PROVE  RowsMatch'
  <1>1. /\ row' = row /\ stored' = stored /\ applied' = applied /\ submission' = submission
        /\ \A q \in Requests : pc'[q] \in {pc[q], "done"} /\ (pc'[q] = "committed" => pc[q] = "committed")
    BY DEF Crash, CutOff, txVars, dbVars, Statements
  <1>2. \A q : RowsWithId(Id(q))' = RowsWithId(Id(q))
    BY <1>1 DEF RowsWithId, Id, EvidenceId
  <1>3. \A q \in Requests : Unstored(q)' => Unstored(q)
    BY <1>1 DEF Unstored, Serialized, Statements
  <1>4. \A q \in applied : pc'[q] \in {"committed", "done"}
    BY <1>1 DEF RowsMatch, Types
  <1> QED
    BY <1>1, <1>2, <1>3, <1>4 DEF RowsMatch, SameEnvelope, Unstored

(* A transaction that inserts an attestation finds its envelope unstored up to
   its COMMIT, and a repetition keeps working on the attestation of its
   envelope, for every interleaving of requests. *)
THEOREM RowsCorrect == Spec => []RowsMatch
  <1>1. Init => RowsMatch
    BY SubmissionsAssumption DEF Init, RowsMatch, Tables, Serialized, Statements
  <1>2. TypeOK /\ Shape /\ LocksHeld /\ RowsMatch /\ [Next]_vars => RowsMatch'
    <2> SUFFICES ASSUME TypeOK, Shape, LocksHeld, RowsMatch, [Next]_vars PROVE RowsMatch'
      OBVIOUS
    <2>1. ASSUME NEW r \in Requests, Serve(r) \/ Timeout(r) \/ ConnectionLost(r)
          PROVE  RowsMatch'
      BY <2>1, StepRowsMatch DEF TypeOK
    <2>2. CASE Crash
      BY <2>2, CrashRowsMatch DEF TypeOK
    <2>3. CASE UNCHANGED vars
      BY <2>3 DEF vars, RowsMatch, RowsWithId, Id, EvidenceId, SameEnvelope
    <2> QED
      BY <2>1, <2>2, <2>3 DEF Next, Finished
  <1> QED
    BY <1>1, <1>2, TypeCorrect, LocksCorrect, PTL DEF Spec

-----------------------------------------------------------------------------
(* The evidence in the database *)

(* The database changes with a COMMIT only. *)
LEMMA DatabaseStep ==
  ASSUME [Next]_vars
  PROVE  UNCHANGED dbVars \/ \E r \in Requests : Commit(r)
  BY StoreChangesOnCommit DEF Next, Crash, Finished, vars, dbVars

LEMMA SubmissionsFixed ==
  ASSUME [Next]_vars
  PROVE  submission' = submission
  BY SubmissionStep DEF Next, Crash, Finished, vars

(* One attestation per envelope, for every number of concurrent requests, any
   formatting of their bytes and any collision of the advisory keys. *)
THEOREM UniqueAttestations == Spec => []OneAttestationPerEnvelope
  <1>1. Init => OneAttestationPerEnvelope
    BY DEF Init, OneAttestationPerEnvelope, Tables
  <1>2. TypeOK /\ Shape /\ RowsMatch /\ OneAttestationPerEnvelope /\ [Next]_vars
        => OneAttestationPerEnvelope'
    <2> SUFFICES ASSUME TypeOK, Shape, RowsMatch, OneAttestationPerEnvelope, [Next]_vars
                 PROVE  OneAttestationPerEnvelope'
      OBVIOUS
    <2> USE SubmissionsFixed DEF OneAttestationPerEnvelope, SameEnvelope
    <2>1. CASE UNCHANGED dbVars
      BY <2>1 DEF dbVars
    <2>2. ASSUME NEW r \in Requests, Commit(r) PROVE OneAttestationPerEnvelope'
      <3>1. /\ pc[r] = "commit"
            /\ stored'["attestations"] =
                 IF row[r] = r THEN stored["attestations"] \cup {r} ELSE stored["attestations"]
        BY <2>2, CommitStep DEF TypeOK, Tables
      <3>2. row[r] = r => \A a \in stored["attestations"] : ~SameEnvelope(a, r)
        BY <3>1 DEF RowsMatch, RowsWithId, Id, EvidenceId, Serialized, Statements
      <3> QED
        BY <3>1, <3>2
    <2> QED
      BY <2>1, <2>2, DatabaseStep
  <1> QED
    BY <1>1, <1>2, TypeCorrect, RowsCorrect, PTL DEF Spec

(* An attestation, its run, its submission record and its findings appear in
   one step, however its request ends. *)
THEOREM AtomicEvidence == Spec => []EvidenceIsAtomic
  <1>1. Init => EvidenceIsAtomic
    BY DEF Init, EvidenceIsAtomic, Tables
  <1>2. TypeOK /\ Shape /\ EvidenceIsAtomic /\ [Next]_vars => EvidenceIsAtomic'
    <2> SUFFICES ASSUME TypeOK, Shape, EvidenceIsAtomic, [Next]_vars PROVE EvidenceIsAtomic'
      OBVIOUS
    <2>1. CASE UNCHANGED dbVars
      BY <2>1 DEF dbVars, EvidenceIsAtomic
    <2>2. ASSUME NEW r \in Requests, Commit(r) PROVE EvidenceIsAtomic'
      <3>1. \A t \in Tables : stored'[t] = IF row[r] = r THEN stored[t] \cup {r} ELSE stored[t]
        BY <2>2, CommitStep DEF TypeOK
      <3>2. "attestations" \in Tables
        BY DEF Tables
      <3> QED
        BY <3>1, <3>2 DEF EvidenceIsAtomic
    <2> QED
      BY <2>1, <2>2, DatabaseStep
  <1> QED
    BY <1>1, <1>2, TypeCorrect, PTL DEF Spec

(* What an acceptance says of its request. *)
AnswersMatch ==
  \A r \in Requests :
    /\ answer[r] \in {"ACCEPTED_NEW", "ACCEPTED_DUPLICATE"} => r \in applied
    /\ answer[r] = "ACCEPTED_NEW" => row[r] = r

LEMMA AnswerStep ==
  ASSUME Types, NEW r \in Requests, Serve(r) \/ Timeout(r) \/ ConnectionLost(r)
  PROVE  \/ answer' = answer
         \/ Respond(r)
         \/ \E x \in {"REJECTED", "PERSISTENCE_ERROR", "TIMEOUT"} : answer' = [answer EXCEPT ![r] = x]
  <1>1. CASE InsertAttestation(r)
    BY <1>1 DEF InsertAttestation, Fail
  <1>2. CASE InsertIdentity(r)
    BY <1>2 DEF InsertIdentity, Fail
  <1>3. CASE SelectIdentity(r)
    BY <1>3 DEF SelectIdentity, Fail
  <1>4. CASE ~InsertAttestation(r) /\ ~InsertIdentity(r) /\ ~SelectIdentity(r)
    BY <1>4 DEF Serve, Receive, Admit, VerifyIdentity, Begin, Timeout, ConnectionLost, Commit, Rollback,
       AdvisoryLock, SelectAttestation, Upsert, InsertOwn, InsertRun, InsertSubmission, InsertFindings,
       UpdateCount
  <1> QED
    BY <1>1, <1>2, <1>3, <1>4

LEMMA AppliedGrows ==
  ASSUME [Next]_vars
  PROVE  applied \subseteq applied'
  BY DatabaseStep DEF dbVars, Commit

(* An ACCEPTED answer is given of committed evidence only, and one request per
   envelope is told that it was new. *)
THEOREM AcceptedEvidence == Spec => []AcceptedIsStored
  <1>1. Init => AnswersMatch
    BY DEF Init, AnswersMatch
  <1>2. TypeOK /\ Shape /\ RowsMatch /\ AnswersMatch /\ [Next]_vars => AnswersMatch'
    <2> SUFFICES ASSUME TypeOK, Shape, RowsMatch, AnswersMatch, [Next]_vars,
                        NEW q \in Requests
                 PROVE  /\ answer'[q] \in {"ACCEPTED_NEW", "ACCEPTED_DUPLICATE"} => q \in applied'
                        /\ answer'[q] = "ACCEPTED_NEW" => row'[q] = q
      BY DEF AnswersMatch
    <2> USE AppliedGrows
    <2>1. ASSUME NEW r \in Requests, Serve(r) \/ Timeout(r) \/ ConnectionLost(r)
          PROVE  /\ answer'[q] \in {"ACCEPTED_NEW", "ACCEPTED_DUPLICATE"} => q \in applied'
                 /\ answer'[q] = "ACCEPTED_NEW" => row'[q] = q
      <3>1. CASE Respond(r)
        BY <3>1 DEF Respond, RowsMatch, AnswersMatch, TypeOK, Types, txVars
      <3>2. CASE ~Respond(r)
        <4>1. answer'[q] = answer[q] \/ answer'[q] \in {"REJECTED", "PERSISTENCE_ERROR", "TIMEOUT"}
          BY <2>1, <3>2, AnswerStep DEF TypeOK, Types
        <4>2. q \in applied => row'[q] = row[q]
          BY <2>1, RowStep DEF TypeOK, Types, RowsMatch
        <4> QED
          BY <4>1, <4>2 DEF AnswersMatch
      <3> QED
        BY <3>1, <3>2
    <2>2. CASE Crash
      BY <2>2 DEF Crash, AnswersMatch, txVars
    <2>3. CASE UNCHANGED vars
      BY <2>3 DEF vars, AnswersMatch
    <2> QED
      BY <2>1, <2>2, <2>3 DEF Next, Finished
  <1>3. RowsMatch /\ OneAttestationPerEnvelope /\ AnswersMatch => AcceptedIsStored
    BY DEF RowsMatch, OneAttestationPerEnvelope, AnswersMatch, AcceptedIsStored, SameEnvelope
  <1> QED
    BY <1>1, <1>2, <1>3, TypeCorrect, RowsCorrect, UniqueAttestations, PTL DEF Spec

-----------------------------------------------------------------------------
(* Submission counts *)

CommittedOf(a) == {r \in applied : SameEnvelope(a, r)}

LEMMA CommitCounts ==
  ASSUME Types, Shape, NEW r \in Requests, Commit(r)
  PROVE  submissionCount' = [submissionCount EXCEPT ![row[r]] = IF row[r] = r THEN 1 ELSE @ + 1]
  <1>1. pc[r] = "commit" /\ TransactionShape(r)
    BY DEF Commit, Shape
  <1>2. /\ "evidence_submissions" \in wrote[r] <=> row[r] = r
        /\ row[r] # r => "submission_count" \in wrote[r]
    BY <1>1 DEF TransactionShape, Tables
  <1> QED
    BY <1>2 DEF Commit

(* Every committed submission of an envelope is counted exactly once: timeouts,
   lost answers and concurrent repetitions neither lose nor repeat a count. *)
THEOREM SubmissionsCounted == Spec => []CountsEverySubmission
  <1>1. Init => CountsEverySubmission
    BY DEF Init, CountsEverySubmission, Tables
  <1>2. TypeOK /\ Shape /\ RowsMatch /\ OneAttestationPerEnvelope /\ CountsEverySubmission
        /\ [Next]_vars => CountsEverySubmission'
    <2> SUFFICES ASSUME TypeOK, Shape, RowsMatch, OneAttestationPerEnvelope, CountsEverySubmission,
                        [Next]_vars
                 PROVE  CountsEverySubmission'
      OBVIOUS
    <2>1. CASE UNCHANGED dbVars
      BY <2>1, SubmissionsFixed DEF dbVars, CountsEverySubmission, SameEnvelope
    <2>2. ASSUME NEW r \in Requests, Commit(r) PROVE CountsEverySubmission'
      <3>1. /\ pc[r] = "commit" /\ row[r] \in Requests /\ applied' = applied \cup {r}
            /\ stored'["attestations"] =
                 IF row[r] = r THEN stored["attestations"] \cup {r} ELSE stored["attestations"]
            /\ submissionCount' = [submissionCount EXCEPT ![row[r]] = IF row[r] = r THEN 1 ELSE @ + 1]
        BY <2>2, CommitStep, CommitCounts DEF TypeOK, Tables
      <3>2. r \notin applied /\ r \notin stored["attestations"]
        BY <3>1 DEF RowsMatch
      <3>3. ASSUME NEW a \in stored'["attestations"]
            PROVE  submissionCount'[a] = Cardinality({q \in applied' : SameEnvelope(a, q)})
        <4>1. applied \subseteq Requests /\ a \in Requests /\ stored["attestations"] \subseteq Requests
          BY <3>1 DEF TypeOK, Types, Tables
        <4>2. IsFiniteSet(CommittedOf(a))
          BY <4>1, FiniteAssumption, FS_Subset DEF CommittedOf
        <4>3. CASE row[r] = r /\ a = r
          <5>1. \A b \in stored["attestations"] : ~SameEnvelope(b, r)
            BY <3>1, <4>3 DEF RowsMatch, RowsWithId, Id, EvidenceId, Serialized, Statements, SameEnvelope
          <5>2. \A q \in applied : ~SameEnvelope(r, q)
            BY <5>1 DEF RowsMatch, SameEnvelope
          <5>3. {q \in applied' : SameEnvelope(a, q)} = {r}
            BY <3>1, <4>3, <5>2 DEF SameEnvelope
          <5> QED
            BY <3>1, <4>3, <5>3, FS_Singleton DEF TypeOK, Types
        <4>4. CASE a = row[r] /\ a # r
          <5>1. SameEnvelope(a, r) /\ a \in stored["attestations"]
            BY <3>1, <4>4, SubmissionsAssumption DEF RowsMatch
          <5>2. {q \in applied' : SameEnvelope(a, q)} = CommittedOf(a) \cup {r}
            BY <3>1, <5>1 DEF CommittedOf
          <5>3. Cardinality(CommittedOf(a) \cup {r}) = Cardinality(CommittedOf(a)) + 1
            BY <3>2, <4>2, FS_AddElement DEF CommittedOf
          <5> QED
            BY <3>1, <4>1, <4>4, <5>1, <5>2, <5>3 DEF CountsEverySubmission, CommittedOf, TypeOK, Types
        <4>5. CASE a # row[r]
          <5>1. a \in stored["attestations"] /\ a # r
            BY <3>1, <3>2, <4>5
          <5>2. ~SameEnvelope(a, r)
            <6>1. CASE row[r] = r
              BY <3>1, <5>1, <6>1 DEF RowsMatch, RowsWithId, Id, EvidenceId, Serialized, Statements, SameEnvelope
            <6>2. CASE row[r] # r
              BY <3>1, <4>5, <5>1, <6>2, SubmissionsAssumption
              DEF RowsMatch, OneAttestationPerEnvelope, SameEnvelope
            <6> QED
              BY <6>1, <6>2
          <5>3. {q \in applied' : SameEnvelope(a, q)} = CommittedOf(a)
            BY <3>1, <5>2 DEF CommittedOf
          <5> QED
            BY <3>1, <4>1, <4>5, <5>1, <5>3 DEF CountsEverySubmission, CommittedOf, TypeOK, Types
        <4> QED
          BY <3>1, <4>3, <4>4, <4>5
      <3> QED
        BY <3>3, SubmissionsFixed DEF CountsEverySubmission, SameEnvelope
    <2> QED
      BY <2>1, <2>2, DatabaseStep
  <1> QED
    BY <1>1, <1>2, TypeCorrect, RowsCorrect, UniqueAttestations, PTL DEF Spec

-----------------------------------------------------------------------------
(* Identities *)

(* Requests whose transaction has found that no identity is bound to its row. *)
Binding(r) ==
  \/ pc[r] = "insertIdentity"
  \/ pc[r] \in Serialized \ {"rollback"} /\ "verified_ci_identities" \in wrote[r]

(* It is still so, and attestations that do not exist have no identity. *)
Unbound ==
  /\ \A a \in Requests \ stored["attestations"] : identity[a] = NoBundle /\ submissionCount[a] = 0
  /\ \A r \in Requests : Binding(r) => identity[row[r]] = NoBundle

LEMMA BindingStep ==
  ASSUME Types, Shape, NEW r \in Requests, Serve(r) \/ Timeout(r) \/ ConnectionLost(r), Binding(r)'
  PROVE  row'[r] = row[r] /\ (Binding(r) \/ identity[row[r]] = NoBundle)
  <1> TransactionShape(r)
    BY DEF Shape
  <1> USE DEF Types, Goto, Executes
  <1>1. CASE SelectIdentity(r)
    BY <1>1 DEF SelectIdentity, Binding, Fail, AfterIdentity, Serialized, Statements
  <1>2. CASE InsertIdentity(r)
    BY <1>2 DEF InsertIdentity, Binding
  <1>3. CASE SelectAttestation(r)
    BY <1>3 DEF SelectAttestation, Binding, TransactionShape, BeforeRow
  <1>4. CASE InsertAttestation(r)
    BY <1>4 DEF InsertAttestation, Binding, Fail, TransactionShape, BeforeRow
  <1>5. CASE Commit(r) \/ Rollback(r)
    BY <1>5 DEF Commit, Rollback, Binding, Serialized, Statements
  <1>6. CASE InsertRun(r) \/ InsertSubmission(r) \/ InsertFindings(r) \/ UpdateCount(r)
    BY <1>6 DEF InsertRun, InsertSubmission, InsertFindings, UpdateCount, InsertOwn, Binding, Serialized, Statements
  <1>7. CASE Timeout(r) \/ ConnectionLost(r)
    BY <1>7 DEF Timeout, ConnectionLost, CutOff, txVars, Binding, Serialized, Statements
  <1>8. CASE \/ Receive(r) \/ Admit(r) \/ VerifyIdentity(r) \/ Begin(r) \/ AdvisoryLock(r) \/ Upsert(r)
            \/ Respond(r)
    BY <1>8 DEF Receive, Admit, VerifyIdentity, Begin, AdvisoryLock, Upsert, Respond, txVars, Binding,
                TransactionShape, BeforeRow
  <1> QED
    BY <1>1, <1>2, <1>3, <1>4, <1>5, <1>6, <1>7, <1>8 DEF Serve

LEMMA WroteStep ==
  ASSUME Types, NEW r \in Requests, NEW q \in Requests \ {r}, Serve(r) \/ Timeout(r) \/ ConnectionLost(r)
  PROVE  wrote'[q] = wrote[q]
  BY DEF Types, Serve, Receive, Admit, VerifyIdentity, Begin, Respond, Timeout, ConnectionLost, Commit, Rollback,
       AdvisoryLock, SelectAttestation, Upsert, InsertAttestation, InsertOwn, InsertRun, InsertSubmission,
       SelectIdentity, InsertIdentity, InsertFindings, UpdateCount, txVars

(* Two transactions past their advisory locks do not work on one row. *)
LEMMA RowsDiffer ==
  ASSUME Types, Shape, LocksHeld, RowsMatch, NEW q \in Requests, NEW r \in Requests, q # r,
         pc[r] = "commit", pc[q] \in Serialized \ {"rollback"}, row[r] \in Requests
  PROVE  row[q] # row[r]
  <1> SUFFICES ASSUME row[q] = row[r] PROVE FALSE
    OBVIOUS
  <1>1. Unstored(r) <=> row[r] = r
    BY DEF Unstored, Serialized, Statements
  <1>2. row[q] = q => Unstored(q)
    BY DEF Unstored
  <1>3. \A p \in Requests : Unstored(p) => p \notin stored["attestations"]
    BY DEF RowsMatch, Unstored, RowsWithId
  <1>4. \A p \in Requests : row[p] \notin {p, NoRow} =>
          row[p] \in stored["attestations"] /\ SameEnvelope(row[p], p)
    BY DEF RowsMatch
  <1>5. row[r] # NoRow
    BY SubmissionsAssumption
  <1>6. row[r] # r /\ row[q] # q
    BY <1>1, <1>2, <1>3, <1>4, <1>5
  <1>7. SameEnvelope(q, r)
    BY <1>4, <1>5, <1>6 DEF SameEnvelope
  <1>8. AdvisoryKey(q) = AdvisoryKey(r)
    BY <1>7 DEF AdvisoryKey, SameEnvelope
  <1> QED
    BY <1>8 DEF LocksHeld, Serialized, Statements

LEMMA CommitUnbound ==
  ASSUME Types, Shape, LocksHeld, RowsMatch, Unbound, NEW r \in Requests, Commit(r)
  PROVE  Unbound'
  <1>1. /\ pc[r] = "commit" /\ row[r] \in Requests /\ row' = row
        /\ stored'["attestations"] =
             IF row[r] = r THEN stored["attestations"] \cup {r} ELSE stored["attestations"]
        /\ pc'[r] \in {"committed", "done"}
    BY CommitStep DEF Tables
  <1>2. /\ \A a \in Requests \ {row[r]} : identity'[a] = identity[a] /\ submissionCount'[a] = submissionCount[a]
        /\ \A q \in Requests \ {r} : pc'[q] = pc[q] /\ wrote'[q] = wrote[q]
    BY DEF Commit, Goto, Types
  <1>3. row[r] \in stored'["attestations"]
    BY <1>1, SubmissionsAssumption DEF RowsMatch
  <1>4. ASSUME NEW a \in Requests \ stored'["attestations"]
        PROVE  identity'[a] = NoBundle /\ submissionCount'[a] = 0
    <2>1. a # row[r] /\ a \notin stored["attestations"]
      BY <1>1, <1>3
    <2> QED
      BY <1>2, <2>1 DEF Unbound
  <1>5. ASSUME NEW q \in Requests, Binding(q)' PROVE identity'[row'[q]] = NoBundle
    <2>1. q # r
      BY <1>1, <1>5 DEF Binding, Serialized, Statements
    <2>2. Binding(q) /\ pc[q] \in Serialized \ {"rollback"}
      BY <1>2, <1>5, <2>1 DEF Binding, Serialized, Statements
    <2>3. row[q] # row[r]
      BY <1>1, <2>1, <2>2, RowsDiffer
    <2>4. row[q] \in Requests
      <3>1. TransactionShape(q)
        BY DEF Shape
      <3> QED
        BY <2>2, <3>1 DEF TransactionShape, BeforeRow, OwnRows, Binding, Serialized, Statements
    <2> QED
      BY <1>1, <1>2, <2>2, <2>3, <2>4 DEF Unbound
  <1> QED
    BY <1>4, <1>5 DEF Unbound

LEMMA StepUnbound ==
  ASSUME Types, Shape, LocksHeld, RowsMatch, Unbound,
         NEW r \in Requests, Serve(r) \/ Timeout(r) \/ ConnectionLost(r)
  PROVE  Unbound'
  <1>1. CASE Commit(r)
    BY <1>1, CommitUnbound
  <1>2. CASE ~Commit(r)
    <2>1. UNCHANGED dbVars
      BY <1>2, StoreChangesOnCommit
    <2>2. ASSUME NEW q \in Requests, Binding(q)' PROVE identity[row'[q]] = NoBundle
      <3>1. CASE q = r
        BY <2>2, <3>1, BindingStep DEF Unbound
      <3>2. CASE q # r
        <4>1. pc'[q] = pc[q] /\ row'[q] = row[q]
          BY <3>2, SerializedStep, RowStep DEF Types
        <4>2. wrote'[q] = wrote[q]
          BY <3>2, WroteStep
        <4> QED
          BY <2>2, <4>1, <4>2 DEF Binding, Unbound
      <3> QED
        BY <3>1, <3>2
    <2> QED
      BY <2>1, <2>2 DEF dbVars, Unbound
  <1> QED
    BY <1>1, <1>2

(* A transaction that binds an identity finds none bound, from its check to
   its COMMIT, for every interleaving. *)
THEOREM IdentitiesCorrect == Spec => []Unbound
  <1>1. Init => Unbound
    BY DEF Init, Unbound, Binding, Serialized, Statements
  <1>2. TypeOK /\ Shape /\ LocksHeld /\ RowsMatch /\ Unbound /\ [Next]_vars => Unbound'
    <2> SUFFICES ASSUME TypeOK, Shape, LocksHeld, RowsMatch, Unbound, [Next]_vars PROVE Unbound'
      OBVIOUS
    <2>1. ASSUME NEW r \in Requests, Serve(r) \/ Timeout(r) \/ ConnectionLost(r)
          PROVE  Unbound'
      BY <2>1, StepUnbound DEF TypeOK
    <2>2. CASE Crash
      BY <2>2 DEF Crash, CutOff, txVars, dbVars, Unbound, Binding, Serialized, Statements, TypeOK, Types
    <2>3. CASE UNCHANGED vars
      BY <2>3 DEF vars, Unbound, Binding
    <2> QED
      BY <2>1, <2>2, <2>3 DEF Next, Finished
  <1> QED
    BY <1>1, <1>2, TypeCorrect, LocksCorrect, RowsCorrect, PTL DEF Spec

(* What a step may never do to the evidence. *)
LEMMA StepImmutable ==
  ASSUME TypeOK, Shape, RowsMatch, Unbound, [Next]_vars
  PROVE  /\ \A t \in Tables : stored[t] \subseteq stored'[t]
         /\ \A a \in Requests : /\ identity[a] # NoBundle => identity'[a] = identity[a]
                                /\ submissionCount[a] <= submissionCount'[a]
  <1> Types
    BY DEF TypeOK
  <1>1. CASE UNCHANGED dbVars
    BY <1>1 DEF dbVars, Types
  <1>2. ASSUME NEW r \in Requests, Commit(r)
        PROVE  /\ \A t \in Tables : stored[t] \subseteq stored'[t]
               /\ \A a \in Requests : /\ identity[a] # NoBundle => identity'[a] = identity[a]
                                      /\ submissionCount[a] <= submissionCount'[a]
    <2>1. /\ pc[r] = "commit" /\ row[r] \in Requests
          /\ \A t \in Tables : stored'[t] = IF row[r] = r THEN stored[t] \cup {r} ELSE stored[t]
          /\ submissionCount' = [submissionCount EXCEPT ![row[r]] = IF row[r] = r THEN 1 ELSE @ + 1]
      BY <1>2, CommitStep, CommitCounts
    <2>2. row[r] = r => submissionCount[r] = 0
      BY <2>1 DEF RowsMatch, Unbound, Types
    <2>3. "verified_ci_identities" \in wrote[r] => identity[row[r]] = NoBundle
      BY <2>1 DEF Unbound, Binding, Serialized, Statements
    <2>4. \A a \in Requests : identity[a] # NoBundle => identity'[a] = identity[a]
      BY <1>2, <2>1, <2>3 DEF Commit, Types
    <2>5. \A a \in Requests : submissionCount[a] <= submissionCount'[a]
      BY <2>1, <2>2 DEF Types
    <2> QED
      BY <2>1, <2>4, <2>5
  <1> QED
    BY <1>1, <1>2, DatabaseStep

(* Evidence is append-only: rows stay, the identity bound to one stays, and no
   submission count falls, whatever requests race and fail. *)
THEOREM ImmutableEvidence == Spec => EvidenceIsImmutable
  <1>1. TypeOK /\ Shape /\ RowsMatch /\ Unbound /\ [Next]_vars =>
          [/\ \A t \in Tables : stored[t] \subseteq stored'[t]
           /\ \A a \in Requests : /\ identity[a] # NoBundle => identity'[a] = identity[a]
                                  /\ submissionCount[a] <= submissionCount'[a]]_vars
    BY StepImmutable
  <1> QED
    BY <1>1, TypeCorrect, RowsCorrect, IdentitiesCorrect, PTL DEF Spec, EvidenceIsImmutable

(* handler[r] is "lost", or another bundle is bound to the envelope of r. *)
Excused(r) ==
  \/ handler[r] = "lost"
  \/ \E a \in stored["attestations"] : SameEnvelope(a, r) /\ identity[a] \notin {NoBundle, Bundle(r)}

LEMMA StaysExcused ==
  ASSUME TypeOK, Shape, RowsMatch, Unbound, [Next]_vars, NEW r \in Requests, Excused(r)
  PROVE  Excused(r)'
  <1>1. CASE handler[r] = "lost"
    <2>1. handler'[r] = "lost"
      BY <1>1 DEF TypeOK, Types, Next, Serve, Receive, Admit, VerifyIdentity, Begin, Respond, Timeout, AtAwait,
         ConnectionLost, Crash, Finished, vars, Commit, Rollback, AdvisoryLock, SelectAttestation, Upsert,
         InsertAttestation, InsertOwn, InsertRun, InsertSubmission, SelectIdentity, InsertIdentity,
         InsertFindings, UpdateCount, Executes, Fail
    <2> QED
      BY <2>1 DEF Excused
  <1>2. ASSUME NEW a \in stored["attestations"], SameEnvelope(a, r), identity[a] \notin {NoBundle, Bundle(r)}
        PROVE  Excused(r)'
    <2>1. a \in Requests /\ a \in stored'["attestations"]
      BY StepImmutable DEF TypeOK, Types, Tables
    <2>2. identity'[a] = identity[a]
      BY <1>2, <2>1, StepImmutable
    <2>3. SameEnvelope(a, r)' /\ Bundle(r)' = Bundle(r)
      BY <1>2, SubmissionsFixed DEF SameEnvelope, Bundle
    <2> QED
      BY <1>2, <2>1, <2>2, <2>3 DEF Excused
  <1> QED
    BY <1>1, <1>2 DEF Excused

(* Only a connection that fails and a bundle that is not the bound one make
   persist return an error: the unique keys never do. *)
LEMMA ErrorStep ==
  ASSUME Types, Shape, RowsMatch, Unbound, NEW r \in Requests, Serve(r) \/ Timeout(r) \/ ConnectionLost(r),
         answer'[r] = "PERSISTENCE_ERROR", answer[r] # "PERSISTENCE_ERROR"
  PROVE  Excused(r)'
  <1>1. CASE InsertAttestation(r)
    <2>1. RowsWithId(Id(r)) = {}
      BY <1>1 DEF InsertAttestation, Executes, RowsMatch
    <2> QED
      BY <1>1, <2>1 DEF InsertAttestation
  <1>2. CASE InsertIdentity(r)
    <2>1. identity[row[r]] = NoBundle
      BY <1>2 DEF InsertIdentity, Executes, Unbound, Binding
    <2> QED
      BY <1>2, <2>1 DEF InsertIdentity
  <1>3. CASE SelectIdentity(r)
    <2>1. identity[row[r]] \notin {NoBundle, Bundle(r)} /\ UNCHANGED dbVars /\ submission' = submission
      BY <1>3 DEF SelectIdentity
    <2>2. row[r] \in Requests
      BY <1>3 DEF SelectIdentity, Executes, Shape, TransactionShape
    <2>3. row[r] \in stored["attestations"]
      BY <2>1, <2>2 DEF Unbound
    <2>4. SameEnvelope(row[r], r)
      BY <2>2, SubmissionsAssumption DEF RowsMatch, SameEnvelope
    <2> QED
      BY <2>1, <2>3, <2>4 DEF Excused, SameEnvelope, Bundle, dbVars
  <1>4. CASE ConnectionLost(r)
    BY <1>4 DEF ConnectionLost, Excused, Types
  <1>5. CASE ~InsertAttestation(r) /\ ~InsertIdentity(r) /\ ~SelectIdentity(r) /\ ~ConnectionLost(r)
    BY <1>5 DEF Serve, Receive, Admit, VerifyIdentity, Begin, Timeout, Commit, Rollback, Respond,
       AdvisoryLock, SelectAttestation, Upsert, InsertOwn, InsertRun, InsertSubmission, InsertFindings,
       UpdateCount, Types
  <1> QED
    BY <1>1, <1>2, <1>3, <1>4, <1>5

(* A submission is refused with PERSISTENCE_ERROR only for a failed connection
   or for another bundle bound to its envelope, whatever it races with. *)
THEOREM ErrorsAreReal == Spec => []NoSpuriousError
  <1> DEFINE Real == \A r \in Requests : answer[r] = "PERSISTENCE_ERROR" => Excused(r)
  <1>1. Init => Real
    BY DEF Init
  <1>2. TypeOK /\ Shape /\ RowsMatch /\ Unbound /\ Real /\ [Next]_vars => Real'
    <2> SUFFICES ASSUME TypeOK, Shape, RowsMatch, Unbound, Real, [Next]_vars,
                        NEW q \in Requests, answer'[q] = "PERSISTENCE_ERROR"
                 PROVE  Excused(q)'
      OBVIOUS
    <2>1. CASE answer[q] = "PERSISTENCE_ERROR"
      BY <2>1, StaysExcused
    <2>2. CASE answer[q] # "PERSISTENCE_ERROR"
      <3>1. ASSUME NEW r \in Requests, Serve(r) \/ Timeout(r) \/ ConnectionLost(r) PROVE q = r
        BY <2>2, <3>1, AnswerStep DEF TypeOK, Types, Respond
      <3>2. answer' # answer
        BY <2>2
      <3>3. PICK r \in Requests : Serve(r) \/ Timeout(r) \/ ConnectionLost(r)
        BY <3>2 DEF Next, Crash, Finished, vars
      <3> QED
        BY <2>2, <3>1, <3>3, ErrorStep DEF TypeOK
    <2> QED
      BY <2>1, <2>2
  <1>3. Real => NoSpuriousError
    BY DEF NoSpuriousError, Excused
  <1> HIDE DEF Real
  <1> QED
    BY <1>1, <1>2, <1>3, TypeCorrect, RowsCorrect, IdentitiesCorrect, PTL DEF Spec

-----------------------------------------------------------------------------
(* Refinement: ingestion implements the abstract evidence store *)

(* A request is answered once, when it is over or cut off. *)
AnsweredOnce ==
  \A r \in Requests : answer[r] # "none" =>
    /\ pc[r] = "done" \/ (pc[r] \in Statements /\ handler[r] # "live")
    /\ answer[r] = "REJECTED" => r \notin applied
    /\ answer[r] \notin {"PERSISTENCE_ERROR", "TIMEOUT"} => pc[r] = "done"

(* A transaction that does not bind its bundle has none, or it is bound. *)
Proved ==
  \A r \in Requests :
    pc[r] \in {"insertFindings", "updateCount", "commit"} /\ "verified_ci_identities" \notin wrote[r] =>
      Bundle(r) = NoBundle \/ identity[row[r]] = Bundle(r)

LEMMA StepAnsweredOnce ==
  ASSUME TypeOK, RowsMatch, AnsweredOnce, [Next]_vars
  PROVE  AnsweredOnce'
  <1> USE DEF TypeOK, Types
  <1>1. ASSUME NEW r \in Requests, Serve(r) \/ Timeout(r) \/ ConnectionLost(r), NEW q \in Requests,
               answer'[q] # "none"
        PROVE  /\ pc'[q] = "done" \/ (pc'[q] \in Statements /\ handler'[q] # "live")
               /\ answer'[q] = "REJECTED" => q \notin applied'
               /\ answer'[q] \notin {"PERSISTENCE_ERROR", "TIMEOUT"} => pc'[q] = "done"
    <2>1. CASE Commit(r)
      BY <1>1, <2>1 DEF Commit, Goto, AnsweredOnce, Statements
    <2>2. CASE ~Commit(r)
      <3>1. applied' = applied
        BY <1>1, <2>2, StoreChangesOnCommit DEF dbVars
      <3>2. r \in applied => pc[r] \in {"committed", "done"}
        BY DEF RowsMatch
      <3> QED
        BY <1>1, <2>2, <3>1, <3>2 DEF AnsweredOnce, Serve, Receive, Admit, VerifyIdentity, Begin, Respond, Timeout,
           AtAwait, ConnectionLost, CutOff, Rollback, AdvisoryLock, SelectAttestation, Upsert, InsertAttestation,
           InsertOwn, InsertRun, InsertSubmission, SelectIdentity, InsertIdentity, InsertFindings, UpdateCount,
           Executes, Goto, Fail, Statements
    <2> QED
      BY <2>1, <2>2
  <1>2. CASE Crash
    BY <1>2 DEF Crash, CutOff, dbVars, AnsweredOnce, Statements
  <1>3. CASE UNCHANGED vars
    BY <1>3 DEF vars, AnsweredOnce
  <1> QED
    BY <1>1, <1>2, <1>3 DEF Next, Finished, AnsweredOnce

LEMMA StepProved ==
  ASSUME TypeOK, Shape, RowsMatch, Unbound, Proved, [Next]_vars
  PROVE  Proved'
  <1> USE DEF TypeOK, Types
  <1> SUFFICES ASSUME NEW q \in Requests, pc'[q] \in {"insertFindings", "updateCount", "commit"},
                      "verified_ci_identities" \notin wrote'[q]
               PROVE  Bundle(q)' = NoBundle \/ identity'[row'[q]] = Bundle(q)'
    BY DEF Proved
  <1>1. Bundle(q)' = Bundle(q)
    BY SubmissionsFixed DEF Bundle
  <1>2. TransactionShape(q)
    BY DEF Shape
  <1>3. \/ Bundle(q) = NoBundle
        \/ row'[q] = row[q] /\ row[q] \in Requests /\ identity[row[q]] = Bundle(q)
    <2>1. CASE pc'[q] = pc[q] /\ wrote'[q] = wrote[q] /\ row'[q] = row[q]
      BY <1>2, <2>1, SubmissionsAssumption DEF Proved, TransactionShape
    <2>2. ASSUME NEW r \in Requests, Serve(r) \/ Timeout(r) \/ ConnectionLost(r), q = r
          PROVE  \/ Bundle(q) = NoBundle
                 \/ row'[q] = row[q] /\ row[q] \in Requests /\ identity[row[q]] = Bundle(q)
      <3>1. CASE SelectAttestation(r)
        BY <2>2, <3>1 DEF SelectAttestation, Executes, Goto
      <3>2. CASE InsertSubmission(r)
        BY <2>2, <3>2 DEF InsertSubmission, InsertOwn, Executes, Goto
      <3>3. CASE SelectIdentity(r)
        BY <1>2, <2>2, <3>3 DEF SelectIdentity, Executes, Goto, Fail, TransactionShape
      <3>4. CASE InsertIdentity(r)
        BY <2>2, <3>4 DEF InsertIdentity, Executes, Goto, Fail
      <3>5. CASE InsertFindings(r) \/ UpdateCount(r)
        BY <1>2, <2>2, <3>5 DEF InsertFindings, UpdateCount, InsertOwn, Executes, Goto, TransactionShape, Proved
      <3>6. CASE \/ Receive(r) \/ Admit(r) \/ VerifyIdentity(r) \/ Begin(r) \/ AdvisoryLock(r) \/ Upsert(r)
                \/ InsertAttestation(r) \/ InsertRun(r) \/ Commit(r) \/ Rollback(r) \/ Respond(r)
        BY <2>2, <3>6 DEF Receive, Admit, VerifyIdentity, Begin, AdvisoryLock, Upsert, InsertAttestation, InsertRun,
           InsertOwn, Commit, Rollback, Respond, Fail, Executes, Goto
      <3>7. CASE Timeout(r) \/ ConnectionLost(r)
        <4>1. pc'[q] = pc[q] /\ wrote'[q] = wrote[q] /\ row'[q] = row[q]
          BY <2>2, <3>7 DEF Timeout, ConnectionLost, CutOff, Goto, txVars
        <4> QED
          BY <2>1, <4>1
      <3> QED
        BY <2>2, <3>1, <3>2, <3>3, <3>4, <3>5, <3>6, <3>7 DEF Serve
    <2>3. ASSUME NEW r \in Requests, Serve(r) \/ Timeout(r) \/ ConnectionLost(r), q # r
          PROVE  pc'[q] = pc[q] /\ wrote'[q] = wrote[q] /\ row'[q] = row[q]
      BY <2>3, SerializedStep, WroteStep, RowStep
    <2>4. CASE Crash
      BY <2>1, <2>4 DEF Crash, CutOff, txVars
    <2>5. CASE UNCHANGED vars
      BY <2>1, <2>5 DEF vars
    <2> QED
      BY <2>1, <2>2, <2>3, <2>4, <2>5 DEF Next, Finished
  <1> QED
    BY <1>1, <1>3, StepImmutable

LEMMA RefinementInvariants == Spec => [](AnsweredOnce /\ Proved)
  <1>1. Init => AnsweredOnce /\ Proved
    BY DEF Init, AnsweredOnce, Proved
  <1>2. TypeOK /\ Shape /\ RowsMatch /\ Unbound /\ AnsweredOnce /\ Proved /\ [Next]_vars
        => (AnsweredOnce /\ Proved)'
    BY StepAnsweredOnce, StepProved
  <1> QED
    BY <1>1, <1>2, TypeCorrect, RowsCorrect, IdentitiesCorrect, PTL DEF Spec

(* The abstract state: what the database and the requests say of envelopes. *)
Env(r) == EnvelopeOf[submission[r].body]
Original == [e \in Envelopes |-> IF IsStored(e) THEN submission[RowOf(e)].body ELSE NoBody]
Count == [e \in Envelopes |-> IF IsStored(e) THEN submissionCount[RowOf(e)] ELSE 0]
Proof == [e \in Envelopes |-> IF IsStored(e) THEN identity[RowOf(e)] ELSE NoBundle]
Effect == [r \in Requests |->
  IF r \notin applied THEN "none" ELSE IF row[r] = r THEN "new" ELSE "duplicate"]
Told == [r \in Requests |->
  IF answer[r] \in {"PERSISTENCE_ERROR", "TIMEOUT"} THEN "UNKNOWN" ELSE answer[r]]

(* An envelope and its attestation determine each other. *)
LEMMA RowOfIs ==
  OneAttestationPerEnvelope =>
    /\ \A a \in stored["attestations"] : IsStored(Env(a)) /\ RowOf(Env(a)) = a
    /\ \A e : IsStored(e) => RowOf(e) \in stored["attestations"] /\ Env(RowOf(e)) = e
  BY DEF OneAttestationPerEnvelope, SameEnvelope, IsStored, RowOf, Env

(* An envelope keeps the attestation it has. *)
LEMMA RowStays ==
  ASSUME TypeOK, Shape, RowsMatch, Unbound, OneAttestationPerEnvelope, OneAttestationPerEnvelope',
         [Next]_vars, NEW e, IsStored(e)
  PROVE  IsStored(e)' /\ RowOf(e)' = RowOf(e) /\ RowOf(e) \in Requests
  <1>1. PICK a \in stored["attestations"] : a = RowOf(e) /\ EnvelopeOf[submission[a].body] = e
    BY RowOfIs DEF Env
  <1>2. a \in stored'["attestations"]
    BY StepImmutable DEF Tables
  <1>3. EnvelopeOf[submission'[a].body] = e
    BY <1>1, SubmissionsFixed
  <1>4. \A b \in stored'["attestations"] : EnvelopeOf[submission'[b].body] = e => b = a
    BY <1>2, <1>3 DEF OneAttestationPerEnvelope, SameEnvelope
  <1>5. RowOf(e)' = a
    BY <1>2, <1>3, <1>4 DEF RowOf
  <1>6. IsStored(e)'
    BY <1>2, <1>3 DEF IsStored
  <1> QED
    BY <1>1, <1>5, <1>6 DEF TypeOK, Types, Tables

(* Without a COMMIT the store of envelopes does not change. *)
LEMMA Unmoved ==
  ASSUME TypeOK, Shape, RowsMatch, Unbound, OneAttestationPerEnvelope, OneAttestationPerEnvelope',
         [Next]_vars, UNCHANGED dbVars
  PROVE  Original' = Original /\ Count' = Count /\ Proof' = Proof
  <1>1. ASSUME NEW e PROVE IsStored(e)' <=> IsStored(e)
    BY SubmissionsFixed DEF IsStored, dbVars
  <1>2. ASSUME NEW e, IsStored(e) PROVE RowOf(e)' = RowOf(e)
    BY <1>2, RowStays
  <1> QED
    BY <1>1, <1>2, SubmissionsFixed DEF Original, Count, Proof, dbVars

(* What COMMIT does to the envelope of its request, and to the others. *)
LEMMA CommitMoves ==
  ASSUME TypeOK, Shape, LocksHeld, RowsMatch, Unbound, Proved, OneAttestationPerEnvelope,
         OneAttestationPerEnvelope', [Next]_vars, NEW r \in Requests, Commit(r), NEW v, v = Env(r)
  PROVE  /\ \A e \in Envelopes \ {v} :
              Original'[e] = Original[e] /\ Count'[e] = Count[e] /\ Proof'[e] = Proof[e]
         /\ row[r] = r =>
              /\ Original[v] = NoBody
              /\ Original'[v] = submission[r].body
              /\ Count'[v] = 1
              /\ Proof'[v] = Bundle(r)
         /\ row[r] # r =>
              /\ Original[v] # NoBody
              /\ Bundle(r) # NoBundle => Proof[v] \in {NoBundle, Bundle(r)}
              /\ Original'[v] = Original[v]
              /\ Count'[v] = Count[v] + 1
              /\ Proof'[v] = IF Bundle(r) = NoBundle THEN Proof[v] ELSE Bundle(r)
  <1> Types
    BY DEF TypeOK
  <1>1. /\ pc[r] = "commit" /\ row[r] \in Requests /\ submission' = submission
        /\ stored'["attestations"] =
             IF row[r] = r THEN stored["attestations"] \cup {r} ELSE stored["attestations"]
        /\ submissionCount' = [submissionCount EXCEPT ![row[r]] = IF row[r] = r THEN 1 ELSE @ + 1]
        /\ identity' = [identity EXCEPT ![row[r]] =
             IF "verified_ci_identities" \in wrote[r] THEN Bundle(r) ELSE @]
    BY CommitStep, CommitCounts DEF Commit, Tables
  <1>2. /\ "verified_ci_identities" \in wrote[r] => identity[row[r]] = NoBundle
        /\ "verified_ci_identities" \notin wrote[r] => Bundle(r) = NoBundle \/ identity[row[r]] = Bundle(r)
    BY <1>1 DEF Unbound, Binding, Proved, Serialized, Statements
  <1>3. v \in Envelopes /\ submission[r].body \in Bodies /\ Bundle(r) \in Bundles \cup {NoBundle}
    BY SubmissionsAssumption DEF Types, Env, Envelopes, Bundle
  <1>4. \A e : IsStored(e) <=> \E a \in stored["attestations"] : EnvelopeOf[submission[a].body] = e
    BY DEF IsStored
  <1>5. \A e : IsStored(e)' <=> \E a \in stored'["attestations"] : EnvelopeOf[submission[a].body] = e
    BY <1>1 DEF IsStored
  <1>6. \A e : IsStored(e) => /\ IsStored(e)' /\ RowOf(e)' = RowOf(e)
                             /\ RowOf(e) \in stored["attestations"]
                             /\ EnvelopeOf[submission[RowOf(e)].body] = e
    BY RowStays, RowOfIs DEF Env
  <1>7. ASSUME row[r] = r
        PROVE  /\ ~IsStored(v) /\ IsStored(v)' /\ RowOf(v)' = r
    <2>1. \A a \in stored["attestations"] : EnvelopeOf[submission[a].body] # v
      BY <1>1, <1>7 DEF RowsMatch, RowsWithId, Id, EvidenceId, Serialized, Statements, Env
    <2>2. \A a \in stored'["attestations"] : EnvelopeOf[submission'[a].body] = v <=> a = r
      BY <1>1, <1>7, <2>1 DEF Env
    <2> QED
      BY <1>1, <1>4, <1>5, <1>7, <2>1, <2>2 DEF RowOf
  <1>8. ASSUME row[r] # r
        PROVE  IsStored(v) /\ RowOf(v) = row[r]
    <2>1. row[r] \in stored["attestations"] /\ Env(row[r]) = v
      BY <1>1, <1>8, SubmissionsAssumption DEF RowsMatch, SameEnvelope, Env
    <2> QED
      BY <2>1, RowOfIs
  <1>9. ASSUME NEW e \in Envelopes \ {v}
        PROVE  Original'[e] = Original[e] /\ Count'[e] = Count[e] /\ Proof'[e] = Proof[e]
    <2>1. CASE IsStored(e)
      <3>1. RowOf(e) # row[r]
        BY <1>1, <1>6, <1>7, <1>8, <2>1 DEF Env
      <3> QED
        BY <1>1, <1>6, <2>1, <3>1 DEF Original, Count, Proof, Types, Tables
    <2>2. CASE ~IsStored(e)
      <3>1. ~IsStored(e)'
        BY <1>1, <1>4, <1>5, <2>2 DEF Env
      <3> QED
        BY <2>2, <3>1 DEF Original, Count, Proof
    <2> QED
      BY <2>1, <2>2
  <1>10. ASSUME row[r] = r
         PROVE  /\ Original[v] = NoBody
                /\ Original'[v] = submission[r].body
                /\ Count'[v] = 1
                /\ Proof'[v] = Bundle(r)
    <2>1. identity[r] = NoBundle
      BY <1>1, <1>10 DEF RowsMatch, Unbound
    <2>2. identity'[r] = Bundle(r) /\ submissionCount'[r] = 1
      BY <1>1, <1>2, <1>10, <2>1 DEF Types
    <2> QED
      BY <1>1, <1>3, <1>7, <1>10, <2>2 DEF Original, Count, Proof
  <1>11. ASSUME row[r] # r
         PROVE  /\ Original[v] # NoBody
                /\ Bundle(r) # NoBundle => Proof[v] \in {NoBundle, Bundle(r)}
                /\ Original'[v] = Original[v]
                /\ Count'[v] = Count[v] + 1
                /\ Proof'[v] = IF Bundle(r) = NoBundle THEN Proof[v] ELSE Bundle(r)
    <2>1. IsStored(v) /\ IsStored(v)' /\ RowOf(v) = row[r] /\ RowOf(v)' = row[r]
      BY <1>6, <1>8, <1>11
    <2>2. submission[row[r]].body \in Bodies
      BY <1>1, SubmissionsAssumption DEF Types
    <2>3. /\ submissionCount'[row[r]] = submissionCount[row[r]] + 1
          /\ identity'[row[r]] = IF "verified_ci_identities" \in wrote[r] THEN Bundle(r) ELSE identity[row[r]]
      BY <1>1, <1>11 DEF Types
    <2> QED
      BY <1>1, <1>2, <1>3, <2>1, <2>2, <2>3, SubmissionsAssumption DEF Original, Count, Proof
  <1> QED
    BY <1>9, <1>10, <1>11

(* A request is answered when it has no answer. *)
LEMMA TellStep ==
  ASSUME TypeOK, Shape, RowsMatch, AnsweredOnce, AnsweredOnce', [Next]_vars
  PROVE  \/ answer' = answer
         \/ \E r \in Requests, x \in Answers \ {"none"} :
              /\ answer[r] = "none" /\ answer' = [answer EXCEPT ![r] = x]
              /\ UNCHANGED dbVars
              /\ x = "ACCEPTED_NEW" => r \in applied /\ row[r] = r
              /\ x = "ACCEPTED_DUPLICATE" => r \in applied /\ row[r] # r
              /\ x = "REJECTED" => r \notin applied
  <1> USE DEF TypeOK, Types
  <1>1. CASE answer' # answer
    <2>1. PICK r \in Requests : Serve(r) \/ Timeout(r) \/ ConnectionLost(r)
      BY <1>1 DEF Next, Crash, Finished, vars
    <2>2. ~Commit(r) /\ UNCHANGED dbVars
      BY <1>1, <2>1, StoreChangesOnCommit DEF Commit
    <2>3. answer[r] = "none"
      BY <1>1, <2>1 DEF AnsweredOnce, Serve, Receive, Admit, VerifyIdentity, Begin, Respond, Timeout,
         AtAwait, ConnectionLost, Commit, Rollback, AdvisoryLock, SelectAttestation, Upsert, InsertAttestation,
         InsertOwn, InsertRun, InsertSubmission, SelectIdentity, InsertIdentity, InsertFindings, UpdateCount,
         Executes, Fail, Statements
    <2>4. CASE Respond(r)
      <3>1. r \in applied
        BY <2>4 DEF Respond, RowsMatch
      <3>2. {"ACCEPTED_NEW", "ACCEPTED_DUPLICATE"} \subseteq Answers \ {"none"}
        BY DEF Answers
      <3>3. CASE row[r] = r
        <4>1. answer' = [answer EXCEPT ![r] = "ACCEPTED_NEW"]
          BY <2>4, <3>3 DEF Respond
        <4> QED
          BY <2>2, <2>3, <3>1, <3>2, <3>3, <4>1, Zenon
      <3>4. CASE row[r] # r
        <4>1. answer' = [answer EXCEPT ![r] = "ACCEPTED_DUPLICATE"]
          BY <2>4, <3>4 DEF Respond
        <4> QED
          BY <2>2, <2>3, <3>1, <3>2, <3>4, <4>1, Zenon
      <3> QED
        BY <3>3, <3>4
    <2>5. CASE ~Respond(r)
      <3>1. PICK x \in {"REJECTED", "PERSISTENCE_ERROR", "TIMEOUT"} : answer' = [answer EXCEPT ![r] = x]
        BY <1>1, <2>1, <2>5, AnswerStep
      <3>2. x = "REJECTED" => r \notin applied
        BY <2>2, <3>1 DEF AnsweredOnce, dbVars
      <3>3. x \in Answers \ {"none"}
        BY DEF Answers
      <3> QED
        BY <2>2, <2>3, <3>1, <3>2, <3>3
    <2> QED
      BY <2>4, <2>5
  <1> QED
    BY <1>1

(* What a committed request did is settled. *)
LEMMA EffectStep ==
  ASSUME TypeOK, Shape, RowsMatch, [Next]_vars
  PROVE  /\ UNCHANGED dbVars => Effect' = Effect
         /\ \A r \in Requests : Commit(r) =>
              Effect' = [Effect EXCEPT ![r] = IF row[r] = r THEN "new" ELSE "duplicate"]
  <1> USE DEF TypeOK, Types
  <1>1. ASSUME NEW q \in applied PROVE row'[q] = row[q]
    <2>1. pc[q] \in {"committed", "done"} /\ q \in Requests
      BY DEF RowsMatch
    <2>2. ASSUME NEW r \in Requests, Serve(r) \/ Timeout(r) \/ ConnectionLost(r)
          PROVE  row'[q] = row[q]
      BY <2>1, <2>2, RowStep
    <2> QED
      BY <2>2 DEF Next, Crash, Finished, vars, txVars
  <1>2. ASSUME UNCHANGED dbVars PROVE Effect' = Effect
    <2>1. applied' = applied
      BY <1>2 DEF dbVars
    <2> QED
      BY <1>1, <2>1 DEF Effect
  <1>3. ASSUME NEW r \in Requests, Commit(r)
        PROVE  Effect' = [Effect EXCEPT ![r] = IF row[r] = r THEN "new" ELSE "duplicate"]
    <2>1. row' = row /\ applied' = applied \cup {r}
      BY <1>3, CommitStep
    <2> QED
      BY <2>1 DEF Effect
  <1> QED
    BY <1>2, <1>3

(* At the start nothing is stored and nobody was told anything. *)
LEMMA InitRefines == Init => Store!Init
  <1> SUFFICES ASSUME Init PROVE Store!Init
    OBVIOUS
  <1>1. submission \in [Requests -> Store!AllSubmissions \cup {NoRow}]
    BY SubmissionsAssumption DEF Init, Store!AllSubmissions
  <1>2. \A e : ~IsStored(e)
    BY DEF Init, IsStored, Tables
  <1> QED
    BY <1>1, <1>2 DEF Init, Store!Init

(* COMMIT is Store or Replay, an answer is Answer, every other step stutters. *)
LEMMA StepRefines ==
  ASSUME TypeOK, Shape, LocksHeld, RowsMatch, Unbound, Proved, AnsweredOnce, AnsweredOnce',
         OneAttestationPerEnvelope, OneAttestationPerEnvelope', [Next]_vars
  PROVE  [Store!Next]_(Store!vars)
  <1> USE DEF TypeOK, Types
  <1>1. submission' = submission /\ \A r \in Requests : submission[r] # NoRow
    BY SubmissionsFixed, SubmissionsAssumption
  <1>2. CASE UNCHANGED dbVars
    <2>1. Original' = Original /\ Count' = Count /\ Proof' = Proof /\ Effect' = Effect
      BY <1>2, Unmoved, EffectStep
    <2>2. CASE answer' = answer
      <3>1. Told' = Told
        BY <2>2 DEF Told
      <3> QED
        BY <1>1, <2>1, <3>1 DEF Store!vars, Original, Count, Proof, Effect, Told
    <2>3. ASSUME answer' # answer PROVE \E r \in Requests : Store!Answer(r)
      <3>1. PICK r \in Requests, x \in Answers \ {"none"} :
              /\ answer[r] = "none" /\ answer' = [answer EXCEPT ![r] = x]
              /\ x = "ACCEPTED_NEW" => r \in applied /\ row[r] = r
              /\ x = "ACCEPTED_DUPLICATE" => r \in applied /\ row[r] # r
              /\ x = "REJECTED" => r \notin applied
        BY <2>3, TellStep
      <3>2. /\ Told[r] = "none"
            /\ \/ Effect[r] = "new" /\ Told' = [Told EXCEPT ![r] = "ACCEPTED_NEW"]
               \/ Effect[r] = "duplicate" /\ Told' = [Told EXCEPT ![r] = "ACCEPTED_DUPLICATE"]
               \/ Effect[r] = "none" /\ Told' = [Told EXCEPT ![r] = "REJECTED"]
               \/ Told' = [Told EXCEPT ![r] = "UNKNOWN"]
        BY <3>1 DEF Told, Effect, Answers
      <3> QED
        BY <1>1, <2>1, <3>2 DEF Store!Answer, Original, Count, Proof, Effect, Told
    <2> QED
      BY <2>2, <2>3 DEF Store!Next
  <1>3. ASSUME NEW r \in Requests, Commit(r) PROVE Store!Store(r) \/ Store!Replay(r)
    <2>1. PICK v : v = Env(r)
      OBVIOUS
    <2>2. v \in Envelopes /\ EnvelopeOf[submission[r].body] = v
      BY <2>1, SubmissionsAssumption DEF Env, Envelopes
    <2>3. /\ r \notin applied /\ answer' = answer
          /\ answer[r] \in {"none", "PERSISTENCE_ERROR", "TIMEOUT"}
      BY <1>3 DEF Commit, RowsMatch, AnsweredOnce
    <2>4. Effect[r] = "none" /\ Told[r] \in {"none", "UNKNOWN"} /\ Told' = Told
      BY <2>3 DEF Effect, Told
    <2>5. Effect' = [Effect EXCEPT ![r] = IF row[r] = r THEN "new" ELSE "duplicate"]
      BY <1>3, EffectStep
    <2>6. /\ Original' = [Original EXCEPT ![v] = Original'[v]]
          /\ Count' = [Count EXCEPT ![v] = Count'[v]]
          /\ Proof' = [Proof EXCEPT ![v] = Proof'[v]]
      <3>1. \A e \in Envelopes \ {v} :
              Original'[e] = Original[e] /\ Count'[e] = Count[e] /\ Proof'[e] = Proof[e]
        BY <1>3, <2>1, CommitMoves
      <3> QED
        BY <2>2, <3>1 DEF Original, Count, Proof
    <2>7. CASE row[r] = r
      <3>1. /\ Original[v] = NoBody /\ Original'[v] = submission[r].body
            /\ Count'[v] = 1 /\ Proof'[v] = submission[r].bundle
        BY <1>3, <2>1, <2>7, CommitMoves DEF Bundle
      <3>2. /\ Original' = [Original EXCEPT ![v] = submission[r].body]
            /\ Count' = [Count EXCEPT ![v] = 1]
            /\ Proof' = [Proof EXCEPT ![v] = submission[r].bundle]
            /\ Effect' = [Effect EXCEPT ![r] = "new"]
        BY <2>5, <2>6, <2>7, <3>1
      <3> QED
        BY <1>1, <2>2, <2>4, <3>1, <3>2
        DEF Store!Store, Store!MayTakeEffect, Original, Count, Proof, Effect, Told
    <2>8. CASE row[r] # r
      <3>1. /\ Original[v] # NoBody
            /\ submission[r].bundle # NoBundle => Proof[v] \in {NoBundle, submission[r].bundle}
            /\ Original'[v] = Original[v] /\ Count'[v] = Count[v] + 1
            /\ Proof'[v] = IF submission[r].bundle = NoBundle THEN Proof[v] ELSE submission[r].bundle
        BY <1>3, <2>1, <2>8, CommitMoves DEF Bundle
      <3>2. /\ Original' = Original
            /\ Count' = [Count EXCEPT ![v] = @ + 1]
            /\ Proof' = [Proof EXCEPT ![v] = IF submission[r].bundle = NoBundle THEN @ ELSE submission[r].bundle]
            /\ Effect' = [Effect EXCEPT ![r] = "duplicate"]
        <4>1. Original = [e \in Envelopes |-> Original[e]]
          BY DEF Original
        <4> QED
          BY <2>2, <2>5, <2>6, <2>8, <3>1, <4>1
      <3> QED
        BY <1>1, <2>2, <2>4, <3>1, <3>2
        DEF Store!Replay, Store!MayTakeEffect, Original, Count, Proof, Effect, Told
    <2> QED
      BY <2>7, <2>8
  <1> QED
    BY <1>2, <1>3, DatabaseStep DEF Store!Next

(* Ingestion implements the abstract store: whatever requests race, fail and
   are cut off, clients see envelopes stored once and counted once. *)
THEOREM Refinement == Spec => ImplementsStore
  <1>1. TypeOK /\ Shape /\ LocksHeld /\ RowsMatch /\ Unbound /\ Proved /\ AnsweredOnce /\ AnsweredOnce'
        /\ OneAttestationPerEnvelope /\ OneAttestationPerEnvelope' /\ [Next]_vars
        => [Store!Next]_(Store!vars)
    BY StepRefines
  <1> QED
    BY <1>1, InitRefines, TypeCorrect, LocksCorrect, RowsCorrect, IdentitiesCorrect, RefinementInvariants,
       UniqueAttestations, PTL DEF Spec, ImplementsStore, Store!Spec

-----------------------------------------------------------------------------
(* Waiting *)

Rows(r) == UpsertRows(EnvelopeOf[submission[r].body])
KeyedByRow(r) ==
  IF row[r] = NoRow THEN {}
  ELSE {<<"verified_ci_identities", row[r]>>, <<"evidence_submissions", row[r]>>}
MayHold(r) ==
  {AdvisoryKey(r), <<"attestations", Id(r)>>} \cup KeyedByRow(r)
    \cup {Rows(r)[i] : i \in {j \in 1 .. 7 : j <= upserted[r]}}

(* The locks a transaction holds, by how far it is: none before the advisory
   lock and after its end, then those of its envelope, of the shared rows it
   has upserted and of its attestation row. *)
HoldsOnly(r) ==
  /\ pc[r] \notin Serialized => held[r] = {}
  /\ held[r] \subseteq MayHold(r)
  /\ pc[r] = "upsert" => \A i \in 1 .. 7 : i <= upserted[r] => Rows(r)[i] \in held[r]
HeldByProgress == \A r \in Requests : HoldsOnly(r)

LEMMA HoldsStay ==
  ASSUME Types, NEW r \in Requests, HoldsOnly(r), submission' = submission,
         held'[r] = held[r], row'[r] = row[r], upserted'[r] = upserted[r],
         pc[r] \in Serialized => pc'[r] \in Serialized,
         pc'[r] = "upsert" => pc[r] = "upsert"
  PROVE  HoldsOnly(r)'
  <1>1. MayHold(r)' = MayHold(r) /\ Rows(r)' = Rows(r)
    BY DEF MayHold, Rows, KeyedByRow, AdvisoryKey, Id, EvidenceId
  <1> QED
    BY <1>1 DEF HoldsOnly

(* A statement of a live request adds what it waited for. *)
LEMMA HoldsMore ==
  ASSUME Types, NEW r \in Requests, NEW s \in Serialized \cup {"lock"}, HoldsOnly(r),
         Executes(r, s), submission' = submission, pc'[r] \in Serialized,
         Wants(r) \subseteq MayHold(r)', MayHold(r) \subseteq MayHold(r)',
         pc'[r] = "upsert" => \A i \in 1 .. 7 : i <= upserted'[r] => Rows(r)[i] \in held'[r]
  PROVE  HoldsOnly(r)'
  <1>1. held'[r] = held[r] \cup Wants(r)
    BY DEF Executes, Types
  <1>2. Rows(r)' = Rows(r)
    BY DEF Rows
  <1> QED
    BY <1>1, <1>2 DEF HoldsOnly

LEMMA StepHolds ==
  ASSUME Types, CursorInRange, Shape, NEW r \in Requests, HoldsOnly(r),
         Serve(r) \/ Timeout(r) \/ ConnectionLost(r)
  PROVE  HoldsOnly(r)'
  <1>0. submission' = submission
    BY SubmissionStep
  <1>1. CASE Receive(r) \/ Admit(r) \/ VerifyIdentity(r) \/ Begin(r) \/ Respond(r) \/ Timeout(r) \/ ConnectionLost(r)
    <2>1. UNCHANGED txVars
      BY <1>1 DEF Receive, Admit, VerifyIdentity, Begin, Respond, Timeout, ConnectionLost
    <2>2. /\ pc[r] \in Serialized => pc'[r] \in Serialized
          /\ pc'[r] = "upsert" => pc[r] = "upsert"
      BY <1>1 DEF Receive, Admit, VerifyIdentity, Begin, Respond, Timeout, ConnectionLost, Goto, CutOff,
           Serialized, Statements, Types
    <2> QED
      BY <1>0, <2>1, <2>2, HoldsStay DEF txVars
  <1>2. CASE Commit(r) \/ Rollback(r)
    <2>1. held'[r] = {} /\ pc'[r] \notin Serialized
      BY <1>2 DEF Commit, Rollback, Goto, Serialized, Statements, Types
    <2> QED
      BY <2>1 DEF HoldsOnly, Serialized, Statements
  <1>3. CASE AdvisoryLock(r)
    <2>1. /\ Executes(r, "lock") /\ pc'[r] = "select" /\ UNCHANGED <<row, upserted>> /\ pc[r] = "lock"
      BY <1>3 DEF AdvisoryLock, Executes, Goto, Types
    <2>2. Wants(r) = {AdvisoryKey(r)}
      BY <2>1 DEF Wants
    <2>3. MayHold(r)' = MayHold(r) /\ AdvisoryKey(r) \in MayHold(r)
      BY <1>0, <2>1 DEF MayHold, Rows, KeyedByRow, AdvisoryKey, Id, EvidenceId
    <2> QED
      BY <1>0, <2>1, <2>2, <2>3, HoldsMore DEF Serialized, Statements
  <1>4. CASE SelectAttestation(r)
    <2>1. /\ Executes(r, "select") /\ pc[r] = "select" /\ upserted' = upserted
          /\ pc'[r] \in {"upsert", "updateCount", "selectIdentity"}
          /\ row[r] = NoRow
      BY <1>4 DEF SelectAttestation, Executes, Goto, Types, Shape, TransactionShape, BeforeRow
    <2>2. Wants(r) = {} /\ upserted[r] = 0
      BY <2>1 DEF Wants, CursorInRange
    <2>3. MayHold(r) \subseteq MayHold(r)'
      BY <1>0, <2>1 DEF MayHold, Rows, KeyedByRow, AdvisoryKey, Id, EvidenceId
    <2>4. \A i \in 1 .. 7 : ~(i <= upserted'[r])
      BY <2>1, <2>2
    <2> QED
      BY <1>0, <2>1, <2>2, <2>3, <2>4, HoldsMore DEF Serialized, Statements
  <1>5. CASE Upsert(r)
    <2>1. /\ Executes(r, "upsert") /\ pc[r] = "upsert" /\ row' = row
          /\ upserted'[r] = upserted[r] + 1 /\ upserted[r] \in Nat
          /\ pc'[r] \in {"upsert", "insertAttestation"}
      BY <1>5 DEF Upsert, Executes, Goto, Types
    <2>2. upserted[r] < 7
      <3>1. Len(UpsertRows(EnvelopeOf[submission[r].body])) = 7
        BY UpsertRowsLength
      <3>2. upserted[r] < Len(UpsertRows(EnvelopeOf[submission[r].body]))
        BY <2>1 DEF CursorInRange
      <3> QED
        BY <3>1, <3>2
    <2>3. Wants(r) = {Rows(r)[upserted[r] + 1]}
      BY <2>1 DEF Wants, Rows
    <2>4. {j \in 1 .. 7 : j <= upserted'[r]} = {j \in 1 .. 7 : j <= upserted[r]} \cup {upserted[r] + 1}
      BY <2>1, <2>2
    <2>5. MayHold(r)' = MayHold(r) \cup Wants(r)
      <3>1. /\ AdvisoryKey(r)' = AdvisoryKey(r) /\ Id(r)' = Id(r) /\ KeyedByRow(r)' = KeyedByRow(r)
            /\ Rows(r)' = Rows(r)
        BY <1>0, <2>1 DEF Rows, KeyedByRow, AdvisoryKey, Id, EvidenceId
      <3> QED
        BY <2>3, <2>4, <3>1 DEF MayHold
    <2>6. held'[r] = held[r] \cup Wants(r)
      BY <2>1 DEF Executes, Types
    <2>7. \A i \in 1 .. 7 : i <= upserted'[r] => Rows(r)[i] \in held'[r]
      BY <2>1, <2>3, <2>6 DEF HoldsOnly
    <2> QED
      BY <1>0, <2>1, <2>5, <2>7, HoldsMore DEF Serialized, Statements
  <1>6. CASE InsertAttestation(r)
    <2>1. /\ Executes(r, "insertAttestation") /\ pc[r] = "insertAttestation" /\ upserted' = upserted
          /\ pc'[r] \in {"insertRun", "rollback"}
          /\ row[r] = NoRow
      BY <1>6 DEF InsertAttestation, Executes, Goto, Fail, Types, Shape, TransactionShape, BeforeRow
    <2>2. Wants(r) = {<<"attestations", Id(r)>>}
      BY <2>1 DEF Wants
    <2>3. MayHold(r) \subseteq MayHold(r)' /\ Wants(r) \subseteq MayHold(r)'
      BY <1>0, <2>1, <2>2 DEF MayHold, Rows, KeyedByRow, AdvisoryKey, Id, EvidenceId
    <2> QED
      BY <1>0, <2>1, <2>3, HoldsMore DEF Serialized, Statements
  <1>7. CASE InsertIdentity(r) \/ UpdateCount(r)
    <2>1. /\ Executes(r, pc[r]) /\ pc[r] \in {"insertIdentity", "updateCount"} /\ UNCHANGED <<row, upserted>>
          /\ pc'[r] \in {"insertFindings", "updateCount", "commit", "rollback"}
      BY <1>7 DEF InsertIdentity, UpdateCount, Executes, Goto, Fail, AfterIdentity, Types
    <2>2. row[r] # NoRow
      BY <2>1, SubmissionsAssumption DEF Shape, TransactionShape
    <2>3. Wants(r) \subseteq KeyedByRow(r)
      BY <2>1, <2>2 DEF Wants, KeyedByRow
    <2>4. MayHold(r)' = MayHold(r) /\ KeyedByRow(r) \subseteq MayHold(r)
      BY <1>0, <2>1 DEF MayHold, Rows, KeyedByRow, AdvisoryKey, Id, EvidenceId
    <2>5. pc[r] \in Serialized /\ pc'[r] \in Serialized /\ pc'[r] # "upsert"
      BY <2>1 DEF Serialized, Statements
    <2> QED
      BY <1>0, <2>1, <2>3, <2>4, <2>5, HoldsMore
  <1>8. CASE InsertRun(r) \/ InsertSubmission(r) \/ SelectIdentity(r) \/ InsertFindings(r)
    <2>1. /\ Executes(r, pc[r]) /\ UNCHANGED <<row, upserted>>
          /\ pc[r] \in {"insertRun", "insertSubmission", "selectIdentity", "insertFindings"}
          /\ pc'[r] \in {"insertSubmission", "insertFindings", "selectIdentity", "insertIdentity",
                         "updateCount", "commit", "rollback"}
      BY <1>8 DEF InsertRun, InsertSubmission, InsertFindings, InsertOwn, SelectIdentity, Executes, Goto,
           Fail, AfterIdentity, Types
    <2>2. Wants(r) = {}
      BY <2>1 DEF Wants
    <2>3. held'[r] = held[r]
      BY <2>1, <2>2 DEF Executes, Types
    <2>4. pc'[r] \in Serialized /\ pc'[r] # "upsert"
      BY <2>1 DEF Serialized, Statements
    <2> QED
      BY <1>0, <2>1, <2>3, <2>4, HoldsStay
  <1> QED
    BY <1>1, <1>2, <1>3, <1>4, <1>5, <1>6, <1>7, <1>8 DEF Serve

LEMMA HeldCorrect == Spec => []HeldByProgress
  <1>1. Init => HeldByProgress
    BY DEF Init, HeldByProgress, HoldsOnly, Serialized, Statements
  <1>2. TypeOK /\ Shape /\ HeldByProgress /\ [Next]_vars => HeldByProgress'
    <2> SUFFICES ASSUME TypeOK, Shape, HeldByProgress, [Next]_vars, NEW q \in Requests PROVE HoldsOnly(q)'
      BY DEF HeldByProgress
    <2>0. HoldsOnly(q) /\ Types /\ CursorInRange /\ submission' = submission
      BY SubmissionsFixed DEF HeldByProgress, TypeOK
    <2>1. ASSUME NEW r \in Requests, Serve(r) \/ Timeout(r) \/ ConnectionLost(r) PROVE HoldsOnly(q)'
      <3>1. CASE q = r
        BY <2>0, <2>1, <3>1, StepHolds
      <3>2. CASE q # r
        <4>1. pc'[q] = pc[q]
          BY <2>0, <2>1, <3>2, SerializedStep
        <4>2. held'[q] = held[q]
          BY <2>0, <2>1, <3>2, HeldStep DEF Types
        <4>3. row'[q] = row[q] /\ upserted'[q] = upserted[q]
          BY <2>0, <2>1, <3>2
             DEF Serve, Receive, Admit, VerifyIdentity, Begin, Respond, Timeout, ConnectionLost,
                 Commit, Rollback, AdvisoryLock, SelectAttestation, Upsert, InsertAttestation, InsertOwn,
                 InsertRun, InsertSubmission, SelectIdentity, InsertIdentity, InsertFindings, UpdateCount,
                 txVars, Types
        <4> QED
          BY <2>0, <4>1, <4>2, <4>3, HoldsStay
      <3> QED
        BY <3>1, <3>2
    <2>2. CASE Crash
      BY <2>0, <2>2, HoldsStay DEF Crash, CutOff, Serialized, Statements, txVars, Types
    <2>3. CASE UNCHANGED vars
      BY <2>0, <2>3, HoldsStay DEF vars
    <2> QED
      BY <2>1, <2>2, <2>3 DEF Next, Finished
  <1> QED
    BY <1>1, <1>2, TypeCorrect, PTL DEF Spec

(* A non-empty set of naturals has a least element. *)
LEMMA LeastExists ==
  ASSUME NEW S \in SUBSET Nat, S # {}
  PROVE  \E m \in S : \A x \in S : m <= x
  <1>1. PICK m \in S : \A y \in S : ~(<<y, m>> \in OpToRel(<, Nat))
    BY NatLessThanWellFounded, WFMin
  <1>2. \A y \in S : ~(y < m)
    BY <1>1 DEF OpToRel
  <1> QED
    BY <1>2

(* The position of an upserted row tells its table. *)
TableAt == <<"signers", "packages", "package_versions", "package_versions", "version_transitions",
             "environments", "methodology_versions">>

LEMMA RowsAt ==
  ASSUME NEW r \in Requests, NEW i \in 1 .. 7
  PROVE  /\ Rows(r)[i][1] = TableAt[i]
         /\ i \in {3, 4} => Rows(r)[i][2] = Rows(r)[2][2]
         /\ Rows(r)[2] = <<"packages", Rows(r)[2][2]>>
  <1>1. i \in {1, 2, 3, 4, 5, 6, 7}
    OBVIOUS
  <1> DEFINE f == Facts[EnvelopeOf[submission[r].body]]
  <1>2. Rows(r) = << <<"signers", f.signer>>, <<"packages", f.package>>,
          <<"package_versions", f.package, f.from>>, <<"package_versions", f.package, f.to>>,
          <<"version_transitions", f.package, f.from, f.to>>, <<"environments", f.environment>>,
          <<"methodology_versions", f.methodology>> >>
    BY DEF Rows, UpsertRows
  <1> HIDE DEF f
  <1> QED
    BY <1>1, <1>2 DEF TableAt

(* What a transaction holds is a row it has upserted, or it is of another
   table. *)
LEMMA HeldTables ==
  ASSUME NEW q \in Requests, HoldsOnly(q), NEW x \in held[q]
  PROVE  \/ x = AdvisoryKey(q) /\ x[1] = "advisory"
         \/ x = <<"attestations", Id(q)>>
         \/ row[q] # NoRow /\ x \in {<<"verified_ci_identities", row[q]>>, <<"evidence_submissions", row[q]>>}
         \/ \E i \in 1 .. 7 : i <= upserted[q] /\ x = Rows(q)[i] /\ x[1] = TableAt[i]
  <1>1. x \in MayHold(q)
    BY DEF HoldsOnly
  <1>2. ASSUME NEW i \in 1 .. 7, i <= upserted[q], x = Rows(q)[i]
        PROVE  i <= upserted[q] /\ x = Rows(q)[i] /\ x[1] = TableAt[i]
    BY <1>2, RowsAt
  <1>3. AdvisoryKey(q)[1] = "advisory"
    BY DEF AdvisoryKey
  <1>4. x \in KeyedByRow(q) => row[q] # NoRow /\ x \in {<<"verified_ci_identities", row[q]>>, <<"evidence_submissions", row[q]>>}
    BY DEF KeyedByRow
  <1> QED
    BY <1>1, <1>2, <1>3, <1>4 DEF MayHold

(* A statement on a row of one attestation waits for nobody: whoever holds the
   row has the same envelope, and with it the advisory lock. *)
LEMMA OwnRowsAreFree ==
  ASSUME Types, Shape, LocksHeld, RowsMatch, HeldByProgress, NEW r \in Requests,
         pc[r] \in {"insertAttestation", "insertIdentity", "updateCount"},
         NEW q \in Requests \ {r}
  PROVE  Wants(r) \cap held[q] = {}
  <1>1. SUFFICES ASSUME NEW x \in Wants(r), x \in held[q] PROVE FALSE
    OBVIOUS
  <1>2. HoldsOnly(q) /\ pc[q] \in Serialized /\ pc[r] \in Serialized
    BY <1>1 DEF HeldByProgress, HoldsOnly, Serialized, Statements
  <1>3. x \in {<<"attestations", Id(r)>>, <<"verified_ci_identities", row[r]>>, <<"evidence_submissions", row[r]>>}
    BY <1>1 DEF Wants
  <1>4. x[1] \in {"attestations", "verified_ci_identities", "evidence_submissions"}
    BY <1>3
  <1>5. \A i \in 1 .. 7 : x[1] # TableAt[i]
    BY <1>4 DEF TableAt
  <1>6. x[1] # "advisory"
    BY <1>4
  <1>7. \/ x = <<"attestations", Id(q)>>
        \/ row[q] # NoRow /\ x \in {<<"verified_ci_identities", row[q]>>, <<"evidence_submissions", row[q]>>}
    BY <1>1, <1>2, <1>5, <1>6, HeldTables
  <1>8. x[1] # "attestations" => row[r] = row[q] /\ row[q] # NoRow
    BY <1>3, <1>7
  <1>9. x[1] = "attestations" => Id(r) = Id(q)
    BY <1>3, <1>7
  <1>10. SameEnvelope(q, r)
    <2>1. CASE x[1] = "attestations"
      BY <1>9, <2>1 DEF SameEnvelope, Id, EvidenceId
    <2>2. CASE x[1] # "attestations"
      <3>1. \A p \in {q, r} : row[p] = row[r] /\ row[p] # NoRow
        BY <1>8, <2>2
      <3>2. \A p \in {q, r} : EnvelopeOf[submission[p].body] = EnvelopeOf[submission[row[r]].body]
        BY <3>1 DEF RowsMatch, SameEnvelope
      <3> QED
        BY <3>2 DEF SameEnvelope
    <2> QED
      BY <2>1, <2>2
  <1>11. AdvisoryKey(q) = AdvisoryKey(r) /\ AdvisoryKey(q) \in held[q] /\ AdvisoryKey(r) \in held[r]
    BY <1>2, <1>10 DEF AdvisoryKey, SameEnvelope, LocksHeld
  <1> QED
    BY <1>11 DEF LocksHeld

(* An upsert waits only for a transaction that has upserted more rows: the rows
   two transactions may meet at in different positions are versions of one
   package, whose row the first of them holds. *)
LEMMA AheadIsFree ==
  ASSUME Types, CursorInRange, LocksHeld, HeldByProgress, NEW r \in Requests, pc[r] = "upsert",
         NEW q \in Requests \ {r}, pc[q] = "upsert", upserted[q] <= upserted[r]
  PROVE  Wants(r) \cap held[q] = {}
  <1>1. SUFFICES ASSUME NEW x \in Wants(r), x \in held[q] PROVE FALSE
    OBVIOUS
  <1>2. HoldsOnly(q) /\ HoldsOnly(r) /\ upserted[q] \in Nat /\ upserted[r] \in Nat
    BY DEF HeldByProgress, Types
  <1>3. upserted[r] < 7
    <2>1. Len(UpsertRows(EnvelopeOf[submission[r].body])) = 7
      BY UpsertRowsLength
    <2>2. upserted[r] < Len(UpsertRows(EnvelopeOf[submission[r].body]))
      BY DEF CursorInRange
    <2> QED
      BY <2>1, <2>2
  <1> DEFINE n == upserted[r] + 1
  <1>4. x = Rows(r)[n] /\ n \in 1 .. 7
    BY <1>1, <1>2, <1>3 DEF Wants, Rows
  <1>5. x[1] = TableAt[n]
    BY <1>4, RowsAt
  <1>6. x[1] \notin {"advisory", "attestations", "verified_ci_identities", "evidence_submissions"}
    BY <1>4, <1>5 DEF TableAt
  <1>7. PICK i \in 1 .. 7 : i <= upserted[q] /\ x = Rows(q)[i] /\ x[1] = TableAt[i]
    <2>1. x[1] # "attestations" => x # <<"attestations", Id(q)>>
      OBVIOUS
    <2>2. x[1] \notin {"verified_ci_identities", "evidence_submissions"}
            => x \notin {<<"verified_ci_identities", row[q]>>, <<"evidence_submissions", row[q]>>}
      OBVIOUS
    <2> QED
      BY <1>1, <1>2, <1>6, <2>1, <2>2, HeldTables
  <1>8. i < n
    BY <1>2, <1>7
  <1>9. TableAt[i] = TableAt[n]
    BY <1>5, <1>7
  <1> HIDE DEF n
  <1>10. i = 3 /\ n = 4
    BY <1>4, <1>7, <1>8, <1>9 DEF TableAt
  <1>11. Rows(q)[2][2] = Rows(r)[2][2]
    <2>1. Rows(q)[3][2] = Rows(q)[2][2] /\ Rows(r)[4][2] = Rows(r)[2][2]
      <3>1. 3 \in 1 .. 7 /\ 4 \in 1 .. 7
        OBVIOUS
      <3> QED
        BY <3>1, RowsAt
    <2> QED
      BY <1>4, <1>7, <1>10, <2>1
  <1>12. Rows(q)[2] = Rows(r)[2]
    <2>1. 2 \in 1 .. 7
      OBVIOUS
    <2> QED
      BY <1>11, <2>1, RowsAt
  <1>13. Rows(q)[2] \in held[q] /\ Rows(r)[2] \in held[r]
    <2>1. 2 <= upserted[q] /\ 2 <= upserted[r] /\ 2 \in 1 .. 7
      BY <1>2, <1>7, <1>10
    <2> QED
      BY <1>2, <2>1 DEF HoldsOnly
  <1> QED
    BY <1>12, <1>13 DEF LocksHeld

(* Of any transactions that wait, one waits for none of the others, so there is
   no cycle to break: for every number of requests, envelopes and shared rows,
   and any colliding advisory keys. *)
THEOREM NoDeadlock == Spec => []NoLockCycle
  <1>1. ASSUME TypeOK, Shape, LocksHeld, RowsMatch, HeldByProgress PROVE NoLockCycle
    <2> SUFFICES ASSUME NEW S \in SUBSET Requests, S # {}
                 PROVE  \E r \in S : \A q \in S \ {r} : Wants(r) \cap held[q] = {}
      BY DEF NoLockCycle
    <2> USE <1>1 DEF TypeOK
    <2>1. CASE \E r \in S : pc[r] \notin {"lock", "upsert"}
      <3>1. PICK r \in S : pc[r] \notin {"lock", "upsert"}
        BY <2>1
      <3>2. CASE pc[r] \in {"insertAttestation", "insertIdentity", "updateCount"}
        BY <3>2, OwnRowsAreFree
      <3>3. CASE pc[r] \notin {"insertAttestation", "insertIdentity", "updateCount"}
        <4>1. Wants(r) = {}
          BY <3>1, <3>3 DEF Wants
        <4> QED
          BY <4>1
      <3> QED
        BY <3>2, <3>3
    <2>2. CASE \A r \in S : pc[r] \in {"lock", "upsert"}
      <3>1. \A q \in S : pc[q] = "lock" => held[q] = {}
        BY DEF HeldByProgress, HoldsOnly, Serialized, Statements
      <3> DEFINE U == {r \in S : pc[r] = "upsert"}
      <3>2. CASE U = {}
        BY <2>2, <3>1, <3>2
      <3>3. CASE U # {}
        <4>1. PICK r \in U : \A q \in U : upserted[q] <= upserted[r]
          <5> DEFINE left == {7 - upserted[q] : q \in U}
          <5>1. \A q \in U : upserted[q] \in Nat /\ upserted[q] < 7
            <6> SUFFICES ASSUME NEW q \in U PROVE upserted[q] \in Nat /\ upserted[q] < 7
              OBVIOUS
            <6>1. upserted[q] < Len(UpsertRows(EnvelopeOf[submission[q].body]))
              BY DEF CursorInRange
            <6>2. Len(UpsertRows(EnvelopeOf[submission[q].body])) = 7
              BY UpsertRowsLength
            <6> QED
              BY <6>1, <6>2 DEF Types
          <5> HIDE DEF U
          <5>2. left \in SUBSET Nat /\ left # {}
            BY <3>3, <5>1
          <5>3. PICK m \in left : \A k \in left : m <= k
            BY <5>2, LeastExists
          <5>4. PICK r \in U : m = 7 - upserted[r]
            OBVIOUS
          <5>5. ASSUME NEW q \in U PROVE upserted[q] <= upserted[r]
            <6>1. 7 - upserted[r] <= 7 - upserted[q]
              BY <5>3, <5>4
            <6> QED
              BY <5>1, <6>1
          <5> QED
            BY <5>5
        <4>2. ASSUME NEW q \in S \ {r} PROVE Wants(r) \cap held[q] = {}
          <5>1. CASE pc[q] = "lock"
            BY <3>1, <5>1
          <5>2. CASE pc[q] = "upsert"
            BY <4>1, <5>2, AheadIsFree
          <5> QED
            BY <2>2, <5>1, <5>2
        <4> QED
          BY <4>2
      <3> QED
        BY <3>2, <3>3
    <2> QED
      BY <2>1, <2>2
  <1> QED
    BY <1>1, TypeCorrect, LocksCorrect, RowsCorrect, HeldCorrect, PTL
=============================================================================
