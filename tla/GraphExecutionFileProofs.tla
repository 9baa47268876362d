---------------------- MODULE GraphExecutionFileProofs ----------------------
(* The files of accepted executions: UndisturbedWorkSurvives, for every    *)
(* set of nodes, attempt budget, number of expiries, stops and resumes.    *)
EXTENDS GraphExecutionProofs

(* No task was lost, no process died and no scan overflows.                *)
Undisturbed == dropped = 0 /\ crashes = 0 /\ ~ScanOverflows

(* Outside of the drive and the stop nothing is leased and nobody works on *)
(* the worktree.                                                           *)
Quietly ==
  proc \in {"idle", "redeliver", "reconcile"} =>
    \A e \in Exec : /\ lease[e] # "active" /\ task[e] \in {"none", "queued"}
                    /\ proc = "idle" => task[e] = "none"

(* A task's phase is that of its attempt.                                  *)
PhaseIsAttempt ==
  \A e \in Exec : /\ task[e] \in {"captured", "running"} => attempt[e] = "captured"
                  /\ task[e] = "staged" => attempt[e] = "staged"
                  /\ task[e] = "witnessed" => attempt[e] = "witnessed"

(* Only leased executions have rows and tasks; the row of an open attempt  *)
(* is delivered again in a stop only, and stays settled once the attempt   *)
(* has lost its lease.                                                     *)
RowOfLease ==
  \A e \in Exec :
    /\ row[e] # "none" \/ task[e] # "none" => lease[e] # "none"
    /\ task[e] # "none" /\ row[e] = "pending" => proc = "stopping"
    /\ Open(e) => /\ row[e] = "pending" => proc = "stopping" /\ lease[e] = "active"
                  /\ row[e] = "sent" => lease[e] = "active"

(* An open attempt without a task was captured and not begun, and is left  *)
(* to the reconciliation; until then nobody can take the worktree.         *)
Orphans ==
  \A e \in Exec : Open(e) =>
    /\ task[e] # "queued"
    /\ task[e] = "none" =>
         /\ attempt[e] = "captured" /\ proc # "drive"
         /\ proc = "reconcile" => e \in todo
         /\ \A f \in Exec : task[f] # "none" => task[f] = "queued" /\ lease[f] # "active"

(* There is one open attempt at a time.                                    *)
OpenAlone == \A e, f \in Exec : Open(e) /\ Open(f) => e = f

(* What has no baseline has left no trace.                                 *)
Fresh ==
  \A f \in Exec : attempt[f] = "none" =>
    f \notin tree /\ \A e \in Exec : f \notin base[e] \cup staged[e] \cup paths[e]

(* A staged file is in the worktree.                                       *)
StagedIsThere ==
  \A e \in Exec : attempt[e] \in {"staged", "witnessed"} => staged[e] \subseteq tree

(* The accepted files, and what the baselines and the requests of others   *)
(* say of them.                                                            *)
Kept == { f \in Exec : attempt[f] = "finalized" /\ f \in staged[f] }
KeptIsThere  == Kept \subseteq tree
OpenKeeps    == \A e \in Exec : Open(e) => Kept \subseteq base[e]
RequestKeeps ==
  \A e \in Exec : attempt[e] = "recovering" =>
    /\ \A f \in Kept : f \in paths[e] => f \in base[e]
    /\ \A f \in Exec : Open(f) => f \notin paths[e]

Control == Quietly /\ PhaseIsAttempt /\ RowOfLease /\ Orphans /\ OpenAlone
Contents == Fresh /\ StagedIsThere /\ KeptIsThere /\ OpenKeeps /\ RequestKeeps
FInv == Undisturbed => Control /\ Contents

-----------------------------------------------------------------------------
(* What a step of an undisturbed run is.                                   *)

(* The request of an undisturbed run names the paths it can derive.        *)
Requests(e) ==
  /\ Open(e) /\ attempt' = [attempt EXCEPT ![e] = "recovering"]
  /\ paths' = [paths EXCEPT ![e] = RecoveryPaths(e)]

Fails(e) ==
  /\ task[e] \in Working /\ Requests(e)
  /\ task' = [task EXCEPT ![e] = "none"]
  /\ UNCHANGED <<lease, row, tree, base, staged, proc, todo>>

Accepts(e) ==
  /\ task[e] = "witnessed"
  /\ attempt' = [attempt EXCEPT ![e] = "finalized"]
  /\ lease' = [lease EXCEPT ![e] = "released"]
  /\ task' = [task EXCEPT ![e] = "none"]
  /\ UNCHANGED <<row, tree, base, staged, paths, proc, todo>>

Begins(e) ==
  /\ task[e] = "queued" /\ LockFree /\ attempt[e] = "none" /\ lease[e] = "active"
  /\ task' = [task EXCEPT ![e] = "captured"]
  /\ attempt' = [attempt EXCEPT ![e] = "captured"]
  /\ base' = [base EXCEPT ![e] = tree]
  /\ UNCHANGED <<lease, row, tree, staged, paths, proc, todo>>

Starts(e) ==
  /\ task[e] = "captured" /\ task' = [task EXCEPT ![e] = "running"]
  /\ UNCHANGED <<attempt, lease, row, tree, base, staged, paths, proc, todo>>

Witnesses(e) ==
  /\ task[e] = "staged" /\ attempt[e] = "staged"
  /\ attempt' = [attempt EXCEPT ![e] = "witnessed"]
  /\ task' = [task EXCEPT ![e] = "witnessed"]
  /\ UNCHANGED <<lease, row, tree, base, staged, paths, proc, todo>>

Dies(e) ==
  /\ lease[e] = "active" /\ lease' = [lease EXCEPT ![e] = "revoked"]
  /\ UNCHANGED <<attempt, task, row, tree, base, staged, paths, proc, todo>>

TaskEffect(e) ==
  \/ Fails(e) \/ Accepts(e) \/ Begins(e) \/ Starts(e) \/ Witnesses(e)
  \/ BaselineRejected(e) \/ Write(e) \/ Stage(e)

LEMMA RequestEffect ==
  ASSUME ~ScanOverflows, NEW e \in Exec, NEW d, RequestRecovery(e, d)
  PROVE  Requests(e) \/ (~Open(e) /\ UNCHANGED <<attempt, paths>>)
<1>1. RecoveryScopes(e) = {RecoveryPaths(e)}
  BY DEF RecoveryScopes
<1>2. QED BY <1>1 DEF RequestRecovery, Requests

LEMMA UndisturbedTask ==
  ASSUME TypeOK, Control, Undisturbed, Undisturbed', NEW e \in Exec, TaskStep(e)
  PROVE  TaskEffect(e)
<1> USE DEF kernel, files, local, bounds
<1>1. /\ dropped \in Nat /\ dropped' = dropped /\ ~ScanOverflows
      /\ task \in [Exec -> TaskPhases] /\ attempt \in [Exec -> AttemptStates]
  BY DEF TypeOK, Undisturbed
<1>2. task[e] \in Working => Open(e)
  BY DEF Control, PhaseIsAttempt, Open, OpenStates, Working
<1>3. Open(e) => task[e] # "queued"
  BY DEF Control, Orphans
<1>4. CASE RecordBaseline(e)
  BY <1>4, <1>3 DEF RecordBaseline, Open, OpenStates, TaskEffect, Begins
<1>5. CASE BaselineRejected(e)
  BY <1>5 DEF TaskEffect
<1>6. CASE CaptureFails(e)
  BY <1>1, <1>6 DEF CaptureFails
<1>7. CASE GateFails(e) \/ TaskLost(e)
  BY <1>1, <1>7 DEF GateFails, TaskLost
<1>8. CASE StartRunner(e)
  <2>1. CASE lease[e] = "active"
    BY <1>8, <2>1 DEF StartRunner, TaskEffect, Starts
  <2>2. CASE lease[e] # "active"
    BY <1>8, <2>2, <1>1, <1>2, RequestEffect DEF StartRunner, TaskEffect, Fails, EndTask, Working
  <2>3. QED BY <2>1, <2>2
<1>9. CASE Write(e) \/ Stage(e)
  BY <1>9 DEF TaskEffect
<1>10. CASE RunnerFails(e)
  BY <1>10, <1>1, <1>2, RequestEffect DEF RunnerFails, TaskEffect, Fails, EndTask, Working
<1>11. CASE Witness(e)
  <2>1. CASE staged[e] = tree
    BY <1>11, <2>1 DEF Witness, TaskEffect, Witnesses
  <2>2. CASE staged[e] # tree
    BY <1>11, <2>2, <1>1, <1>2, RequestEffect DEF Witness, TaskEffect, Fails, EndTask, Working
  <2>3. QED BY <2>1, <2>2
<1>12. CASE Finalize(e)
  <2>1. CASE attempt[e] = "witnessed" /\ CallbackAccepted(e)
    BY <1>12, <2>1 DEF Finalize, AcceptOutcome, EndTask, TaskEffect, Accepts
  <2>2. CASE ~(attempt[e] = "witnessed" /\ CallbackAccepted(e))
    BY <1>12, <2>2, <1>1, <1>2, RequestEffect DEF Finalize, TaskEffect, Fails, EndTask, Working
  <2>3. QED BY <2>1, <2>2
<1>13. QED
  BY <1>4, <1>5, <1>6, <1>7, <1>8, <1>9, <1>10, <1>11, <1>12 DEF TaskStep

(* A reconciled attempt is requested to recover, or was settled meanwhile. *)
Reconciles(e) ==
  /\ proc = "reconcile" /\ todo' = todo \ {e}
  /\ \/ Requests(e)
     \/ ~Open(e) /\ UNCHANGED <<attempt, paths>>
  /\ UNCHANGED <<lease, row, tree, base, staged, proc, task>>

StopRequests(e) ==
  /\ proc = "stopping" /\ NoTasks /\ Requests(e)
  /\ UNCHANGED <<lease, row, tree, base, staged, proc, task, todo>>

DriverEffect(e) ==
  \/ Dispatch(e) \/ AckDispatch(e) \/ DeliverRecovery(e)
  \/ Reconciles(e) \/ StopRequests(e)
  \/ Dies(e) /\ (row[e] = "done" \/ attempt[e] = "none")

LEMMA UndisturbedDriver ==
  ASSUME TypeOK, Control, Undisturbed, NEW e \in Exec, DriverStep(e)
  PROVE  DriverEffect(e)
<1> USE DEF kernel, files, local, bounds
<1>1. ~ScanOverflows /\ (proc = "reconcile" => lease[e] # "active")
  BY DEF Undisturbed, Control, Quietly
<1>2. CASE Dispatch(e) \/ AckDispatch(e) \/ DeliverRecovery(e)
  BY <1>2 DEF DriverEffect
<1>3. CASE ReconcileAttempt(e)
  <2>1. attempt[e] # "witnessed"
    <3>1. proc = "reconcile" /\ task[e] \in {"none", "queued"}
      BY <1>3 DEF ReconcileAttempt, Control, Quietly
    <3>2. QED BY <3>1 DEF Control, Orphans, Open, OpenStates
  <2>2. QED
    BY <1>1, <1>3, <2>1, RequestEffect DEF ReconcileAttempt, DriverEffect, Reconciles
<1>4. CASE ReconcileLease(e)
  BY <1>1, <1>4 DEF ReconcileLease
<1>5. CASE OrphanedLease(e)
  BY <1>5 DEF OrphanedLease, Orphan, AgentDied, DriverEffect, Dies
<1>6. CASE QuiesceLease(e)
  BY <1>1, <1>6, RequestEffect DEF QuiesceLease, AgentDied, DriverEffect, Dies, StopRequests
<1>7. QED
  BY <1>2, <1>3, <1>4, <1>5, <1>6 DEF DriverStep

-----------------------------------------------------------------------------
(* Control.                                                                *)

LEMMA TaskControl ==
  ASSUME TypeOK, TaskOwnsLock, Control, NEW e \in Exec, TaskEffect(e)
  PROVE  Control'
<1> USE DEF kernel, files, local, bounds
<1> USE ExecFacts DEF Control, Quietly, PhaseIsAttempt, RowOfLease, Orphans, OpenAlone,
                      Open, OpenStates, Working, NoTasks
<1>1. /\ task \in [Exec -> TaskPhases] /\ attempt \in [Exec -> AttemptStates]
      /\ lease \in [Exec -> LeaseStates] /\ row \in [Exec -> {"none", "pending", "sent", "done"}]
  BY DEF TypeOK
<1>2. CASE Fails(e)
  BY <1>1, <1>2 DEF Fails, Requests
<1>3. CASE Accepts(e)
  BY <1>1, <1>3 DEF Accepts
<1>4. CASE Begins(e)
  <2>1. \A f \in Exec : ~Open(f)
    BY <1>4 DEF Begins, TaskOwnsLock, LockFree, TaskPhases, TypeOK
  <2>2. QED BY <1>1, <1>4, <2>1 DEF Begins
<1>5. CASE Starts(e)
  BY <1>1, <1>5 DEF Starts
<1>6. CASE Witnesses(e)
  BY <1>1, <1>6 DEF Witnesses
<1>7. CASE BaselineRejected(e)
  BY <1>1, <1>7 DEF BaselineRejected
<1>8. CASE Write(e)
  BY <1>8 DEF Write
<1>9. CASE Stage(e)
  BY <1>1, <1>9 DEF Stage
<1>10. QED
  BY <1>2, <1>3, <1>4, <1>5, <1>6, <1>7, <1>8, <1>9 DEF TaskEffect

LEMMA DriverControl ==
  ASSUME TypeOK, TaskOwnsLock, Control, NEW e \in Exec, DriverEffect(e)
  PROVE  Control'
<1> USE DEF kernel, files, local, bounds
<1> USE ExecFacts DEF Control, Quietly, PhaseIsAttempt, RowOfLease, Orphans, OpenAlone,
                      Open, OpenStates, Working, NoTasks
<1>1. /\ task \in [Exec -> TaskPhases] /\ attempt \in [Exec -> AttemptStates]
      /\ lease \in [Exec -> LeaseStates] /\ row \in [Exec -> {"none", "pending", "sent", "done"}]
  BY DEF TypeOK
<1>2. CASE Dispatch(e)
  BY <1>1, <1>2 DEF Dispatch
<1>3. CASE AckDispatch(e)
  BY <1>1, <1>3 DEF AckDispatch
<1>4. CASE DeliverRecovery(e)
  BY <1>1, <1>4 DEF DeliverRecovery, CompleteRecovery
<1>5. CASE Reconciles(e)
  BY <1>1, <1>5 DEF Reconciles, Requests
<1>6. CASE StopRequests(e)
  BY <1>1, <1>6 DEF StopRequests, Requests
<1>7. CASE Dies(e) /\ (row[e] = "done" \/ attempt[e] = "none")
  BY <1>1, <1>7 DEF Dies
<1>8. QED
  BY <1>2, <1>3, <1>4, <1>5, <1>6, <1>7 DEF DriverEffect

LEMMA LifecycleControl ==
  ASSUME TypeOK, TaskOwnsLock, RestIsIdle, Control, Undisturbed, Undisturbed', Lifecycle
  PROVE  Control'
<1> USE DEF kernel, files, local, bounds
<1> USE ExecFacts DEF Control, Quietly, PhaseIsAttempt, RowOfLease, Orphans, OpenAlone,
                      Open, OpenStates, Working, NoTasks
<1>1. /\ task \in [Exec -> TaskPhases] /\ attempt \in [Exec -> AttemptStates]
      /\ lease \in [Exec -> LeaseStates] /\ row \in [Exec -> {"none", "pending", "sent", "done"}]
      /\ crashes' = crashes /\ crashes \in Nat /\ ~ScanOverflows
  BY DEF TypeOK, Undisturbed
<1>2. CASE BeginReconcile
  BY <1>1, <1>2 DEF BeginReconcile
<1>3. CASE ReconcileLocks
  BY <1>1, <1>3 DEF ReconcileLocks
<1>4. CASE EndReconcile
  BY <1>1, <1>4 DEF EndReconcile
<1>5. CASE Quiesce
  BY <1>1, <1>5 DEF Quiesce, Drained, ActiveLeases
<1>6. CASE RequestStop
  BY <1>1, <1>6 DEF RequestStop, Unacked
<1>7. CASE CancelTasks
  <2>1. task' = [e \in Exec |-> "none"] /\ UNCHANGED <<lease, row, proc, todo>>
        /\ proc = "stopping"
    BY <1>7 DEF CancelTasks
  <2>2. CASE holder \in Exec /\ task[holder] \in {"running", "staged", "witnessed"}
             /\ RequestRecovery(holder, StopDisposition)
    <3>1. Requests(holder)
      BY <1>1, <2>2, RequestEffect
    <3>2. \A e \in Exec : Open(e) => e = holder
      BY <2>2, <3>1 DEF Requests
    <3>3. \A e \in Exec : ~Open(e)'
      BY <1>1, <2>2, <3>1, <3>2 DEF Requests
    <3>4. QED BY <1>1, <2>1, <3>3
  <2>3. CASE /\ \A e \in Exec : task[e] \notin {"running", "staged", "witnessed"}
             /\ UNCHANGED attempt
    BY <1>1, <2>1, <2>3 DEF TaskPhases
  <2>4. QED BY <1>7, <2>2, <2>3 DEF CancelTasks
<1>8. CASE Stopped
  BY <1>1, <1>8 DEF Stopped, Drained, ActiveLeases
<1>9. CASE Resume \/ Restart
  BY <1>1, <1>9 DEF Resume, Restart
<1>10. CASE Crash
  BY <1>1, <1>10 DEF Crash
<1>11. QED
  BY <1>2, <1>3, <1>4, <1>5, <1>6, <1>7, <1>8, <1>9, <1>10 DEF Lifecycle

LEMMA TickControl ==
  ASSUME TypeOK, Kernel, Control, NEW expire \in SUBSET ActiveLeases, Tick(expire)
  PROVE  Control'
<1> DEFINE new == { f \in Exec : NodeOf(f) \in Granted /\ f[2] = issued[NodeOf(f)] + 1 }
<1>1. /\ \A e \in Exec : lease'[e] = IF e \in expire THEN "expired"
           ELSE IF e \in new THEN "active" ELSE lease[e]
      /\ proc = "drive" /\ UNCHANGED <<attempt, proc, task, todo>>
  BY TickEffect DEF local
<1>2. /\ \A e \in expire : lease[e] = "active" /\ e \in Exec /\ row[e] # "sent"
      /\ row' = [e \in Exec |-> IF e \in new THEN "pending" ELSE row[e]]
  <2>1. \A e \in Exec : e \in { <<n, issued[n] + 1>> : n \in Granted } <=> e \in new
    BY DEF Exec, NodeOf
  <2>2. row' = [e \in Exec |-> IF e \in { <<n, issued[n] + 1>> : n \in Granted }
                              THEN "pending" ELSE row[e]]
    BY DEF Tick, Granted
  <2>3. AllAcked BY DEF Tick
  <2>4. QED BY <2>1, <2>2, <2>3 DEF ActiveLeases, AllAcked
<1>3. \A e \in new : lease[e] = "none" /\ attempt[e] = "none" /\ e \notin expire
  <2>1. \A n \in Nodes : issued[n] \in Nat
    BY DEF TypeOK
  <2>2. \A e \in new : lease[e] = "none"
    BY <2>1, ExecFacts DEF Kernel, IssuedInOrder
  <2>3. QED BY <1>2, <2>2 DEF Kernel, IssuedInOrder
<1>4. \A e \in Exec : Open(e)' <=> Open(e)
  BY <1>1 DEF Open
<1> HIDE DEF new
<1> USE DEF Control
<1>5. Quietly' BY <1>1 DEF Quietly
<1>6. PhaseIsAttempt' BY <1>1 DEF PhaseIsAttempt
<1>7. \A e \in Exec : Open(e) => task[e] # "none" /\ task[e] # "queued"
  BY <1>1 DEF Orphans
<1>8. \A e \in new : ~Open(e) /\ task[e] = "none"
  BY <1>3 DEF RowOfLease, Open, OpenStates, new
<1>9. RowOfLease'
  BY <1>1, <1>2, <1>3, <1>4, <1>8 DEF RowOfLease
<1>10. Orphans'
  BY <1>1, <1>4, <1>7 DEF Orphans
<1>11. OpenAlone' BY <1>4 DEF OpenAlone
<1>12. QED BY <1>5, <1>6, <1>9, <1>10, <1>11

LEMMA ControlStep ==
  ASSUME IInv, Control, Undisturbed, Undisturbed', Next
  PROVE  Control'
<1>1. TypeOK /\ Kernel /\ TaskOwnsLock /\ RestIsIdle
  BY DEF IInv
<1>2. ASSUME NEW expire \in SUBSET ActiveLeases, Tick(expire) PROVE Control'
  BY <1>1, <1>2, TickControl
<1>3. ASSUME NEW e \in Exec, TaskStep(e) PROVE Control'
  BY <1>1, <1>3, UndisturbedTask, TaskControl
<1>4. ASSUME NEW e \in Exec, DriverStep(e) PROVE Control'
  BY <1>1, <1>4, UndisturbedDriver, DriverControl
<1>5. CASE Lifecycle
  BY <1>1, <1>5, LifecycleControl
<1>6. QED BY <1>2, <1>3, <1>4, <1>5 DEF Next

-----------------------------------------------------------------------------
(* Contents.                                                               *)

FileEffect(e) ==
  \/ Requests(e) /\ UNCHANGED <<tree, base, staged>>
  \/ Accepts(e) /\ attempt[e] = "witnessed"
  \/ Begins(e) /\ \A f \in Exec : ~Open(f)
  \/ Stage(e) \/ Witnesses(e)
  \/ Write(e) /\ Open(e)
  \/ DeliverRecovery(e) /\ \A f \in Exec : attempt[f] \notin {"staged", "witnessed"}

LEMMA UndisturbedFiles ==
  ASSUME IInv, Control, Undisturbed, Undisturbed', Next
  PROVE  UNCHANGED <<attempt, tree, base, staged, paths>> \/ \E e \in Exec : FileEffect(e)
<1> DEFINE Goal == UNCHANGED <<attempt, tree, base, staged, paths>>
                   \/ \E e \in Exec : FileEffect(e)
<1> USE DEF files, local, kernel
<1>1. TypeOK /\ TaskOwnsLock
  BY DEF IInv
<1>2. ASSUME NEW expire \in SUBSET ActiveLeases, Tick(expire) PROVE Goal
  BY <1>2 DEF Tick
<1>3. ASSUME NEW e \in Exec, TaskStep(e) PROVE Goal
  <2>1. TaskEffect(e)
    BY <1>1, <1>3, UndisturbedTask
  <2>2. CASE Fails(e)
    BY <2>2 DEF Fails, FileEffect
  <2>3. CASE Accepts(e)
    BY <2>3 DEF Accepts, FileEffect, Control, PhaseIsAttempt
  <2>4. CASE Begins(e)
    <3>1. \A f \in Exec : ~Open(f)
      BY <1>1, <2>4, ExecFacts
         DEF Begins, TaskOwnsLock, LockFree, TaskPhases, TypeOK, Control, Orphans
    <3>2. QED BY <2>4, <3>1 DEF FileEffect
  <2>5. CASE Starts(e) \/ BaselineRejected(e)
    BY <2>5 DEF Starts, BaselineRejected
  <2>6. CASE Witnesses(e) \/ Stage(e)
    BY <2>6 DEF FileEffect
  <2>7. CASE Write(e)
    BY <2>7 DEF Write, FileEffect, Control, PhaseIsAttempt, Open, OpenStates
  <2>8. QED BY <2>1, <2>2, <2>3, <2>4, <2>5, <2>6, <2>7 DEF TaskEffect
<1>4. ASSUME NEW e \in Exec, DriverStep(e) PROVE Goal
  <2>1. DriverEffect(e)
    BY <1>1, <1>4, UndisturbedDriver
  <2>2. CASE Dispatch(e) \/ AckDispatch(e)
    BY <2>2 DEF Dispatch, AckDispatch
  <2>3. CASE Reconciles(e) \/ StopRequests(e)
    BY <2>3 DEF Reconciles, StopRequests, FileEffect
  <2>4. CASE Dies(e)
    BY <2>4 DEF Dies
  <2>5. CASE DeliverRecovery(e)
    <3>1. \A f \in Exec : attempt[f] \in {"staged", "witnessed"} => task[f] \in Working
      BY <1>1 DEF Control, Orphans, Open, OpenStates, TypeOK, TaskPhases, Working
    <3>2. QED
      BY <1>1, <2>5, <3>1, ExecFacts
         DEF DeliverRecovery, FileEffect, TaskOwnsLock, LockFree, Working
  <2>6. QED BY <2>1, <2>2, <2>3, <2>4, <2>5 DEF DriverEffect
<1>5. ASSUME Lifecycle PROVE Goal
  <2>1. CASE BeginReconcile \/ ReconcileLocks \/ EndReconcile \/ Quiesce
    BY <2>1 DEF BeginReconcile, ReconcileLocks, EndReconcile, Quiesce
  <2>2. CASE RequestStop \/ Stopped \/ Resume \/ Restart
    BY <2>2 DEF RequestStop, Stopped, Resume, Restart
  <2>3. CASE CancelTasks
    BY <2>3, RequestEffect DEF CancelTasks, FileEffect, Undisturbed
  <2>4. CASE Crash
    BY <1>1, <2>4 DEF Crash, Undisturbed, TypeOK
  <2>5. QED BY <1>5, <2>1, <2>2, <2>3, <2>4 DEF Lifecycle
<1>6. QED BY <1>2, <1>3, <1>4, <1>5 DEF Next

LEMMA FileStep ==
  ASSUME TypeOK, OpenAlone, Contents, NEW e \in Exec, FileEffect(e)
  PROVE  Contents'
<1> USE DEF files, local, Contents, Fresh, StagedIsThere, KeptIsThere, OpenKeeps,
            RequestKeeps, Kept, Open, OpenStates
<1>1. /\ attempt \in [Exec -> AttemptStates] /\ tree \in SUBSET Exec
      /\ base \in [Exec -> SUBSET Exec] /\ staged \in [Exec -> SUBSET Exec]
      /\ paths \in [Exec -> SUBSET Exec]
  BY DEF TypeOK
<1>2. CASE Requests(e) /\ UNCHANGED <<tree, base, staged>>
  BY <1>1, <1>2 DEF Requests, RecoveryPaths, OpenAlone
<1>3. CASE Accepts(e) /\ attempt[e] = "witnessed"
  BY <1>1, <1>3 DEF Accepts, OpenAlone
<1>4. CASE Begins(e) /\ \A f \in Exec : ~Open(f)
  BY <1>1, <1>4 DEF Begins
<1>5. CASE Stage(e)
  BY <1>1, <1>5 DEF Stage
<1>6. CASE Witnesses(e)
  BY <1>1, <1>6 DEF Witnesses
<1>7. CASE Write(e) /\ Open(e)
  <2>1. tree' = tree \cup {e} /\ attempt[e] # "none"
        /\ UNCHANGED <<attempt, base, staged, paths>>
    BY <1>7 DEF Write, kernel
  <2>2. Kept' = Kept BY <2>1
  <2>3. Fresh' BY <2>1
  <2>4. StagedIsThere' /\ KeptIsThere' BY <2>1, <2>2
  <2>5. OpenKeeps' /\ RequestKeeps' BY <2>1, <2>2
  <2>6. QED BY <2>3, <2>4, <2>5
<1>8. CASE DeliverRecovery(e) /\ \A f \in Exec : attempt[f] \notin {"staged", "witnessed"}
  <2>1. /\ attempt[e] = "recovering" /\ attempt' = [attempt EXCEPT ![e] = "recovered"]
        /\ tree' = (tree \ paths[e]) \cup (base[e] \cap paths[e])
        /\ base' = [base EXCEPT ![e] = {}] /\ staged' = [staged EXCEPT ![e] = {}]
        /\ paths' = [paths EXCEPT ![e] = {}]
    BY <1>8 DEF DeliverRecovery, Restored, CompleteRecovery, Forget
  <2>2. Fresh' BY <1>1, <2>1
  <2>3. StagedIsThere' BY <1>1, <1>8, <2>1
  <2>4. Kept' = Kept BY <1>1, <2>1
  <2>5. KeptIsThere' BY <1>1, <2>1, <2>4
  <2>6. OpenKeeps' /\ RequestKeeps' BY <1>1, <2>1, <2>4
  <2>7. QED BY <2>2, <2>3, <2>5, <2>6
<1>9. QED
  BY <1>2, <1>3, <1>4, <1>5, <1>6, <1>7, <1>8 DEF FileEffect

LEMMA FInit == Init => FInv
<1> SUFFICES ASSUME Init PROVE Control /\ Contents
  BY DEF FInv
<1> USE DEF Init, Open, OpenStates
<1>1. Control
  BY DEF Control, Quietly, PhaseIsAttempt, RowOfLease, Orphans, OpenAlone
<1>2. Contents
  BY DEF Contents, Fresh, StagedIsThere, KeptIsThere, OpenKeeps, RequestKeeps, Kept
<1>3. QED BY <1>1, <1>2

(* Faults are counted, so a run that is undisturbed always was.            *)
LEMMA UndisturbedBefore ==
  ASSUME TypeOK, Next, Undisturbed'
  PROVE  Undisturbed
<1> USE DEF Undisturbed, TypeOK, bounds
<1>1. ASSUME NEW expire \in SUBSET ActiveLeases, Tick(expire) PROVE Undisturbed
  BY <1>1 DEF Tick
<1>2. ASSUME NEW e \in Exec, TaskStep(e) PROVE Undisturbed
  BY <1>2 DEF TaskStep, RecordBaseline, BaselineRejected, CaptureFails, GateFails, TaskLost,
              StartRunner, Write, Stage, RunnerFails, Witness, Finalize, local
<1>3. ASSUME NEW e \in Exec, DriverStep(e) PROVE Undisturbed
  BY <1>3 DEF DriverStep, Dispatch, AckDispatch, DeliverRecovery, ReconcileAttempt,
              ReconcileLease, OrphanedLease, QuiesceLease, local
<1>4. ASSUME Lifecycle PROVE Undisturbed
  BY <1>4 DEF Lifecycle, BeginReconcile, ReconcileLocks, EndReconcile, Quiesce, RequestStop,
              CancelTasks, Stopped, Resume, Crash, Restart
<1>5. QED BY <1>1, <1>2, <1>3, <1>4 DEF Next

LEMMA FNext == IInv /\ FInv /\ [Next]_vars => FInv'
<1> SUFFICES ASSUME IInv, FInv, [Next]_vars, Undisturbed' PROVE Control' /\ Contents'
  BY DEF FInv
<1>1. ASSUME UNCHANGED vars PROVE Control' /\ Contents'
  <2>1. Control /\ Contents
    BY <1>1 DEF FInv, Undisturbed, vars
  <2>2. QED
    BY <1>1, <2>1 DEF vars, Control, Quietly, PhaseIsAttempt, RowOfLease, Orphans, OpenAlone,
       Contents, Fresh, StagedIsThere, KeptIsThere, OpenKeeps, RequestKeeps, Kept, Open
<1>2. ASSUME Next PROVE Control' /\ Contents'
  <2>1. Undisturbed /\ Control /\ Contents
    BY <1>2, UndisturbedBefore DEF FInv, IInv
  <2>2. Control'
    BY <1>2, <2>1, ControlStep
  <2>3. ASSUME UNCHANGED <<attempt, tree, base, staged, paths>> PROVE Contents'
    BY <2>1, <2>3 DEF Contents, Fresh, StagedIsThere, KeptIsThere, OpenKeeps, RequestKeeps,
                      Kept, Open
  <2>4. ASSUME NEW e \in Exec, FileEffect(e) PROVE Contents'
    BY <2>1, <2>4, FileStep DEF IInv, Control
  <2>5. QED BY <1>2, <2>1, <2>2, <2>3, <2>4, UndisturbedFiles
<1>3. QED BY <1>1, <1>2

(* The invariant of undisturbed runs.                                      *)
THEOREM FilesInvariant == Spec => []FInv
BY FInit, FNext, ExecutionInvariant, PTL DEF Spec

(* Faults aside, the accepted files of an execution stay in the worktree,  *)
(* whatever expires, fails, is stopped, resumed or recovered.              *)
THEOREM UndisturbedWorkIsKept == Spec => []UndisturbedWorkSurvives
<1>1. FInv => UndisturbedWorkSurvives
  BY DEF FInv, Undisturbed, Contents, KeptIsThere, Kept, UndisturbedWorkSurvives,
         AcceptedWorkSurvives
<1>2. QED BY <1>1, FilesInvariant, PTL
=============================================================================
