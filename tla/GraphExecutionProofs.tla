------------------------ MODULE GraphExecutionProofs ------------------------
(* Theorems about GraphExecution for every set of nodes, attempt budget,   *)
(* number of faults, and both choices of SameSecond and ScanOverflows.     *)
EXTENDS GraphExecution, FiniteSetTheorems, TLAPS

(* The kernel's part of the inductive invariant.  Only the last execution  *)
(* of a node can be unresolved; a node is ready when that one is resolved  *)
(* by a recovery too, and then its attempt number is already that of the   *)
(* lease to come.                                                          *)
IssuedInOrder ==
  \A e \in Exec : /\ lease[e] = "none" <=> e[2] > issued[NodeOf(e)]
                  /\ lease[e] = "none" => attempt[e] = "none"
OnlyLastIsOpen ==
  \A e \in Exec : e[2] < issued[NodeOf(e)] => attempt[e] = "recovered"
ReadyIsClean ==
  \A e \in Exec : node[NodeOf(e)] = "ready" /\ lease[e] # "none" => attempt[e] = "recovered"
SettledLease ==
  \A e \in Exec : /\ attempt[e] = "recovered" => lease[e] = "revoked"
                  /\ attempt[e] = "finalized" => lease[e] = "released"
ReadyHasAttempt ==
  \A n \in Nodes : /\ issued[n] <= tries[n]
                   /\ node[n] = "ready" => issued[n] < tries[n]
CompletedHasOutcome ==
  \A n \in Nodes : node[n] = "completed" =>
    \E e \in Exec : NodeOf(e) = n /\ attempt[e] = "finalized"
LeaveIsCancel ==
  \A e \in Exec : after[e] = "leave" => run \in {"cancelling", "cancelled"}

Kernel == /\ IssuedInOrder /\ OnlyLastIsOpen /\ ReadyIsClean /\ SettledLease
          /\ ReadyHasAttempt /\ CompletedHasOutcome /\ LeaveIsCancel /\ NodeHasOwner

(* A task past the lock is the lock's owner.                               *)
TaskOwnsLock ==
  \A e \in Exec : task[e] \in {"captured", "running", "staged", "witnessed"} => holder = e

(* A run at rest is drained and has no driver.                             *)
RestIsIdle ==
  run \in {"paused", "cancelled", "completed"} => Drained /\ proc = "idle"

(* Only a stopping run has a stop consumer.                                *)
StopIsArmed == proc = "stopping" => Stopping

IInv == TypeOK /\ Kernel /\ TaskOwnsLock /\ RestIsIdle /\ StopIsArmed

LEMMA ExecFacts ==
  /\ \A e \in Exec : NodeOf(e) \in Nodes /\ e[2] \in 1..MaxIssue
  /\ \A e, f \in Exec : NodeOf(e) = NodeOf(f) /\ e[2] = f[2] => e = f
  /\ Free \notin Exec /\ Driver \notin Exec /\ Free # Driver
BY DEF Exec, NodeOf, Free, Driver

LEMMA InitInv == Init => IInv
<1> SUFFICES ASSUME Init PROVE IInv
  OBVIOUS
<1> USE ExecutionAssumption, ExecFacts DEF Init
<1>1. TypeOK
  BY DEF TypeOK, RunStates, NodeStates, LeaseStates, AttemptStates, OpenStates,
         Dispositions, TaskPhases, DriverPhases
<1>2. IssuedInOrder /\ OnlyLastIsOpen /\ ReadyIsClean /\ SettledLease
  BY DEF IssuedInOrder, OnlyLastIsOpen, ReadyIsClean, SettledLease
<1>3. ReadyHasAttempt /\ CompletedHasOutcome /\ LeaveIsCancel /\ NodeHasOwner
  BY DEF ReadyHasAttempt, CompletedHasOutcome, LeaveIsCancel, NodeHasOwner
<1>4. TaskOwnsLock /\ RestIsIdle /\ StopIsArmed
  BY DEF TaskOwnsLock, RestIsIdle, StopIsArmed
<1>5. QED
  BY <1>1, <1>2, <1>3, <1>4 DEF IInv, Kernel

-----------------------------------------------------------------------------
(* Types.  The commands first, then one step per action.                   *)

KernelTypes ==
  /\ node \in [Nodes -> NodeStates]
  /\ tries \in [Nodes -> 1..MaxAttempts]
  /\ lease \in [Exec -> LeaseStates]
  /\ attempt \in [Exec -> AttemptStates]
  /\ after \in [Exec -> Dispositions]
  /\ paths \in [Exec -> SUBSET Exec]

LEMMA DiedTypes ==
  ASSUME TypeOK, NEW e \in Exec, AgentDied(e) \/ InvalidContract(e)
  PROVE  lease' \in [Exec -> LeaseStates] /\ node' \in [Nodes -> NodeStates]
<1> USE ExecFacts DEF TypeOK, LeaseStates, NodeStates
<1>1. CASE AgentDied(e)
  BY <1>1 DEF AgentDied, Parked
<1>2. CASE InvalidContract(e)
  BY <1>2 DEF InvalidContract
<1>3. QED
  BY <1>1, <1>2

LEMMA ScopeTypes ==
  ASSUME TypeOK, NEW e \in Exec, NEW scope \in RecoveryScopes(e)
  PROVE  scope \in SUBSET Exec
<1> RecoveryPaths(e) \in SUBSET Exec
  BY DEF RecoveryPaths, TypeOK
<1> QED
  BY DEF RecoveryScopes

LEMMA RequestTypes ==
  ASSUME TypeOK, NEW e \in Exec, NEW d \in Dispositions, RequestRecovery(e, d)
  PROVE  /\ attempt' \in [Exec -> AttemptStates]
         /\ after' \in [Exec -> Dispositions]
         /\ paths' \in [Exec -> SUBSET Exec]
<1>1. CASE Open(e)
  <2>1. /\ attempt' = [attempt EXCEPT ![e] = "recovering"]
        /\ after' = [after EXCEPT ![e] = d]
    BY <1>1 DEF RequestRecovery
  <2>2. PICK scope \in RecoveryScopes(e) : paths' = [paths EXCEPT ![e] = scope]
    BY <1>1 DEF RequestRecovery
  <2>3. scope \in SUBSET Exec
    BY ScopeTypes
  <2>4. QED
    BY <2>1, <2>2, <2>3 DEF TypeOK, AttemptStates
<1>2. CASE ~Open(e)
  BY <1>2 DEF RequestRecovery, TypeOK
<1>3. QED
  BY <1>1, <1>2

LEMMA AcceptTypes ==
  ASSUME TypeOK, NEW e \in Exec, NEW outcome \in {"completed", "failed"},
         AcceptOutcome(e, outcome)
  PROVE  /\ attempt' \in [Exec -> AttemptStates]
         /\ lease' \in [Exec -> LeaseStates]
         /\ node' \in [Nodes -> NodeStates]
BY ExecFacts DEF AcceptOutcome, TypeOK, AttemptStates, LeaseStates, NodeStates

LEMMA EndTypes ==
  ASSUME TypeOK, NEW e \in Exec, EndTask(e)
  PROVE  /\ task' \in [Exec -> TaskPhases]
         /\ holder' \in Exec \cup {Free, Driver}
BY DEF EndTask, TypeOK, TaskPhases

LEMMA CompleteTypes ==
  ASSUME TypeOK, NEW e \in Exec, CompleteRecovery(e), Forget(e)
  PROVE  /\ attempt' \in [Exec -> AttemptStates]
         /\ lease' \in [Exec -> LeaseStates]
         /\ node' \in [Nodes -> NodeStates]
         /\ tries' \in [Nodes -> 1..MaxAttempts]
         /\ after' \in [Exec -> Dispositions]
         /\ base' \in [Exec -> SUBSET Exec]
         /\ staged' \in [Exec -> SUBSET Exec]
         /\ paths' \in [Exec -> SUBSET Exec]
<1> USE ExecutionAssumption, ExecFacts DEF TypeOK
<1>1. attempt' \in [Exec -> AttemptStates] /\ lease' \in [Exec -> LeaseStates]
  BY DEF CompleteRecovery, AttemptStates, LeaseStates
<1>2. node' \in [Nodes -> NodeStates]
  BY DEF CompleteRecovery, NodeStates
<1>3. tries' \in [Nodes -> 1..MaxAttempts]
  BY DEF CompleteRecovery, HasAttempt, NextAttempt
<1>4. after' \in [Exec -> Dispositions]
  BY DEF Forget, Dispositions
<1>5. base' \in [Exec -> SUBSET Exec] /\ staged' \in [Exec -> SUBSET Exec]
      /\ paths' \in [Exec -> SUBSET Exec]
  BY DEF Forget
<1>6. QED
  BY <1>1, <1>2, <1>3, <1>4, <1>5

(* A worker task's steps.                                                  *)
LEMMA TaskTypes ==
  ASSUME TypeOK, NEW e \in Exec, TaskStep(e)
  PROVE  TypeOK'
<1> USE ExecutionAssumption, ExecFacts DEF TypeOK, kernel, files, local, bounds
<1>1. CASE RecordBaseline(e)
  BY <1>1 DEF RecordBaseline, TaskPhases, AttemptStates, OpenStates
<1>2. CASE BaselineRejected(e)
  BY <1>2 DEF BaselineRejected, TaskPhases
<1>3. CASE CaptureFails(e)
  <2>1. AgentDied(e) /\ task' = [task EXCEPT ![e] = "none"]
    BY <1>3 DEF CaptureFails
  <2>2. lease' \in [Exec -> LeaseStates] /\ node' \in [Nodes -> NodeStates]
    BY <2>1, DiedTypes
  <2>3. task' \in [Exec -> TaskPhases]
    BY <2>1 DEF TaskPhases
  <2>4. QED
    BY <1>3, <2>2, <2>3 DEF CaptureFails
<1>4. CASE GateFails(e)
  BY <1>4, DiedTypes, EndTypes DEF GateFails
<1>5. CASE TaskLost(e)
  BY <1>5, EndTypes DEF TaskLost
<1>6. CASE StartRunner(e)
  <2>1. CASE lease[e] = "active"
    <3>1. /\ task' \in [Exec -> TaskPhases]
          /\ node' \in [Nodes -> NodeStates]
      <4>1. /\ node' = [node EXCEPT ![NodeOf(e)] = "running"]
            /\ task' = [task EXCEPT ![e] = "running"]
        BY <1>6, <2>1 DEF StartRunner
      <4>2. task' \in [Exec -> TaskPhases]
        BY <4>1 DEF TaskPhases
      <4>3. node' \in [Nodes -> NodeStates]
        BY <4>1 DEF NodeStates
      <4>4. QED
        BY <4>2, <4>3
    <3>2. UNCHANGED <<run, tries, issued, attempt, after, paths, holder, lease, row,
                      tree, base, staged, proc, todo, expiries, dropped, crashes>>
      BY <1>6, <2>1 DEF StartRunner
    <3>3. QED
      BY <3>1, <3>2
  <2>2. CASE lease[e] # "active"
    BY <1>6, <2>2, RequestTypes, EndTypes DEF StartRunner, Dispositions
  <2>3. QED
    BY <2>1, <2>2
<1>7. CASE Write(e)
  BY <1>7 DEF Write
<1>8. CASE Stage(e)
  BY <1>8 DEF Stage, TaskPhases, AttemptStates, OpenStates
<1>9. CASE RunnerFails(e)
  <2>1. PICK d \in {"retry", "terminal"} : RequestRecovery(e, d)
    BY <1>9 DEF RunnerFails
  <2>2. QED
    BY <1>9, <2>1, RequestTypes, EndTypes DEF RunnerFails, Dispositions
<1>10. CASE Witness(e)
  <2>1. CASE staged[e] = tree
    BY <1>10, <2>1 DEF Witness, TaskPhases, AttemptStates, OpenStates
  <2>2. CASE staged[e] # tree
    BY <1>10, <2>2, RequestTypes, EndTypes DEF Witness, Dispositions
  <2>3. QED
    BY <2>1, <2>2
<1>11. CASE Finalize(e)
  <2>1. CASE attempt[e] = "witnessed" /\ CallbackAccepted(e)
    <3>1. PICK outcome \in {"completed", "failed"} : AcceptOutcome(e, outcome)
      BY <1>11, <2>1 DEF Finalize
    <3>2. QED
      BY <1>11, <2>1, <3>1, AcceptTypes, EndTypes DEF Finalize
  <2>2. CASE attempt[e] # "witnessed" \/ ~CallbackAccepted(e)
    BY <1>11, <2>2, RequestTypes, EndTypes DEF Finalize, Dispositions
  <2>3. QED
    BY <2>1, <2>2
<1>12. QED
  BY <1>1, <1>2, <1>3, <1>4, <1>5, <1>6, <1>7, <1>8, <1>9, <1>10, <1>11 DEF TaskStep

(* The steps of the driver on one execution.                               *)
LEMMA DriverTypes ==
  ASSUME TypeOK, NEW e \in Exec, DriverStep(e)
  PROVE  TypeOK'
<1> USE ExecutionAssumption, ExecFacts DEF TypeOK, kernel, files, local, bounds
<1>1. CASE Dispatch(e)
  BY <1>1 DEF Dispatch, TaskPhases
<1>2. CASE AckDispatch(e)
  BY <1>2 DEF AckDispatch
<1>3. CASE DeliverRecovery(e)
  <2>1. tree' \in SUBSET Exec
    BY <1>3 DEF DeliverRecovery, Restored
  <2>2. CompleteRecovery(e) /\ Forget(e) /\ UNCHANGED <<run, issued, row, local, bounds>>
    BY <1>3 DEF DeliverRecovery
  <2>3. QED
    BY <2>1, <2>2, CompleteTypes
<1>4. CASE ReconcileAttempt(e)
  <2>1. todo' \in SUBSET Exec /\ holder' \in Exec \cup {Free, Driver}
    BY <1>4 DEF ReconcileAttempt
  <2>2. UNCHANGED <<run, tries, issued, row, tree, base, staged, proc, task, bounds>>
    BY <1>4 DEF ReconcileAttempt
  <2>3. CASE attempt[e] = "witnessed" /\ CallbackAccepted(e)
    <3>1. PICK outcome \in {"completed", "failed"} : AcceptOutcome(e, outcome)
      BY <1>4, <2>3 DEF ReconcileAttempt
    <3>2. UNCHANGED <<after, paths>>
      BY <1>4, <2>3 DEF ReconcileAttempt
    <3>3. QED
      BY <2>1, <2>2, <3>1, <3>2, AcceptTypes
  <2>4. CASE attempt[e] # "witnessed" \/ ~CallbackAccepted(e)
    <3>1. RequestRecovery(e, "retry") /\ UNCHANGED <<lease, node>>
      BY <1>4, <2>4 DEF ReconcileAttempt
    <3>2. QED
      BY <2>1, <2>2, <3>1, RequestTypes DEF Dispositions
  <2>5. QED
    BY <2>3, <2>4
<1>5. CASE ReconcileLease(e)
  BY <1>5, DiedTypes DEF ReconcileLease
<1>6. CASE OrphanedLease(e)
  BY <1>6, DiedTypes DEF OrphanedLease
<1>7. CASE QuiesceLease(e)
  <2>1. UNCHANGED <<run, tries, issued, row, tree, base, staged, local, bounds>>
    BY <1>7 DEF QuiesceLease
  <2>2. CASE RequestRecovery(e, StopDisposition) /\ UNCHANGED <<lease, node>>
    BY <2>1, <2>2, RequestTypes DEF StopDisposition, Dispositions
  <2>3. CASE AgentDied(e) /\ UNCHANGED <<attempt, after, paths>>
    BY <2>1, <2>3, DiedTypes
  <2>4. QED
    BY <1>7, <2>2, <2>3 DEF QuiesceLease
<1>8. QED
  BY <1>1, <1>2, <1>3, <1>4, <1>5, <1>6, <1>7 DEF DriverStep

LEMMA LifecycleTypes ==
  ASSUME TypeOK, Lifecycle
  PROVE  TypeOK'
<1> USE ExecutionAssumption, ExecFacts
    DEF TypeOK, kernel, files, local, bounds, RunStates, DriverPhases
<1>1. CASE BeginReconcile
  BY <1>1 DEF BeginReconcile
<1>2. CASE ReconcileLocks
  BY <1>2 DEF ReconcileLocks
<1>3. CASE EndReconcile
  BY <1>3 DEF EndReconcile
<1>4. CASE Quiesce
  BY <1>4 DEF Quiesce
<1>5. CASE RequestStop
  <2>1. row' \in [Exec -> {"none", "pending", "sent", "done"}]
    BY <1>5 DEF RequestStop, Unacked
  <2>2. QED
    BY <1>5, <2>1 DEF RequestStop
<1>6. CASE CancelTasks
  <2>1. task' \in [Exec -> TaskPhases]
    BY <1>6 DEF CancelTasks, TaskPhases
  <2>2. /\ holder' = Free
        /\ UNCHANGED <<run, node, tries, issued, lease, row, tree, base, staged,
                       proc, todo, bounds>>
    BY <1>6 DEF CancelTasks
  <2>3. CASE holder \in Exec /\ RequestRecovery(holder, StopDisposition)
    BY <2>1, <2>2, <2>3, RequestTypes DEF StopDisposition, Dispositions
  <2>4. CASE UNCHANGED <<attempt, after, paths>>
    BY <2>1, <2>2, <2>4
  <2>5. QED
    BY <1>6, <2>3, <2>4 DEF CancelTasks
<1>7. CASE Stopped
  BY <1>7 DEF Stopped
<1>8. CASE Resume
  BY <1>8 DEF Resume
<1>9. CASE Crash
  <2>1. tree' \in SUBSET Exec
    BY <1>9 DEF Crash, Restored
  <2>2. row' \in [Exec -> {"none", "pending", "sent", "done"}]
    BY <1>9 DEF Crash, Unacked
  <2>3. task' \in [Exec -> TaskPhases]
    BY <1>9 DEF Crash, TaskPhases
  <2>4. QED
    BY <1>9, <2>1, <2>2, <2>3 DEF Crash
<1>10. CASE Restart
  BY <1>10 DEF Restart
<1>11. QED
  BY <1>1, <1>2, <1>3, <1>4, <1>5, <1>6, <1>7, <1>8, <1>9, <1>10 DEF Lifecycle

(* What a tick does to the kernel's state, with its LET opened.            *)
Granted == { n \in Nodes : Leasable(n) }

LEMMA TickEffect ==
  ASSUME TypeOK, NEW expire \in SUBSET ActiveLeases, Tick(expire)
  PROVE  /\ proc = "drive" /\ run = "active" /\ ~Recovering
         /\ \A e \in Exec : lease'[e] = IF e \in expire THEN "expired"
              ELSE IF NodeOf(e) \in Granted /\ e[2] = issued[NodeOf(e)] + 1
              THEN "active" ELSE lease[e]
         /\ \A n \in Nodes : node'[n] = IF \E e \in expire : NodeOf(e) = n THEN "expired"
              ELSE IF n \in Granted THEN "leased" ELSE node[n]
         /\ \A n \in Nodes : issued'[n] = IF n \in Granted THEN issued[n] + 1 ELSE issued[n]
         /\ lease' \in [Exec -> LeaseStates]
         /\ node' \in [Nodes -> NodeStates]
         /\ issued' \in [Nodes -> 0..MaxIssue]
         /\ row' \in [Exec -> {"none", "pending", "sent", "done"}]
         /\ UNCHANGED <<run, tries, attempt, after, files, local>>
<1> DEFINE new  == { <<n, issued[n] + 1>> : n \in Granted }
           lost == { NodeOf(e) : e \in expire }
<1>1. /\ lease' = [e \in Exec |-> IF e \in expire THEN "expired"
                                  ELSE IF e \in new THEN "active" ELSE lease[e]]
      /\ node' = [n \in Nodes |-> IF n \in lost THEN "expired"
                                  ELSE IF n \in Granted THEN "leased" ELSE node[n]]
      /\ issued' = [n \in Nodes |-> IF n \in Granted THEN issued[n] + 1 ELSE issued[n]]
      /\ row' = [e \in Exec |-> IF e \in new THEN "pending" ELSE row[e]]
      /\ proc = "drive" /\ run = "active" /\ ~Recovering
      /\ UNCHANGED <<run, tries, attempt, after, files, local>>
  BY DEF Tick, Granted
<1>2. \A e \in Exec : e \in new <=> NodeOf(e) \in Granted /\ e[2] = issued[NodeOf(e)] + 1
  BY DEF Exec, NodeOf
<1>3. \A n \in Nodes : n \in lost <=> \E e \in expire : NodeOf(e) = n
  OBVIOUS
<1>4. \A n \in Granted : issued[n] + 1 \in 0..MaxIssue
  BY ExecutionAssumption DEF Granted, Leasable, TypeOK
<1> HIDE DEF new, lost
<1>5. /\ lease' \in [Exec -> LeaseStates]
      /\ node' \in [Nodes -> NodeStates]
      /\ issued' \in [Nodes -> 0..MaxIssue]
      /\ row' \in [Exec -> {"none", "pending", "sent", "done"}]
  BY <1>1, <1>4 DEF TypeOK, LeaseStates, NodeStates
<1>6. QED
  BY <1>1, <1>2, <1>3, <1>5

LEMMA TickTypes ==
  ASSUME TypeOK, NEW expire \in SUBSET ActiveLeases, Tick(expire)
  PROVE  TypeOK'
<1>1. UNCHANGED <<dropped, crashes>> /\ expiries' = expiries + Cardinality(expire)
  BY DEF Tick
<1>2. expiries' \in Nat
  <2>1. IsFiniteSet(1..MaxIssue)
    BY FS_Interval, ExecutionAssumption
  <2>2. IsFiniteSet(Exec)
    BY <2>1, FS_Product, ExecutionAssumption DEF Exec
  <2>3. Cardinality(expire) \in Nat
    BY <2>2, FS_Subset, FS_CardinalityType DEF ActiveLeases
  <2>4. QED
    BY <1>1, <2>3 DEF TypeOK
<1>3. QED
  BY <1>1, <1>2, TickEffect DEF TypeOK, files, local

LEMMA TypeStep ==
  ASSUME TypeOK, [Next]_vars
  PROVE  TypeOK'
<1>1. ASSUME NEW expire \in SUBSET ActiveLeases, Tick(expire) PROVE TypeOK'
  BY <1>1, TickTypes
<1>2. ASSUME NEW e \in Exec, TaskStep(e) \/ DriverStep(e) PROVE TypeOK'
  BY <1>2, TaskTypes, DriverTypes
<1>3. CASE UNCHANGED vars
  BY <1>3 DEF TypeOK, vars
<1>4. QED
  BY <1>1, <1>2, <1>3, LifecycleTypes DEF Next

-----------------------------------------------------------------------------
(* The kernel's invariant, one lemma per way a step changes its state.     *)

(* An execution with an open or pending attempt is the last of its node.   *)
LEMMA OpenIsLast ==
  ASSUME TypeOK, Kernel, NEW e \in Exec, attempt[e] \notin {"none", "recovered"}
  PROVE  e[2] = issued[NodeOf(e)] /\ lease[e] # "none"
<1>1. e[2] \in Int /\ issued[NodeOf(e)] \in Int
  BY ExecutionAssumption, ExecFacts DEF TypeOK
<1>2. lease[e] # "none" /\ ~(e[2] > issued[NodeOf(e)])
  BY DEF Kernel, IssuedInOrder
<1>3. ~(e[2] < issued[NodeOf(e)])
  BY DEF Kernel, OnlyLastIsOpen
<1>4. QED
  BY <1>1, <1>2, <1>3

LEMMA UnchangedKernel ==
  ASSUME Kernel, UNCHANGED <<node, tries, issued, lease, attempt, after>>,
         run \in {"cancelling", "cancelled"} => run' \in {"cancelling", "cancelled"}
  PROVE  Kernel'
BY DEF Kernel, IssuedInOrder, OnlyLastIsOpen, ReadyIsClean, SettledLease, ReadyHasAttempt,
       CompletedHasOutcome, LeaveIsCancel, NodeHasOwner, ActiveLeases

LEMMA DiedKernel ==
  ASSUME TypeOK, Kernel, NEW e \in Exec, AgentDied(e) \/ InvalidContract(e),
         UNCHANGED <<run, tries, issued, attempt, after>>
  PROVE  Kernel'
<1>1. CASE lease[e] # "active"
  BY <1>1, UnchangedKernel DEF AgentDied, InvalidContract
<1>2. CASE lease[e] = "active"
  <2>1. PICK s \in {"blocked", "failed", "refused"} :
               node' = [node EXCEPT ![NodeOf(e)] = s]
    BY <1>2 DEF AgentDied, InvalidContract, Parked
  <2>2. lease' = [lease EXCEPT ![e] = "revoked"]
    BY <1>2 DEF AgentDied, InvalidContract
  <2> USE ExecFacts DEF TypeOK
  <2>3. IssuedInOrder' /\ OnlyLastIsOpen' /\ ReadyIsClean' /\ SettledLease'
    BY <1>2, <2>1, <2>2
    DEF Kernel, IssuedInOrder, OnlyLastIsOpen, ReadyIsClean, SettledLease
  <2>4. ReadyHasAttempt' /\ CompletedHasOutcome' /\ LeaveIsCancel'
    BY <2>1 DEF Kernel, ReadyHasAttempt, CompletedHasOutcome, LeaveIsCancel
  <2>5. NodeHasOwner'
    BY <2>1, <2>2 DEF Kernel, NodeHasOwner, ActiveLeases
  <2>6. QED
    BY <2>3, <2>4, <2>5 DEF Kernel
<1>3. QED
  BY <1>1, <1>2

LEMMA RequestKernel ==
  ASSUME TypeOK, Kernel, NEW e \in Exec, NEW d \in Dispositions, RequestRecovery(e, d),
         d = "leave" => run \in {"cancelling", "cancelled"},
         UNCHANGED <<run, node, tries, issued, lease>>
  PROVE  Kernel'
<1>1. CASE ~Open(e)
  BY <1>1, UnchangedKernel DEF RequestRecovery
<1>2. CASE Open(e)
  <2>1. /\ attempt' = [attempt EXCEPT ![e] = "recovering"]
        /\ after' = [after EXCEPT ![e] = d]
    BY <1>2 DEF RequestRecovery
  <2>2. e[2] = issued[NodeOf(e)] /\ lease[e] # "none" /\ node[NodeOf(e)] # "ready"
    BY <1>2, OpenIsLast DEF Open, OpenStates, Kernel, ReadyIsClean
  <2> USE ExecutionAssumption, ExecFacts DEF TypeOK
  <2>3. IssuedInOrder' /\ OnlyLastIsOpen' /\ ReadyIsClean' /\ SettledLease'
    BY <2>1, <2>2 DEF Kernel, IssuedInOrder, OnlyLastIsOpen, ReadyIsClean, SettledLease
  <2>4. CompletedHasOutcome'
    BY <1>2, <2>1 DEF Kernel, CompletedHasOutcome, Open, OpenStates
  <2>5. ReadyHasAttempt' /\ LeaveIsCancel' /\ NodeHasOwner'
    BY <2>1 DEF Kernel, ReadyHasAttempt, LeaveIsCancel, NodeHasOwner, ActiveLeases
  <2>6. QED
    BY <2>3, <2>4, <2>5 DEF Kernel
<1>3. QED
  BY <1>1, <1>2

(* The attempt moves from one open state to another, or is opened.         *)
LEMMA OpenKernel ==
  ASSUME TypeOK, Kernel, NEW e \in Exec, NEW s \in OpenStates,
         Open(e) \/ (lease[e] = "active" /\ attempt[e] = "none"),
         attempt' = [attempt EXCEPT ![e] = s],
         UNCHANGED <<run, node, tries, issued, lease, after>>
  PROVE  Kernel'
<1> USE ExecutionAssumption, ExecFacts DEF TypeOK, OpenStates
<1>1. lease[e] # "none" /\ attempt[e] \notin {"recovered", "finalized"}
  BY OpenIsLast DEF Open
<1>2. IssuedInOrder' /\ OnlyLastIsOpen' /\ ReadyIsClean' /\ SettledLease'
  BY <1>1 DEF Kernel, IssuedInOrder, OnlyLastIsOpen, ReadyIsClean, SettledLease
<1>3. CompletedHasOutcome'
  BY <1>1 DEF Kernel, CompletedHasOutcome
<1>4. ReadyHasAttempt' /\ LeaveIsCancel' /\ NodeHasOwner'
  BY DEF Kernel, ReadyHasAttempt, LeaveIsCancel, NodeHasOwner, ActiveLeases
<1>5. QED
  BY <1>2, <1>3, <1>4 DEF Kernel

LEMMA AcceptKernel ==
  ASSUME TypeOK, Kernel, NEW e \in Exec, NEW outcome \in {"completed", "failed"},
         Open(e), AcceptOutcome(e, outcome),
         UNCHANGED <<run, tries, issued, after>>
  PROVE  Kernel'
<1>1. /\ attempt' = [attempt EXCEPT ![e] = "finalized"]
      /\ lease' = [lease EXCEPT ![e] = "released"]
      /\ node' = [node EXCEPT ![NodeOf(e)] = outcome]
  BY DEF AcceptOutcome
<1>2. e[2] = issued[NodeOf(e)] /\ lease[e] # "none"
  BY OpenIsLast DEF Open, OpenStates
<1> USE ExecutionAssumption, ExecFacts DEF TypeOK
<1>3. IssuedInOrder' /\ OnlyLastIsOpen' /\ ReadyIsClean' /\ SettledLease'
  BY <1>1, <1>2 DEF Kernel, IssuedInOrder, OnlyLastIsOpen, ReadyIsClean, SettledLease
<1>4. CompletedHasOutcome'
  BY <1>1 DEF Kernel, CompletedHasOutcome, Open, OpenStates
<1>5. ReadyHasAttempt' /\ LeaveIsCancel' /\ NodeHasOwner'
  BY <1>1 DEF Kernel, ReadyHasAttempt, LeaveIsCancel, NodeHasOwner, ActiveLeases
<1>6. QED
  BY <1>3, <1>4, <1>5 DEF Kernel

LEMMA StartKernel ==
  ASSUME TypeOK, Kernel, NEW e \in Exec, lease[e] = "active",
         node' = [node EXCEPT ![NodeOf(e)] = "running"],
         UNCHANGED <<run, tries, issued, lease, attempt, after>>
  PROVE  Kernel'
<1> USE ExecFacts DEF TypeOK
<1>1. IssuedInOrder' /\ OnlyLastIsOpen' /\ ReadyIsClean' /\ SettledLease'
  BY DEF Kernel, IssuedInOrder, OnlyLastIsOpen, ReadyIsClean, SettledLease
<1>2. CompletedHasOutcome'
  BY DEF Kernel, CompletedHasOutcome
<1>3. ReadyHasAttempt' /\ LeaveIsCancel' /\ NodeHasOwner'
  BY DEF Kernel, ReadyHasAttempt, LeaveIsCancel, NodeHasOwner, ActiveLeases
<1>4. QED
  BY <1>1, <1>2, <1>3 DEF Kernel

LEMMA RecoveredKernel ==
  ASSUME TypeOK, Kernel, NEW e \in Exec, attempt[e] = "recovering",
         CompleteRecovery(e), Forget(e), UNCHANGED <<run, issued>>
  PROVE  Kernel'
<1>1. /\ attempt' = [attempt EXCEPT ![e] = "recovered"]
      /\ lease' = [lease EXCEPT ![e] = "revoked"]
      /\ after' = [after EXCEPT ![e] = "retry"]
  BY DEF CompleteRecovery, Forget
<1>2. e[2] = issued[NodeOf(e)] /\ lease[e] # "none" /\ node[NodeOf(e)] # "ready"
  BY OpenIsLast DEF Kernel, ReadyIsClean
<1>3. \/ /\ after[e] = "retry" /\ tries[NodeOf(e)] < MaxAttempts
         /\ node' = [node EXCEPT ![NodeOf(e)] = "ready"]
         /\ tries' = [tries EXCEPT ![NodeOf(e)] = tries[NodeOf(e)] + 1]
      \/ node' = [node EXCEPT ![NodeOf(e)] = "failed"] /\ tries' = tries
      \/ after[e] = "leave" /\ node' = node /\ tries' = tries
  BY DEF CompleteRecovery, HasAttempt, NextAttempt
<1> USE ExecutionAssumption, ExecFacts DEF TypeOK
<1>4. IssuedInOrder' /\ OnlyLastIsOpen' /\ SettledLease'
  BY <1>1, <1>2 DEF Kernel, IssuedInOrder, OnlyLastIsOpen, SettledLease
<1>5. ReadyIsClean'
  <2>1. \A f \in Exec : NodeOf(f) = NodeOf(e) /\ lease[f] # "none" => attempt'[f] = "recovered"
    <3>1. \A f \in Exec : lease[f] # "none" => f[2] <= issued[NodeOf(f)]
      BY DEF Kernel, IssuedInOrder
    <3>2. \A f \in Exec : f[2] < issued[NodeOf(f)] => attempt[f] = "recovered"
      BY DEF Kernel, OnlyLastIsOpen
    <3>3. \A f \in Exec : NodeOf(f) = NodeOf(e) /\ f[2] = issued[NodeOf(f)] => f = e
      BY <1>2
    <3>4. ASSUME NEW f \in Exec, NodeOf(f) = NodeOf(e), lease[f] # "none"
          PROVE  attempt'[f] = "recovered"
      <4>1. CASE f = e
        BY <1>1, <4>1
      <4>2. CASE f # e
        <5>1. f[2] \in 1..MaxIssue /\ issued[NodeOf(f)] \in 0..MaxIssue
          BY <3>4
        <5>4. f[2] <= issued[NodeOf(f)]
          BY <3>1, <3>4
        <5>5. f[2] # issued[NodeOf(f)]
          BY <3>3, <3>4, <4>2
        <5>2. f[2] < issued[NodeOf(f)]
          BY ONLY <5>1, <5>4, <5>5, ExecutionAssumption DEF ExecutionAssumption
        <5>3. QED
          BY <1>1, <3>2, <4>2, <5>2
      <4>3. QED
        BY <4>1, <4>2
    <3>5. QED
      BY <3>4
  <2>2. \A f \in Exec : lease'[f] # "none" => lease[f] # "none"
    BY <1>1, <1>2
  <2>3. QED
    BY <1>1, <1>3, <2>1, <2>2 DEF Kernel, ReadyIsClean
<1>6. ReadyHasAttempt'
  BY <1>3 DEF Kernel, ReadyHasAttempt
<1>7. CompletedHasOutcome'
  BY <1>1, <1>3 DEF Kernel, CompletedHasOutcome
<1>8. LeaveIsCancel'
  BY <1>1 DEF Kernel, LeaveIsCancel
<1>9. NodeHasOwner'
  BY <1>1, <1>3 DEF Kernel, NodeHasOwner, ActiveLeases, LeaveIsCancel
<1>10. QED
  BY <1>4, <1>5, <1>6, <1>7, <1>8, <1>9 DEF Kernel

LEMMA TickKernel ==
  ASSUME TypeOK, Kernel, NEW expire \in SUBSET ActiveLeases, Tick(expire)
  PROVE  Kernel'
<1> USE ExecutionAssumption, ExecFacts DEF TypeOK
<1>1. /\ \A e \in Exec : lease'[e] = IF e \in expire THEN "expired"
           ELSE IF NodeOf(e) \in Granted /\ e[2] = issued[NodeOf(e)] + 1
           THEN "active" ELSE lease[e]
      /\ \A n \in Nodes : node'[n] = IF \E e \in expire : NodeOf(e) = n THEN "expired"
           ELSE IF n \in Granted THEN "leased" ELSE node[n]
      /\ \A n \in Nodes : issued'[n] = IF n \in Granted THEN issued[n] + 1 ELSE issued[n]
      /\ UNCHANGED <<run, tries, attempt, after>>
  BY TickEffect
<1>2. /\ expire \subseteq Exec
      /\ \A e \in expire : lease[e] = "active" /\ NodeOf(e) \notin Granted
      /\ Granted \subseteq Nodes
      /\ \A n \in Granted : node[n] = "ready"
  BY DEF ActiveLeases, Granted, Leasable
<1>3. IssuedInOrder'
  BY <1>1, <1>2 DEF Kernel, IssuedInOrder
<1>4. OnlyLastIsOpen'
  BY <1>1, <1>2 DEF Kernel, OnlyLastIsOpen, ReadyIsClean, IssuedInOrder
<1>5. ReadyIsClean'
  BY <1>1, <1>2 DEF Kernel, ReadyIsClean
<1>6. SettledLease'
  BY <1>1, <1>2 DEF Kernel, SettledLease, IssuedInOrder
<1>7. ReadyHasAttempt'
  BY <1>1, <1>2 DEF Kernel, ReadyHasAttempt
<1>8. CompletedHasOutcome' /\ LeaveIsCancel'
  BY <1>1 DEF Kernel, CompletedHasOutcome, LeaveIsCancel
<1>9. NodeHasOwner'
  <2> SUFFICES ASSUME NEW n \in Nodes, node'[n] \in {"leased", "running"},
                      run' \notin {"cancelling", "cancelled"}
               PROVE  \E e \in ActiveLeases' : NodeOf(e) = n
    BY DEF NodeHasOwner
  <2>1. CASE n \in Granted
    <3>1. <<n, issued[n] + 1>> \in Exec
      BY <2>1 DEF Granted, Leasable, Exec
    <3>2. NodeOf(<<n, issued[n] + 1>>) = n
      BY DEF NodeOf
    <3>3. <<n, issued[n] + 1>> \notin expire
      BY <1>2, <2>1, <3>2
    <3>4. lease'[<<n, issued[n] + 1>>] = "active"
      BY <1>1, <2>1, <3>1, <3>2, <3>3
    <3>5. QED
      BY <3>1, <3>2, <3>4 DEF ActiveLeases
  <2>2. CASE n \notin Granted
    <3>1. node[n] \in {"leased", "running"} /\ ~\E e \in expire : NodeOf(e) = n
      BY <1>1, <2>2
    <3>2. PICK e \in ActiveLeases : NodeOf(e) = n
      BY <1>1, <3>1 DEF Kernel, NodeHasOwner
    <3>3. e \in ActiveLeases'
      BY <1>1, <3>1, <3>2, <2>2 DEF ActiveLeases
    <3>4. QED
      BY <3>2, <3>3
  <2>3. QED
    BY <2>1, <2>2
<1>10. QED
  BY <1>3, <1>4, <1>5, <1>6, <1>7, <1>8, <1>9 DEF Kernel

LEMMA KernelStep ==
  ASSUME IInv, [Next]_vars
  PROVE  Kernel'
<1> TypeOK /\ Kernel /\ RestIsIdle /\ StopIsArmed
  BY DEF IInv
<1>1. ASSUME NEW expire \in SUBSET ActiveLeases, Tick(expire) PROVE Kernel'
  BY <1>1, TickKernel
<1>2. ASSUME NEW e \in Exec, TaskStep(e) PROVE Kernel'
  <2>1. CASE RecordBaseline(e)
    <3>1. /\ Open(e) \/ (lease[e] = "active" /\ attempt[e] = "none")
          /\ attempt' = [attempt EXCEPT ![e] = "captured"]
          /\ UNCHANGED <<run, node, tries, issued, lease, after>>
      BY <2>1 DEF RecordBaseline, Open, OpenStates
    <3>2. "captured" \in OpenStates
      BY DEF OpenStates
    <3>3. QED
      BY <3>1, <3>2, OpenKernel
  <2>2. CASE BaselineRejected(e) \/ TaskLost(e) \/ Write(e)
    BY <2>2, UnchangedKernel DEF BaselineRejected, TaskLost, Write, kernel
  <2>3. CASE CaptureFails(e) \/ GateFails(e)
    BY <2>3, DiedKernel DEF CaptureFails, GateFails
  <2>4. CASE StartRunner(e)
    <3>1. CASE lease[e] = "active"
      BY <2>4, <3>1, StartKernel DEF StartRunner
    <3>2. CASE lease[e] # "active"
      BY <2>4, <3>2, RequestKernel DEF StartRunner, Dispositions
    <3>3. QED
      BY <3>1, <3>2
  <2>5. CASE Stage(e)
    <3>1. /\ Open(e)
          /\ attempt' = [attempt EXCEPT ![e] = "staged"]
          /\ UNCHANGED <<run, node, tries, issued, lease, after>>
      BY <2>5 DEF Stage, Open, OpenStates
    <3>2. "staged" \in OpenStates
      BY DEF OpenStates
    <3>3. QED
      BY <3>1, <3>2, OpenKernel
  <2>6. CASE RunnerFails(e)
    <3>1. PICK d \in {"retry", "terminal"} : RequestRecovery(e, d)
      BY <2>6 DEF RunnerFails
    <3>2. QED
      BY <2>6, <3>1, RequestKernel DEF RunnerFails, Dispositions
  <2>7. CASE Witness(e)
    <3>1. CASE staged[e] = tree
      <4>1. /\ Open(e)
            /\ attempt' = [attempt EXCEPT ![e] = "witnessed"]
            /\ UNCHANGED <<run, node, tries, issued, lease, after>>
        BY <2>7, <3>1 DEF Witness, Open, OpenStates
      <4>2. "witnessed" \in OpenStates
        BY DEF OpenStates
      <4>3. QED
        BY <4>1, <4>2, OpenKernel
    <3>2. CASE staged[e] # tree
      BY <2>7, <3>2, RequestKernel DEF Witness, Dispositions
    <3>3. QED
      BY <3>1, <3>2
  <2>8. CASE Finalize(e)
    <3>1. CASE attempt[e] = "witnessed" /\ CallbackAccepted(e)
      <4>1. PICK outcome \in {"completed", "failed"} : AcceptOutcome(e, outcome)
        BY <2>8, <3>1 DEF Finalize
      <4>2. QED
        BY <2>8, <3>1, <4>1, AcceptKernel DEF Finalize, Open, OpenStates
    <3>2. CASE attempt[e] # "witnessed" \/ ~CallbackAccepted(e)
      BY <2>8, <3>2, RequestKernel DEF Finalize, Dispositions
    <3>3. QED
      BY <3>1, <3>2
  <2>9. QED
    BY <1>2, <2>1, <2>2, <2>3, <2>4, <2>5, <2>6, <2>7, <2>8 DEF TaskStep
<1>3. ASSUME NEW e \in Exec, DriverStep(e) PROVE Kernel'
  <2>1. CASE Dispatch(e) \/ AckDispatch(e)
    BY <2>1, UnchangedKernel DEF Dispatch, AckDispatch
  <2>2. CASE DeliverRecovery(e)
    BY <2>2, RecoveredKernel DEF DeliverRecovery
  <2>3. CASE ReconcileAttempt(e)
    <3>1. CASE attempt[e] = "witnessed" /\ CallbackAccepted(e)
      <4>1. PICK outcome \in {"completed", "failed"} : AcceptOutcome(e, outcome)
        BY <2>3, <3>1 DEF ReconcileAttempt
      <4>2. QED
        BY <2>3, <3>1, <4>1, AcceptKernel DEF ReconcileAttempt, Open, OpenStates
    <3>2. CASE attempt[e] # "witnessed" \/ ~CallbackAccepted(e)
      BY <2>3, <3>2, RequestKernel DEF ReconcileAttempt, Dispositions
    <3>3. QED
      BY <3>1, <3>2
  <2>4. CASE ReconcileLease(e) \/ OrphanedLease(e)
    BY <2>4, DiedKernel DEF ReconcileLease, OrphanedLease
  <2>5. CASE QuiesceLease(e)
    <3>1. UNCHANGED <<run, tries, issued>> /\ proc = "stopping"
      BY <2>5 DEF QuiesceLease
    <3>2. StopDisposition \in Dispositions /\ (StopDisposition = "leave" => run = "cancelling")
      BY <3>1 DEF StopDisposition, Dispositions, StopIsArmed, Stopping
    <3>3. CASE RequestRecovery(e, StopDisposition) /\ UNCHANGED <<lease, node>>
      BY <3>1, <3>2, <3>3, RequestKernel
    <3>4. CASE AgentDied(e) /\ UNCHANGED <<attempt, after, paths>>
      BY <3>1, <3>4, DiedKernel
    <3>5. QED
      BY <2>5, <3>3, <3>4 DEF QuiesceLease
  <2>6. QED
    BY <1>3, <2>1, <2>2, <2>3, <2>4, <2>5 DEF DriverStep
<1>4. CASE Lifecycle
  <2>1. CASE CancelTasks
    <3>1. UNCHANGED <<run, node, tries, issued, lease>> /\ proc = "stopping"
      BY <2>1 DEF CancelTasks
    <3>2. StopDisposition \in Dispositions /\ (StopDisposition = "leave" => run = "cancelling")
      BY <3>1 DEF StopDisposition, Dispositions, StopIsArmed, Stopping
    <3>3. CASE holder \in Exec /\ RequestRecovery(holder, StopDisposition)
      BY <3>1, <3>2, <3>3, RequestKernel
    <3>4. CASE UNCHANGED <<attempt, after, paths>>
      BY <3>1, <3>4, UnchangedKernel
    <3>5. QED
      BY <2>1, <3>3, <3>4 DEF CancelTasks
  <2>2. CASE BeginReconcile \/ ReconcileLocks \/ EndReconcile \/ Restart
    BY <2>2, UnchangedKernel DEF BeginReconcile, ReconcileLocks, EndReconcile, Restart, kernel
  <2>3. CASE Quiesce \/ RequestStop \/ Resume
    BY <2>3, UnchangedKernel DEF Quiesce, RequestStop, Resume
  <2>4. CASE Stopped \/ Crash
    BY <2>4, UnchangedKernel DEF Stopped, Crash, StopIsArmed, Stopping
  <2>5. QED
    BY <1>4, <2>1, <2>2, <2>3, <2>4 DEF Lifecycle
<1>5. CASE UNCHANGED vars
  BY <1>5, UnchangedKernel DEF vars
<1>6. QED
  BY <1>1, <1>2, <1>3, <1>4, <1>5 DEF Next

-----------------------------------------------------------------------------
(* The lock, and the run at rest.                                          *)

Working == {"captured", "running", "staged", "witnessed"}

LEMMA EndLock ==
  ASSUME TypeOK, TaskOwnsLock, NEW e \in Exec, task[e] \in Working, EndTask(e)
  PROVE  TaskOwnsLock'
BY DEF TypeOK, TaskOwnsLock, EndTask, Working

LEMMA LockStep ==
  ASSUME IInv, [Next]_vars
  PROVE  TaskOwnsLock'
<1> TypeOK /\ TaskOwnsLock
  BY DEF IInv
<1> USE DEF TaskOwnsLock
<1>1. ASSUME NEW expire \in SUBSET ActiveLeases, Tick(expire) PROVE TaskOwnsLock'
  BY <1>1 DEF Tick, local
<1>2. ASSUME NEW e \in Exec, TaskStep(e) PROVE TaskOwnsLock'
  <2>1. CASE RecordBaseline(e)
    BY <2>1, ExecFacts DEF RecordBaseline, LockFree, TypeOK
  <2>2. CASE BaselineRejected(e) \/ CaptureFails(e)
    BY <2>2 DEF BaselineRejected, CaptureFails, TypeOK
  <2>3. CASE GateFails(e) \/ TaskLost(e)
    BY <2>3, EndLock DEF GateFails, TaskLost, Working
  <2>4. CASE StartRunner(e)
    <3>1. CASE lease[e] = "active"
      BY <2>4, <3>1 DEF StartRunner, TypeOK
    <3>2. CASE lease[e] # "active"
      BY <2>4, <3>2, EndLock DEF StartRunner, Working
    <3>3. QED
      BY <3>1, <3>2
  <2>5. CASE Write(e)
    BY <2>5 DEF Write, local
  <2>6. CASE Stage(e)
    BY <2>6 DEF Stage, TypeOK
  <2>7. CASE RunnerFails(e) \/ Finalize(e)
    BY <2>7, EndLock DEF RunnerFails, Finalize, Working
  <2>8. CASE Witness(e)
    <3>1. CASE staged[e] = tree
      BY <2>8, <3>1 DEF Witness, TypeOK
    <3>2. CASE staged[e] # tree
      BY <2>8, <3>2, EndLock DEF Witness, Working
    <3>3. QED
      BY <3>1, <3>2
  <2>9. QED
    BY <1>2, <2>1, <2>2, <2>3, <2>4, <2>5, <2>6, <2>7, <2>8 DEF TaskStep
<1>3. ASSUME NEW e \in Exec, DriverStep(e) PROVE TaskOwnsLock'
  <2>1. CASE Dispatch(e)
    BY <2>1 DEF Dispatch, TypeOK
  <2>2. CASE ReconcileAttempt(e)
    BY <2>2, ExecFacts DEF ReconcileAttempt
  <2>3. CASE AckDispatch(e) \/ DeliverRecovery(e) \/ ReconcileLease(e)
    BY <2>3 DEF AckDispatch, DeliverRecovery, ReconcileLease, local
  <2>4. CASE OrphanedLease(e) \/ QuiesceLease(e)
    BY <2>4 DEF OrphanedLease, QuiesceLease, local
  <2>5. QED
    BY <1>3, <2>1, <2>2, <2>3, <2>4 DEF DriverStep
<1>4. CASE Lifecycle
  <2>1. CASE BeginReconcile \/ EndReconcile \/ Quiesce \/ Stopped \/ Resume \/ Restart
    BY <2>1 DEF BeginReconcile, EndReconcile, Quiesce, Stopped, Resume, Restart
  <2>2. CASE ReconcileLocks
    BY <2>2, ExecFacts DEF ReconcileLocks, LockFree
  <2>3. CASE RequestStop
    BY <2>3, ExecFacts DEF RequestStop
  <2>4. CASE CancelTasks \/ Crash
    BY <2>4 DEF CancelTasks, Crash
  <2>5. QED
    BY <1>4, <2>1, <2>2, <2>3, <2>4 DEF Lifecycle
<1>5. CASE UNCHANGED vars
  BY <1>5 DEF vars
<1>6. QED
  BY <1>1, <1>2, <1>3, <1>4, <1>5 DEF Next

(* A step of a task needs a task, a step of the driver needs a driver, and *)
(* neither changes the lifecycle.                                          *)
LEMMA WorkNeedsOwner ==
  ASSUME NEW e \in Exec
  PROVE  /\ TaskStep(e) => task[e] # "none" /\ run' = run /\ proc' = proc
         /\ DriverStep(e) => proc # "idle" /\ run' = run /\ proc' = proc
<1>1. TaskStep(e) => task[e] # "none" /\ run' = run /\ proc' = proc
  BY DEF TaskStep, RecordBaseline, BaselineRejected, CaptureFails, GateFails, TaskLost,
         StartRunner, Write, Stage, RunnerFails, Witness, Finalize, kernel, local
<1>2. DriverStep(e) => proc # "idle" /\ run' = run /\ proc' = proc
  BY DEF DriverStep, Dispatch, AckDispatch, DeliverRecovery, ReconcileAttempt,
         ReconcileLease, OrphanedLease, QuiesceLease, Delivering, local
<1>3. QED
  BY <1>1, <1>2

LEMMA RestStep ==
  ASSUME IInv, [Next]_vars
  PROVE  RestIsIdle' /\ StopIsArmed'
<1> TypeOK /\ RestIsIdle /\ StopIsArmed
  BY DEF IInv
<1> USE DEF RestIsIdle, StopIsArmed, Stopping
<1>1. ASSUME NEW expire \in SUBSET ActiveLeases, Tick(expire)
      PROVE  RestIsIdle' /\ StopIsArmed'
  BY <1>1 DEF Tick, local
<1>2. ASSUME NEW e \in Exec, TaskStep(e)
      PROVE  RestIsIdle' /\ StopIsArmed'
  <2>1. run \notin {"paused", "cancelled", "completed"}
    BY <1>2, WorkNeedsOwner DEF Drained, NoTasks
  <2>2. QED
    BY <1>2, <2>1, WorkNeedsOwner
<1>3. ASSUME NEW e \in Exec, DriverStep(e)
      PROVE  RestIsIdle' /\ StopIsArmed'
  BY <1>3, WorkNeedsOwner
<1>4. CASE Lifecycle
  <2>1. CASE Quiesce \/ Stopped
    <3>1. /\ Drained /\ UNCHANGED <<lease, attempt, task>> /\ proc' = "idle"
      BY <2>1 DEF Quiesce, Stopped
    <3>2. Drained'
      BY <3>1 DEF Drained, NoTasks, ActiveLeases, Recovering
    <3>3. QED
      BY <3>1, <3>2
  <2>2. CASE BeginReconcile \/ ReconcileLocks \/ EndReconcile
    BY <2>2 DEF BeginReconcile, ReconcileLocks, EndReconcile, kernel
  <2>3. CASE RequestStop \/ CancelTasks \/ Resume
    BY <2>3 DEF RequestStop, CancelTasks, Resume
  <2>4. CASE Crash
    BY <2>4 DEF Crash
  <2>5. CASE Restart
    BY <2>5 DEF Restart, kernel
  <2>6. QED
    BY <1>4, <2>1, <2>2, <2>3, <2>4, <2>5 DEF Lifecycle
<1>5. CASE UNCHANGED vars
  BY <1>5 DEF vars, Drained, NoTasks, ActiveLeases, Recovering
<1>6. QED
  BY <1>1, <1>2, <1>3, <1>4, <1>5 DEF Next

(* The inductive invariant holds in every reachable state.                 *)
THEOREM ExecutionInvariant == Spec => []IInv
<1>1. IInv /\ [Next]_vars => IInv'
  <2> SUFFICES ASSUME IInv, [Next]_vars PROVE IInv'
    OBVIOUS
  <2>1. TypeOK'
    BY TypeStep DEF IInv
  <2>2. QED
    BY <2>1, KernelStep, LockStep, RestStep DEF IInv
<1>2. QED
  BY InitInv, <1>1, PTL DEF Spec

(* Every reachable state is well-typed: attempt numbers stay within        *)
(* max_attempts, leases within what was granted.                           *)
THEOREM ExecutionTypes == Spec => []TypeOK
<1>1. IInv => TypeOK
  BY DEF IInv
<1>2. QED
  BY <1>1, ExecutionInvariant, PTL

-----------------------------------------------------------------------------
(* The properties the runs check.                                          *)

(* A node is leased to at most one execution at a time.                    *)
THEOREM LeaseIsExclusive == Spec => []ExclusiveLease
<1>1. ASSUME IInv, NEW e \in ActiveLeases, NEW f \in ActiveLeases, NodeOf(e) = NodeOf(f)
      PROVE  e = f
  <2>1. \A x \in ActiveLeases : x \in Exec /\ lease[x] = "active"
    BY DEF ActiveLeases
  <2>2. \A x \in ActiveLeases : x[2] = issued[NodeOf(x)]
    <3>1. ASSUME NEW x \in ActiveLeases PROVE x[2] = issued[NodeOf(x)]
      <4>1. x[2] \in 1..MaxIssue /\ issued[NodeOf(x)] \in 0..MaxIssue
        BY <1>1, <2>1, <3>1, ExecFacts DEF IInv, TypeOK
      <4>2. ~(x[2] > issued[NodeOf(x)])
        BY <1>1, <2>1, <3>1 DEF IInv, Kernel, IssuedInOrder
      <4>3. ~(x[2] < issued[NodeOf(x)])
        BY <1>1, <2>1, <3>1 DEF IInv, Kernel, OnlyLastIsOpen, SettledLease
      <4>4. QED
        BY <4>1, <4>2, <4>3, ExecutionAssumption
    <3>2. QED
      BY <3>1
  <2>3. QED
    BY <1>1, <2>1, <2>2, ExecFacts
<1>2. IInv => ExclusiveLease
  BY <1>1 DEF ExclusiveLease
<1>3. QED
  BY <1>2, ExecutionInvariant, PTL

(* A retry is leased only when every earlier execution of the node has     *)
(* been recovered and its lease revoked.                                   *)
THEOREM RetryFollowsRecovery == Spec => []RecoveryBeforeRetry
<1>1. ASSUME IInv, NEW e \in Exec, NEW f \in Exec,
             NodeOf(e) = NodeOf(f), e[2] < f[2], lease[f] # "none"
      PROVE  attempt[e] = "recovered" /\ lease[e] = "revoked"
  <2>1. /\ e[2] \in 1..MaxIssue /\ f[2] \in 1..MaxIssue
        /\ issued[NodeOf(e)] \in 0..MaxIssue
    BY <1>1, ExecFacts DEF IInv, TypeOK
  <2>2. ~(f[2] > issued[NodeOf(f)])
    BY <1>1 DEF IInv, Kernel, IssuedInOrder
  <2>3. e[2] < issued[NodeOf(e)]
    BY <1>1, <2>1, <2>2, ExecutionAssumption
  <2>4. QED
    BY <1>1, <2>3 DEF IInv, Kernel, OnlyLastIsOpen, SettledLease
<1>2. IInv => RecoveryBeforeRetry
  BY <1>1 DEF RecoveryBeforeRetry
<1>3. QED
  BY <1>2, ExecutionInvariant, PTL

(* One published outcome per node, and no completed node without one.      *)
THEOREM OutcomeIsUnique == Spec => []AcceptedOnce
<1>1. ASSUME IInv, NEW e \in Exec, NEW f \in Exec, NodeOf(e) = NodeOf(f),
             attempt[e] = "finalized", attempt[f] = "finalized"
      PROVE  e = f
  <2>1. e[2] = issued[NodeOf(e)] /\ f[2] = issued[NodeOf(f)]
    BY <1>1, OpenIsLast DEF IInv
  <2>2. QED
    BY <1>1, <2>1, ExecFacts
<1>2. IInv => AcceptedOnce
  BY <1>1 DEF AcceptedOnce, IInv, Kernel, CompletedHasOutcome
<1>3. QED
  BY <1>2, ExecutionInvariant, PTL

(* Leases never outnumber attempts, and so never exceed max_attempts.      *)
THEOREM RetriesAreBounded == Spec => []AttemptBudget
<1>1. IInv => AttemptBudget
  BY DEF IInv, Kernel, ReadyHasAttempt, AttemptBudget
<1>2. QED
  BY <1>1, ExecutionInvariant, PTL

(* Every leased or running node has an active lease, unless cancelled.     *)
THEOREM NoNodeIsStranded == Spec => []NodeHasOwner
<1>1. IInv => NodeHasOwner
  BY DEF IInv, Kernel
<1>2. QED
  BY <1>1, ExecutionInvariant, PTL

(* The lifecycle boundary is shown after quiescence only.                  *)
THEOREM RestIsQuiet == Spec => []LifecycleIsQuiet
<1>1. IInv => LifecycleIsQuiet
  BY DEF IInv, RestIsIdle, LifecycleIsQuiet, Drained, NoTasks, ActiveLeases, Recovering
<1>2. QED
  BY <1>1, ExecutionInvariant, PTL

(* Nothing is left unresolved at a completed node.                         *)
LEMMA CompletedIsSettled ==
  ASSUME IInv, NEW n \in Nodes, node[n] = "completed",
         NEW f \in Exec, NodeOf(f) = n
  PROVE  /\ lease[f] # "active"
         /\ attempt[f] # "recovering" /\ ~Open(f)
<1>1. PICK e \in Exec : NodeOf(e) = n /\ attempt[e] = "finalized"
  BY DEF IInv, Kernel, CompletedHasOutcome
<1>2. lease[e] = "released" /\ e[2] = issued[n]
  BY <1>1, OpenIsLast DEF IInv, Kernel, SettledLease
<1>3. CASE f = e
  BY <1>1, <1>2, <1>3 DEF Open, OpenStates
<1>4. CASE f # e
  <2>1. f[2] \in 1..MaxIssue /\ issued[n] \in 0..MaxIssue /\ f[2] # issued[n]
    BY <1>1, <1>2, <1>4, ExecFacts DEF IInv, TypeOK
  <2>2. attempt[f] \in {"none", "recovered"}
    BY <1>4, <1>1, <1>2, <2>1, OpenIsLast DEF IInv
  <2>3. CASE f[2] < issued[n]
    BY <2>2, <2>3 DEF IInv, Kernel, OnlyLastIsOpen, SettledLease, Open, OpenStates
  <2>4. CASE f[2] > issued[n]
    BY <2>2, <2>4 DEF IInv, Kernel, IssuedInOrder, Open, OpenStates
  <2>5. QED
    BY <2>1, <2>3, <2>4, ExecutionAssumption
<1>5. QED
  BY <1>3, <1>4

LEMMA CompletedStep ==
  ASSUME IInv, [Next]_vars, NEW n \in Nodes, node[n] = "completed"
  PROVE  node'[n] = "completed"
<1> TypeOK
  BY DEF IInv
<1> USE DEF TypeOK
<1>1. ASSUME NEW expire \in SUBSET ActiveLeases, Tick(expire)
      PROVE  node'[n] = "completed"
  <2>1. ~\E e \in expire : NodeOf(e) = n
    BY CompletedIsSettled DEF ActiveLeases
  <2>2. n \notin Granted
    BY DEF Granted, Leasable
  <2>3. QED
    BY <1>1, <2>1, <2>2, TickEffect
<1>2. ASSUME NEW e \in Exec, lease[e] = "active" \/ Open(e) \/ attempt[e] = "recovering"
      PROVE  NodeOf(e) # n
  BY <1>2, CompletedIsSettled
<1>3. ASSUME NEW e \in Exec, AgentDied(e) \/ InvalidContract(e)
      PROVE  node'[n] = "completed"
  BY <1>2, <1>3, ExecFacts DEF AgentDied, InvalidContract
<1>4. ASSUME NEW e \in Exec, NEW outcome \in {"completed", "failed"}, Open(e),
             AcceptOutcome(e, outcome)
      PROVE  node'[n] = "completed"
  BY <1>2, <1>4, ExecFacts DEF AcceptOutcome
<1>5. ASSUME NEW e \in Exec, TaskStep(e) PROVE node'[n] = "completed"
  <2>1. CASE RecordBaseline(e) \/ BaselineRejected(e) \/ TaskLost(e) \/ Write(e) \/ Stage(e)
    BY <2>1 DEF RecordBaseline, BaselineRejected, TaskLost, Write, Stage, kernel
  <2>2. CASE CaptureFails(e) \/ GateFails(e)
    BY <2>2, <1>3 DEF CaptureFails, GateFails
  <2>3. CASE StartRunner(e)
    BY <2>3, <1>2, ExecFacts DEF StartRunner
  <2>4. CASE RunnerFails(e) \/ Witness(e)
    BY <2>4 DEF RunnerFails, Witness
  <2>5. CASE Finalize(e)
    BY <2>5, <1>4 DEF Finalize, Open, OpenStates
  <2>6. QED
    BY <1>5, <2>1, <2>2, <2>3, <2>4, <2>5 DEF TaskStep
<1>6. ASSUME NEW e \in Exec, DriverStep(e) PROVE node'[n] = "completed"
  <2>1. CASE Dispatch(e) \/ AckDispatch(e)
    BY <2>1 DEF Dispatch, AckDispatch
  <2>2. CASE DeliverRecovery(e)
    BY <2>2, <1>2, ExecFacts DEF DeliverRecovery, CompleteRecovery
  <2>3. CASE ReconcileAttempt(e)
    BY <2>3, <1>4 DEF ReconcileAttempt, Open, OpenStates
  <2>4. CASE ReconcileLease(e) \/ OrphanedLease(e)
    BY <2>4, <1>3 DEF ReconcileLease, OrphanedLease
  <2>5. CASE QuiesceLease(e)
    BY <2>5, <1>3 DEF QuiesceLease
  <2>6. QED
    BY <1>6, <2>1, <2>2, <2>3, <2>4, <2>5 DEF DriverStep
<1>7. CASE Lifecycle
  BY <1>7 DEF Lifecycle, BeginReconcile, ReconcileLocks, EndReconcile, Quiesce, RequestStop,
              CancelTasks, Stopped, Resume, Crash, Restart, kernel
<1>8. CASE UNCHANGED vars
  BY <1>8 DEF vars
<1>9. QED
  BY <1>1, <1>5, <1>6, <1>7, <1>8 DEF Next

(* No expiry, death, stop or recovery reopens a completed node.            *)
THEOREM CompletionIsFinal == Spec => CompletedIsFinal
<1>1. IInv /\ [Next]_vars =>
        [\A n \in Nodes : node[n] = "completed" => node'[n] = "completed"]_vars
  BY CompletedStep
<1>2. QED
  BY <1>1, ExecutionInvariant, PTL DEF Spec, CompletedIsFinal

LEMMA BaselineStep ==
  ASSUME IInv, [Next]_vars, NEW e \in Exec, task[e] \in Working, task'[e] # "none"
  PROVE  tree' \ {e} = tree \ {e}
<1>1. holder = e
  BY DEF IInv, TaskOwnsLock, Working
<1>2. ASSUME NEW expire \in SUBSET ActiveLeases, Tick(expire) PROVE tree' = tree
  BY <1>2 DEF Tick, files
<1>3. ASSUME NEW f \in Exec, TaskStep(f) PROVE tree' \ {e} = tree \ {e}
  <2>1. CASE Write(f)
    <3>1. holder = f
      BY <2>1 DEF IInv, TaskOwnsLock, Write
    <3>2. QED
      BY <1>1, <2>1, <3>1 DEF Write
  <2>2. CASE ~Write(f)
    BY <1>3, <2>2 DEF TaskStep, RecordBaseline, BaselineRejected, CaptureFails, GateFails,
       TaskLost, StartRunner, Stage, RunnerFails, Witness, Finalize, files
  <2>3. QED
    BY <2>1, <2>2
<1>4. ASSUME NEW f \in Exec, DriverStep(f) PROVE tree' = tree
  <2>1. ~DeliverRecovery(f)
    BY <1>1, ExecFacts DEF DeliverRecovery, LockFree
  <2>2. QED
    BY <1>4, <2>1 DEF DriverStep, Dispatch, AckDispatch, ReconcileAttempt, ReconcileLease,
       OrphanedLease, QuiesceLease, files
<1>5. CASE Lifecycle
  <2>1. ~Crash
    BY DEF Crash
  <2>2. QED
    BY <1>5, <2>1 DEF Lifecycle, BeginReconcile, ReconcileLocks, EndReconcile, Quiesce,
       RequestStop, CancelTasks, Stopped, Resume, Restart, files
<1>6. CASE UNCHANGED vars
  BY <1>6 DEF vars
<1>7. QED
  BY <1>2, <1>3, <1>4, <1>5, <1>6 DEF Next

(* From its baseline to its outcome, an execution is alone with the files: *)
(* what it staged, witnessed and recovers is its own delta.                *)
THEOREM BaselineIsStable == Spec => StableBaseline
<1>1. IInv /\ [Next]_vars =>
        [\A e \in Exec : task[e] \in {"captured", "running", "staged", "witnessed"}
           /\ task'[e] # "none"
           => tree' \ {e} = tree \ {e}]_vars
  BY BaselineStep DEF Working
<1>2. QED
  BY <1>1, ExecutionInvariant, PTL DEF Spec, StableBaseline
=============================================================================
