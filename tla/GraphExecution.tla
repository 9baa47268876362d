--------------------------- MODULE GraphExecution ---------------------------
(***************************************************************************)
(* One graph run: the kernel's leases, nodes and execution attempts        *)
(* (graph/_commands.py, graph/commands/boundary.py), the worker tasks that *)
(* share one worktree under one lock, the driver that schedules, delivers  *)
(* and reconciles them (graph_runtime/dispatch.py, recovery.py,            *)
(* workflow/graph_driver.py), and the pause/cancel fence, across crashes.  *)
(*                                                                         *)
(* A kernel command is one serializable append (an action, or part of the  *)
(* action of its only caller); everything between two commands             *)
(* interleaves.  An execution is <<node, k>>: the node's k-th lease, with  *)
(* its execution id and generation.  The worktree is the set of executions *)
(* whose files are in it: every execution writes one path of its own, as   *)
(* the resource claims of two nodes leased together do not overlap.        *)
(***************************************************************************)
EXTENDS Naturals, FiniteSets

CONSTANTS
  Nodes,         (* executable nodes, no edges between them.                *)
  MaxAttempts,   (* a node's max_attempts (3 by default in the code).       *)
  MaxIssue,      (* bound: leases of one node (above MaxAttempts, so that   *)
                 (* exceeding the budget would be seen).                    *)
  SameSecond,    (* whether a tree captured again after a restart may get   *)
                 (* the same commit id: it carries a time in seconds.       *)
  ScanOverflows, (* whether capturing the worktree may exceed a limit.      *)
  MaxExpiries,   (* bound: leases whose heartbeat stops while they run.     *)
  MaxDropped,    (* bound: tasks that end with their attempt still open.    *)
  MaxCrashes     (* bound: process crashes.                                 *)

ASSUME ExecutionAssumption ==
  /\ MaxAttempts \in Nat \ {0} /\ MaxIssue \in Nat
  /\ SameSecond \in BOOLEAN /\ ScanOverflows \in BOOLEAN
  /\ MaxExpiries \in Nat /\ MaxDropped \in Nat /\ MaxCrashes \in Nat
  /\ Nodes # {} /\ IsFiniteSet(Nodes)

Exec == Nodes \X (1..MaxIssue)
NodeOf(e) == e[1]

VARIABLES
  (* Durable: the graph event log's projection, the outbox, the worktree.   *)
  run,       (* lifecycle; "pausing"/"cancelling" is the STOPPING row.      *)
  node,      (* node[n]: state; "expired" is failed by lease expiry,        *)
             (* "refused" is failed by an invalid execution contract.       *)
  tries,     (* tries[n]: attempt_number, 1 at first.                       *)
  issued,    (* issued[n]: leases granted so far.                           *)
  lease,     (* lease[e]: state of the execution's lease.                   *)
  attempt,   (* attempt[e]: state of its managed attempt.                   *)
  after,     (* after[e]: what completing its recovery does to the node.    *)
  row,       (* row[e]: its agent_dispatch outbox row; "sent" once it is    *)
             (* delivered and not yet acknowledged.                         *)
  tree,      (* executions whose files the worktree holds.                  *)
  base,      (* base[e]: the tree its recorded baseline captured.           *)
  staged,    (* staged[e]: the tree its staged submission captured.         *)
  paths,     (* paths[e]: the paths its recovery request names.             *)
  (* Volatile: the orchestrator process.                                    *)
  proc,      (* what the run's driver is doing.                             *)
  task,      (* task[e]: how far its worker task has come.                  *)
  holder,    (* owner of the worktree execution lock.                       *)
  todo,      (* attempts the running reconciliation still has to visit.     *)
  (* Bounds.                                                                *)
  expiries, dropped, crashes

kernel == <<run, node, tries, issued, lease, attempt, after, row>>
files  == <<tree, base, staged, paths>>
local  == <<proc, task, holder, todo>>
bounds == <<expiries, dropped, crashes>>
vars   == <<run, node, tries, issued, lease, attempt, after, row,
            tree, base, staged, paths, proc, task, holder, todo,
            expiries, dropped, crashes>>

RunStates     == {"active", "pausing", "cancelling", "paused", "cancelled", "completed"}
NodeStates    == {"ready", "leased", "running", "blocked", "completed", "failed",
                  "expired", "refused"}
LeaseStates   == {"none", "active", "expired", "revoked", "released"}
OpenStates    == {"captured", "staged", "witnessed"}
AttemptStates == {"none", "recovering", "recovered", "finalized"} \cup OpenStates
Dispositions  == {"retry", "terminal", "leave"}
TaskPhases    == {"none", "queued", "captured", "running", "staged", "witnessed"}
DriverPhases  == {"idle", "redeliver", "reconcile", "drive", "stopping"}

(* Owners of the lock that are no execution (executions count from 1).     *)
Free   == <<"free", 0>>
Driver == <<"driver", 0>>

(* States of nodes, leases and tasks; a node's attempt number never         *)
(* exceeds max_attempts.                                                   *)
TypeOK ==
  /\ run \in RunStates
  /\ node \in [Nodes -> NodeStates]
  /\ tries \in [Nodes -> 1..MaxAttempts]
  /\ issued \in [Nodes -> 0..MaxIssue]
  /\ lease \in [Exec -> LeaseStates]
  /\ attempt \in [Exec -> AttemptStates]
  /\ after \in [Exec -> Dispositions]
  /\ row \in [Exec -> {"none", "pending", "sent", "done"}]
  /\ tree \in SUBSET Exec
  /\ base \in [Exec -> SUBSET Exec]
  /\ staged \in [Exec -> SUBSET Exec]
  /\ paths \in [Exec -> SUBSET Exec]
  /\ proc \in DriverPhases
  /\ task \in [Exec -> TaskPhases]
  /\ holder \in Exec \cup {Free, Driver}
  /\ todo \in SUBSET Exec
  /\ expiries \in Nat /\ dropped \in Nat /\ crashes \in Nat

Init ==
  /\ run = "active"
  /\ node = [n \in Nodes |-> "ready"]
  /\ tries = [n \in Nodes |-> 1]
  /\ issued = [n \in Nodes |-> 0]
  /\ lease = [e \in Exec |-> "none"]
  /\ attempt = [e \in Exec |-> "none"]
  /\ after = [e \in Exec |-> "retry"]
  /\ row = [e \in Exec |-> "none"]
  /\ tree = {}
  /\ base = [e \in Exec |-> {}]
  /\ staged = [e \in Exec |-> {}]
  /\ paths = [e \in Exec |-> {}]
  /\ proc = "drive"
  /\ task = [e \in Exec |-> "none"]
  /\ holder = Free
  /\ todo = {}
  /\ expiries = 0 /\ dropped = 0 /\ crashes = 0

-----------------------------------------------------------------------------
(* Kernel commands several callers issue.                                  *)

Open(e)       == attempt[e] \in OpenStates
Recovering    == \E e \in Exec : attempt[e] = "recovering"
ActiveLeases  == { e \in Exec : lease[e] = "active" }
Stopping      == run \in {"pausing", "cancelling"}
NoTasks       == \A e \in Exec : task[e] = "none"
AllAcked      == \A e \in Exec : row[e] # "sent"   (* one row at a time.    *)
LockIgnored   == TRUE
LockFree      == holder = Free

HasAttemptOffByOne(n) == tries[n] <= MaxAttempts
HasAttempt(n) == tries[n] < MaxAttempts

(* agent_died: an active lease is revoked and its node is parked until a   *)
(* recovery fact arrives, or failed when it has no attempt left.  The      *)
(* execution's attempt is not looked at.  An inactive lease is rejected.   *)
ParkedAsReady(n) == IF HasAttempt(n) THEN "ready" ELSE "failed"
Parked(n)        == IF HasAttempt(n) THEN "blocked" ELSE "failed"

AgentDied(e) ==
  \/ /\ lease[e] = "active"
     /\ lease' = [lease EXCEPT ![e] = "revoked"]
     /\ node' = [node EXCEPT ![NodeOf(e)] = Parked(NodeOf(e))]
  \/ lease[e] # "active" /\ UNCHANGED <<lease, node>>

(* agent_died with the failure class invalid_plan_failure.                 *)
InvalidContract(e) ==
  \/ /\ lease[e] = "active"
     /\ lease' = [lease EXCEPT ![e] = "revoked"]
     /\ node' = [node EXCEPT ![NodeOf(e)] = "refused"]
  \/ lease[e] # "active" /\ UNCHANGED <<lease, node>>

(* derive_recovery_paths: every dirty path whose baseline, staged and      *)
(* current states are not all equal.  Before staging the staged manifest   *)
(* is empty, so every path of the baseline differs from it.                *)
WholeTree(e) == Exec
RecoveryPaths(e) ==
  LET seen == IF attempt[e] = "captured" THEN {} ELSE staged[e]
  IN  (base[e] \cup seen \cup tree) \ (base[e] \cap seen \cap tree)

(* When the tree cannot be captured (the limits of a scan), the request    *)
(* names no path and its scope is full_baseline: everything.               *)
RecoveryScopes(e) ==
  {RecoveryPaths(e)} \cup (IF ScanOverflows THEN {Exec} ELSE {})

(* request_runner_recovery: accepted for an open attempt whatever has      *)
(* become of its lease; rejected otherwise.                                *)
RequestRecovery(e, disposition) ==
  \/ /\ Open(e)
     /\ attempt' = [attempt EXCEPT ![e] = "recovering"]
     /\ after' = [after EXCEPT ![e] = disposition]
     /\ \E scope \in RecoveryScopes(e) : paths' = [paths EXCEPT ![e] = scope]
  \/ ~Open(e) /\ UNCHANGED <<attempt, after, paths>>

(* validate_callback for the mutating callback of an execution.            *)
CallbackAccepted(e) ==
  /\ run # "cancelled"
  /\ \/ lease[e] = "active" /\ node[NodeOf(e)] = "running"
     \/ /\ lease[e] = "expired"
        /\ node[NodeOf(e)] \in {"running", "expired"}
        /\ \A f \in Exec : NodeOf(f) = NodeOf(e) => lease[f] # "active"

(* The accepted outcome of finalize_runner_execution.                      *)
AcceptOutcome(e, outcome) ==
  /\ attempt' = [attempt EXCEPT ![e] = "finalized"]
  /\ lease' = [lease EXCEPT ![e] = "released"]
  /\ node' = [node EXCEPT ![NodeOf(e)] = outcome]

EndTaskKeepingLock(e) ==
  /\ task' = [task EXCEPT ![e] = "none"]
  /\ UNCHANGED holder
EndTask(e) ==
  /\ task' = [task EXCEPT ![e] = "none"]
  /\ holder' = Free

-----------------------------------------------------------------------------
(* The driver's pass: schedule_tick, then dispatch_pending.                *)

(* evaluate_readiness: a ready node without an active lease.               *)
LeasableWhileLeased(n)  == node[n] \in {"ready", "leased"} /\ issued[n] < MaxIssue
LeasableAfterFailure(n) == node[n] \in {"ready", "failed"} /\ issued[n] < MaxIssue
Leasable(n) ==
  /\ node[n] = "ready" /\ issued[n] < MaxIssue
  /\ \A e \in ActiveLeases : NodeOf(e) # n

(* The tick does nothing while any recovery is pending; otherwise leases   *)
(* that ran out (expire) fail their nodes and every eligible node is       *)
(* leased, each with a fresh execution and a dispatch row.                 *)
Tick(expire) ==
  LET granted == { n \in Nodes : Leasable(n) }
      new     == { <<n, issued[n] + 1>> : n \in granted }
      lost    == { NodeOf(e) : e \in expire }
  IN  /\ proc = "drive" /\ run = "active" /\ AllAcked
      /\ ~Recovering
      /\ expire \subseteq ActiveLeases
      /\ expiries + Cardinality(expire) <= MaxExpiries
      /\ granted # {} \/ expire # {}
      /\ lease' = [e \in Exec |-> IF e \in expire THEN "expired"
                                  ELSE IF e \in new THEN "active" ELSE lease[e]]
      /\ node' = [n \in Nodes |-> IF n \in lost THEN "expired"
                                  ELSE IF n \in granted THEN "leased" ELSE node[n]]
      /\ issued' = [n \in Nodes |-> IF n \in granted THEN issued[n] + 1 ELSE issued[n]]
      /\ row' = [e \in Exec |-> IF e \in new THEN "pending" ELSE row[e]]
      /\ expiries' = expiries + Cardinality(expire)
      /\ UNCHANGED <<run, tries, attempt, after, files, local, dropped, crashes>>

(* GraphDispatchExecutor.dispatch of an agent_dispatch row: a task is      *)
(* created unless the execution already runs or has been settled.          *)
Dispatch(e) ==
  /\ proc \in {"redeliver", "drive"} /\ run = "active"
  /\ row[e] = "pending" /\ AllAcked
  /\ row' = [row EXCEPT ![e] = "sent"]
  /\ \/ /\ task[e] = "none"
        /\ attempt[e] \notin {"recovering", "recovered", "finalized"}
        /\ task' = [task EXCEPT ![e] = "queued"]
     \/ /\ task[e] # "none" \/ attempt[e] \in {"recovering", "recovered", "finalized"}
        /\ UNCHANGED task
  /\ UNCHANGED <<run, node, tries, issued, lease, attempt, after, files,
                 proc, holder, todo, bounds>>

(* The outbox acknowledges the row.                                        *)
AckDispatch(e) ==
  /\ proc \in {"redeliver", "drive"}
  /\ row[e] = "sent"
  /\ row' = [row EXCEPT ![e] = "done"]
  /\ UNCHANGED <<run, node, tries, issued, lease, attempt, after, files, local, bounds>>

-----------------------------------------------------------------------------
(* A worker task, from the lock to its end.                                *)

(* The lock is taken, the tree captured and record_runner_baseline         *)
(* accepted: a first baseline under an active lease, or an identical one.  *)
RecordBaseline(e) ==
  /\ task[e] = "queued" /\ LockFree
  /\ \/ attempt[e] = "none" /\ lease[e] = "active"
     \/ attempt[e] = "captured" /\ base[e] = tree /\ SameSecond
  /\ holder' = e
  /\ task' = [task EXCEPT ![e] = "captured"]
  /\ attempt' = [attempt EXCEPT ![e] = "captured"]
  /\ base' = [base EXCEPT ![e] = tree]
  /\ UNCHANGED <<run, node, tries, issued, lease, after, row, tree, staged, paths,
                 proc, todo, bounds>>

(* record_runner_baseline is rejected, as it usually is for an execution   *)
(* that has a baseline already: the task dies with an exception nobody     *)
(* handles and the lock is released.                                       *)
BaselineRejected(e) ==
  /\ task[e] = "queued" /\ LockFree
  /\ attempt[e] = "none" => lease[e] # "active"
  /\ task' = [task EXCEPT ![e] = "none"]
  /\ UNCHANGED <<kernel, files, proc, holder, todo, bounds>>

(* Capturing the tree exceeds a limit: agent_died, there is no attempt.    *)
CaptureFails(e) ==
  /\ task[e] = "queued" /\ LockFree
  /\ ScanOverflows
  /\ AgentDied(e)
  /\ task' = [task EXCEPT ![e] = "none"]
  /\ UNCHANGED <<run, tries, issued, attempt, after, row, files,
                 proc, holder, todo, bounds>>

(* The submission gate's own baseline fails, or the contract is invalid:   *)
(* the lease is closed by agent_died and the attempt stays captured.       *)
GateFails(e) ==
  /\ task[e] = "captured"
  /\ dropped < MaxDropped /\ dropped' = dropped + 1
  /\ AgentDied(e) \/ InvalidContract(e)
  /\ EndTask(e)
  /\ UNCHANGED <<run, tries, issued, attempt, after, row, files,
                 proc, todo, expiries, crashes>>

(* The task ends with an exception no handler turns into a recovery        *)
(* request: the snapshot ref cannot be published, the file state is        *)
(* compromised, or the request itself fails.                               *)
TaskLost(e) ==
  /\ task[e] \in {"captured", "running", "staged", "witnessed"}
  /\ dropped < MaxDropped /\ dropped' = dropped + 1
  /\ EndTask(e)
  /\ UNCHANGED <<kernel, files, proc, todo, expiries, crashes>>

(* acknowledge_start, then the start heartbeat, which is refused when the  *)
(* lease is gone; the refusal ends the execution.                          *)
StartRunner(e) ==
  /\ task[e] = "captured"
  /\ \/ /\ lease[e] = "active"
        /\ node' = [node EXCEPT ![NodeOf(e)] = "running"]
        /\ task' = [task EXCEPT ![e] = "running"]
        /\ UNCHANGED <<attempt, after, paths, holder>>
     \/ /\ lease[e] # "active"
        /\ RequestRecovery(e, "retry")
        /\ EndTask(e)
        /\ UNCHANGED node
  /\ UNCHANGED <<run, tries, issued, lease, row, tree, base, staged, proc, todo, bounds>>

(* The runner changes its file, possibly after it has submitted.           *)
Write(e) ==
  /\ task[e] \in {"running", "staged"}
  /\ e \notin tree
  /\ tree' = tree \cup {e}
  /\ UNCHANGED <<kernel, base, staged, paths, local, bounds>>

(* on_submit: stage_runner_submission captures the tree.                   *)
Stage(e) ==
  /\ task[e] = "running" /\ attempt[e] = "captured"
  /\ CallbackAccepted(e)
  /\ attempt' = [attempt EXCEPT ![e] = "staged"]
  /\ staged' = [staged EXCEPT ![e] = tree]
  /\ task' = [task EXCEPT ![e] = "staged"]
  /\ UNCHANGED <<run, node, tries, issued, lease, after, row, tree, base, paths,
                 proc, holder, todo, bounds>>

(* The runner fails, or exits without an accepted submission.              *)
RunnerFails(e) ==
  /\ task[e] \in {"running", "staged"}
  /\ \E d \in {"retry", "terminal"} : RequestRecovery(e, d)
  /\ EndTask(e)
  /\ UNCHANGED <<run, node, tries, issued, lease, row, tree, base, staged,
                 proc, todo, bounds>>

(* record_runner_completion captures the tree again: it must be what was   *)
(* staged, or the same command requests recovery (boundary_mismatch).      *)
Witness(e) ==
  /\ task[e] = "staged" /\ attempt[e] = "staged"
  /\ \/ /\ staged[e] = tree
        /\ attempt' = [attempt EXCEPT ![e] = "witnessed"]
        /\ task' = [task EXCEPT ![e] = "witnessed"]
        /\ UNCHANGED <<after, paths, holder>>
     \/ /\ staged[e] # tree
        /\ RequestRecovery(e, "retry")
        /\ EndTask(e)
  /\ UNCHANGED <<run, node, tries, issued, lease, row, tree, base, staged,
                 proc, todo, bounds>>

(* finalize_runner_execution publishes the outcome and releases the lease, *)
(* or its rejection makes the task request recovery.                       *)
Finalize(e) ==
  /\ task[e] = "witnessed"
  /\ \/ /\ attempt[e] = "witnessed" /\ CallbackAccepted(e)
        /\ \E outcome \in {"completed", "failed"} : AcceptOutcome(e, outcome)
        /\ UNCHANGED <<after, paths>>
     \/ /\ attempt[e] # "witnessed" \/ ~CallbackAccepted(e)
        /\ RequestRecovery(e, "retry")
        /\ UNCHANGED <<lease, node>>
  /\ EndTask(e)
  /\ UNCHANGED <<run, tries, issued, row, tree, base, staged, proc, todo, bounds>>

-----------------------------------------------------------------------------
(* Recovery and reconciliation.                                            *)

(* The named paths take the state they have in the baseline.               *)
Restored(e) == (tree \ paths[e]) \cup (base[e] \cap paths[e])

NextAttempt(n) == tries[n] + 1

(* complete_runner_recovery: the lease is revoked whatever its state and   *)
(* the disposition decides about the node.                                 *)
CompleteRecovery(e) ==
  LET n == NodeOf(e)
  IN  /\ attempt' = [attempt EXCEPT ![e] = "recovered"]
      /\ lease' = [lease EXCEPT ![e] = "revoked"]
      /\ \/ /\ after[e] = "retry" /\ HasAttempt(n)
            /\ node' = [node EXCEPT ![n] = "ready"]
            /\ tries' = [tries EXCEPT ![n] = NextAttempt(n)]
         \/ /\ after[e] = "terminal" \/ (after[e] = "retry" /\ ~HasAttempt(n))
            /\ node' = [node EXCEPT ![n] = "failed"]
            /\ UNCHANGED tries
         \/ after[e] = "leave" /\ UNCHANGED <<node, tries>>

(* The facts of a recovered attempt are read no more.                      *)
Forget(e) ==
  /\ after' = [after EXCEPT ![e] = "retry"]
  /\ base' = [base EXCEPT ![e] = {}]
  /\ staged' = [staged EXCEPT ![e] = {}]
  /\ paths' = [paths EXCEPT ![e] = {}]

(* When the driver or the stop consumer delivers recovery rows.            *)
DeliveringUntilStop == proc \in {"redeliver", "drive"}
Delivering ==
  \/ proc \in {"redeliver", "drive", "stopping"}
  \/ proc = "reconcile" /\ todo = {}

(* Delivery of a runner_recovery row, under the worktree lock.             *)
DeliverRecovery(e) ==
  /\ Delivering
  /\ AllAcked
  /\ LockFree
  /\ attempt[e] = "recovering"
  /\ tree' = Restored(e)
  /\ CompleteRecovery(e)
  /\ Forget(e)
  /\ UNCHANGED <<run, issued, row, local, bounds>>

(* recover() has delivered every pending row; reconcile_execution_attempts *)
(* takes the open attempts no task of this process owns.                   *)
BeginReconcile ==
  /\ proc = "redeliver" /\ run = "active"
  /\ \A e \in Exec : row[e] \notin {"pending", "sent"} /\ attempt[e] # "recovering"
  /\ proc' = "reconcile"
  /\ todo' = { e \in Exec : Open(e) /\ task[e] = "none" }
  /\ UNCHANGED <<kernel, files, task, holder, bounds>>

ReconcileLocks ==
  /\ proc = "reconcile" /\ todo # {} /\ LockFree
  /\ holder' = Driver
  /\ UNCHANGED <<kernel, files, proc, task, todo, bounds>>

(* One attempt: a witnessed one is finalized if that is still accepted,    *)
(* any other goes to recovery as runner_died.  The lock is held throughout.*)
ReconcileAttempt(e) ==
  /\ proc = "reconcile" /\ holder = Driver /\ e \in todo
  /\ \/ /\ attempt[e] = "witnessed" /\ CallbackAccepted(e)
        /\ \E outcome \in {"completed", "failed"} : AcceptOutcome(e, outcome)
        /\ UNCHANGED <<after, paths>>
     \/ /\ attempt[e] # "witnessed" \/ ~CallbackAccepted(e)
        /\ RequestRecovery(e, "retry")
        /\ UNCHANGED <<lease, node>>
  /\ todo' = todo \ {e}
  /\ holder' = IF todo = {e} THEN Free ELSE Driver
  /\ UNCHANGED <<run, tries, issued, row, tree, base, staged, proc, task, bounds>>

(* reconcile_runtime: an active lease with no attempt and no task died.    *)
ReconcileLease(e) ==
  /\ proc = "reconcile" /\ todo = {}
  /\ lease[e] = "active" /\ attempt[e] = "none" /\ task[e] = "none"
  /\ AgentDied(e)
  /\ UNCHANGED <<run, tries, issued, attempt, after, row, files, local, bounds>>

EndReconcile ==
  /\ proc = "reconcile" /\ todo = {}
  /\ \A e \in ActiveLeases : attempt[e] # "none" \/ task[e] # "none"
  /\ proc' = "drive"
  /\ UNCHANGED <<kernel, files, task, holder, todo, bounds>>

(* _recover_orphaned_active_leases: after a pass that changed nothing, a   *)
(* lease that was dispatched and whose task is gone died.  A recovery that *)
(* is pending would have been delivered by that pass.                      *)
OrphanBeforeStart(e) ==
  /\ lease[e] = "active" /\ row[e] = "done" /\ task[e] = "none"
  /\ node[NodeOf(e)] = "leased" /\ attempt[e] # "recovering"
Orphan(e) ==
  /\ lease[e] = "active" /\ row[e] = "done" /\ task[e] = "none"
  /\ node[NodeOf(e)] \in {"leased", "running"} /\ attempt[e] # "recovering"

OrphanedLease(e) ==
  /\ proc = "drive" /\ run = "active" /\ AllAcked
  /\ Orphan(e)
  /\ AgentDied(e)
  /\ UNCHANGED <<run, tries, issued, attempt, after, row, files, local, bounds>>

-----------------------------------------------------------------------------
(* Lifecycle: the end of a run, the pause/cancel fence, crash and restart. *)

DrainedButRecovering == NoTasks /\ ActiveLeases = {}
DrainedOfAttempts ==
  /\ NoTasks /\ ActiveLeases = {} /\ ~Recovering /\ \A e \in Exec : ~Open(e)
Drained ==
  /\ NoTasks /\ ActiveLeases = {} /\ ~Recovering

(* drive_to_quiescence returns: the run completes, or pauses graph_blocked.*)
Quiesce ==
  /\ proc = "drive" /\ run = "active" /\ AllAcked
  /\ Drained
  /\ \A n \in Nodes : node[n] = "ready" => issued[n] >= MaxIssue
  /\ \/ (\A n \in Nodes : node[n] = "completed") /\ run' = "completed"
     \/ (\E n \in Nodes : node[n] # "completed") /\ run' = "paused"
  /\ proc' = "idle"
  /\ UNCHANGED <<node, tries, issued, lease, attempt, after, row, files,
                 task, holder, todo, bounds>>

(* A row delivered and not acknowledged is delivered again later.          *)
Unacked == [e \in Exec |-> IF row[e] = "sent" THEN "pending" ELSE row[e]]

(* An operator's pause or cancel: the row goes to STOPPING and the signal  *)
(* consumer cancels the driver.                                            *)
RequestStop ==
  /\ run = "active" /\ proc # "idle"
  /\ run' \in {"pausing", "cancelling"}
  /\ proc' = "stopping"
  /\ holder' = IF holder = Driver THEN Free ELSE holder
  /\ todo' = {}
  /\ row' = Unacked
  /\ UNCHANGED <<node, tries, issued, lease, attempt, after, files, task, bounds>>

StopDisposition == IF run = "pausing" THEN "retry" ELSE "leave"

(* The registry cancels and awaits every task.  One that runs its agent    *)
(* requests recovery before it dies; a queued or starting one just dies.   *)
CancelTasks ==
  /\ proc = "stopping" /\ ~NoTasks
  /\ \/ /\ holder \in Exec /\ task[holder] \in {"running", "staged", "witnessed"}
        /\ RequestRecovery(holder, StopDisposition)
     \/ /\ \A e \in Exec : task[e] \notin {"running", "staged", "witnessed"}
        /\ UNCHANGED <<attempt, after, paths>>
  /\ task' = [e \in Exec |-> "none"]
  /\ holder' = Free
  /\ UNCHANGED <<run, node, tries, issued, lease, row, tree, base, staged,
                 proc, todo, bounds>>

(* request_run_quiescence_recovery, for each lease still active.           *)
QuiesceLease(e) ==
  /\ proc = "stopping" /\ NoTasks
  /\ lease[e] = "active"
  /\ \/ /\ Open(e) /\ RequestRecovery(e, StopDisposition)
        /\ UNCHANGED <<lease, node>>
     \/ /\ attempt[e] = "none" /\ AgentDied(e)
        /\ UNCHANGED <<attempt, after, paths>>
  /\ UNCHANGED <<run, tries, issued, row, tree, base, staged, local, bounds>>

(* The fence holds: no owner, no active lease, nothing left to deliver.    *)
Stopped ==
  /\ proc = "stopping"
  /\ Drained
  /\ run' = IF run = "pausing" THEN "paused" ELSE "cancelled"
  /\ proc' = "idle"
  /\ UNCHANGED <<node, tries, issued, lease, attempt, after, row, files,
                 task, holder, todo, bounds>>

Resume ==
  /\ run = "paused" /\ proc = "idle"
  /\ run' = "active"
  /\ proc' = "redeliver"
  /\ UNCHANGED <<node, tries, issued, lease, attempt, after, row, files,
                 task, holder, todo, bounds>>

(* The process dies, possibly between a restore and its completion.        *)
Crash ==
  /\ proc # "idle"
  /\ crashes < MaxCrashes /\ crashes' = crashes + 1
  /\ tree' \in {tree} \cup { Restored(e) : e \in { f \in Exec : /\ LockFree
                                                      /\ attempt[f] = "recovering" } }
  /\ row' = Unacked
  /\ proc' = "idle"
  /\ task' = [e \in Exec |-> "none"]
  /\ holder' = Free
  /\ todo' = {}
  /\ UNCHANGED <<run, node, tries, issued, lease, attempt, after, base, staged, paths,
                 expiries, dropped>>

(* The server starts again: the driver is armed, or the stop signal, not   *)
(* yet processed, is.                                                      *)
Restart ==
  /\ proc = "idle"
  /\ \/ run = "active" /\ proc' = "redeliver"
     \/ Stopping /\ proc' = "stopping"
  /\ UNCHANGED <<kernel, files, task, holder, todo, bounds>>

TaskStep(e) ==
  \/ RecordBaseline(e) \/ BaselineRejected(e) \/ CaptureFails(e) \/ GateFails(e)
  \/ TaskLost(e) \/ StartRunner(e) \/ Write(e) \/ Stage(e) \/ RunnerFails(e)
  \/ Witness(e) \/ Finalize(e)

DriverStep(e) ==
  \/ Dispatch(e) \/ AckDispatch(e) \/ DeliverRecovery(e) \/ ReconcileAttempt(e)
  \/ ReconcileLease(e) \/ OrphanedLease(e) \/ QuiesceLease(e)

Lifecycle ==
  \/ BeginReconcile \/ ReconcileLocks \/ EndReconcile \/ Quiesce \/ RequestStop
  \/ CancelTasks \/ Stopped \/ Resume \/ Crash \/ Restart

Next ==
  \/ \E expire \in SUBSET ActiveLeases : Tick(expire)
  \/ \E e \in Exec : TaskStep(e) \/ DriverStep(e)
  \/ Lifecycle

Spec == Init /\ [][Next]_vars

(* The driver's loop, the worker tasks and the stop consumer are coroutines *)
(* the event loop resumes for as long as the process lives; asyncio.Lock   *)
(* serves its waiters in order (SF); a runner ends, one way or another.    *)
(* Nothing forces a write, an expiry, a stop, a resume or a crash.         *)
TakeLock(e)   == RecordBaseline(e) \/ BaselineRejected(e) \/ CaptureFails(e)
RunnerEnds(e) == Stage(e) \/ RunnerFails(e)
FairTask(e) ==
  /\ SF_vars(TakeLock(e)) /\ WF_vars(StartRunner(e)) /\ WF_vars(RunnerEnds(e))
  /\ WF_vars(Witness(e)) /\ WF_vars(Finalize(e))
FairDriver(e) ==
  /\ WF_vars(Dispatch(e)) /\ WF_vars(AckDispatch(e)) /\ SF_vars(DeliverRecovery(e))
  /\ WF_vars(ReconcileAttempt(e)) /\ WF_vars(ReconcileLease(e))
  /\ WF_vars(OrphanedLease(e)) /\ WF_vars(QuiesceLease(e))
FairLifecycle ==
  /\ WF_vars(Tick({})) /\ WF_vars(BeginReconcile) /\ SF_vars(ReconcileLocks)
  /\ WF_vars(EndReconcile) /\ WF_vars(Quiesce) /\ WF_vars(CancelTasks)
  /\ WF_vars(Stopped) /\ WF_vars(Restart)

FairSpec == Spec /\ FairLifecycle /\ \A e \in Exec : FairTask(e) /\ FairDriver(e)
-----------------------------------------------------------------------------
(* Safety.                                                                 *)

(* A node is never leased to two executions at once (schedule_tick against *)
(* expiry, agent_died, recovery and late completion).                      *)
ExclusiveLease ==
  \A e, f \in ActiveLeases : NodeOf(e) = NodeOf(f) => e = f

(* A node is leased again only after the recovery of every earlier         *)
(* execution has completed and revoked its lease: a retry never overlaps   *)
(* the cleanup of what it retries.                                         *)
RecoveryBeforeRetry ==
  \A e, f \in Exec :
    /\ NodeOf(e) = NodeOf(f) /\ e[2] < f[2] /\ lease[f] # "none"
    => attempt[e] = "recovered" /\ lease[e] = "revoked"

(* At most one execution of a node has its outcome published, and a node   *)
(* is completed by such an outcome only.                                   *)
AcceptedOnce ==
  /\ \A e, f \in Exec :
       /\ NodeOf(e) = NodeOf(f)
       /\ attempt[e] = "finalized" /\ attempt[f] = "finalized"
       => e = f
  /\ \A n \in Nodes : node[n] = "completed" =>
       \E e \in Exec : NodeOf(e) = n /\ attempt[e] = "finalized"

(* A node is never leased more often than its attempt number says, which   *)
(* TypeOK bounds by max_attempts: retries end, whatever path they take.    *)
AttemptBudget ==
  \A n \in Nodes : issued[n] <= tries[n]

(* A leased or running node has an active lease someone will resolve, or   *)
(* the run is being cancelled: no path strands a node without an owner.    *)
NodeHasOwner ==
  \A n \in Nodes : node[n] \in {"leased", "running"} =>
    \/ \E e \in ActiveLeases : NodeOf(e) = n
    \/ run \in {"cancelling", "cancelled"}

(* A paused, cancelled or completed run has no worker task, no active      *)
(* lease and no pending recovery: the boundary is shown after quiescence.  *)
LifecycleIsQuiet ==
  run \in {"paused", "cancelled", "completed"} =>
    /\ \A e \in Exec : task[e] = "none" /\ lease[e] # "active"
    /\ \A e \in Exec : attempt[e] # "recovering"

(* While an execution owns the worktree, from its baseline to its outcome, *)
(* no step of anybody else changes a file.                                 *)
StableBaseline ==
  [][\A e \in Exec : task[e] \in {"captured", "running", "staged", "witnessed"}
       /\ task'[e] # "none"
       => tree' \ {e} = tree \ {e}]_vars

(* A completed node stays completed: no late expiry, death or recovery of  *)
(* an execution reopens work that was accepted.                            *)
CompletedIsFinal ==
  [][\A n \in Nodes : node[n] = "completed" => node'[n] = "completed"]_vars

(* The files of an execution whose outcome was published stay in the       *)
(* worktree: recoveries of others do not touch them.                       *)
AcceptedWorkSurvives ==
  \A e \in Exec : attempt[e] = "finalized" /\ e \in staged[e] => e \in tree

(* That much holds of the code while no task ends with its attempt open,   *)
(* no process dies and every scan of the worktree stays within its limits, *)
(* whatever expiries, refusals, stops and resumes come between.            *)
UndisturbedWorkSurvives ==
  dropped = 0 /\ crashes = 0 /\ ~ScanOverflows => AcceptedWorkSurvives

(* The recovery of an execution removes the files it created, for good.    *)
(* It does not hold: a baseline may have captured them (see the README).   *)
RecoveredLeavesNothing ==
  \A e \in Exec : attempt[e] = "recovered" => e \notin tree

(* A node failed by an invalid execution contract is not run again.  It    *)
(* does not hold: its attempt is recovered as a retry (see the README).    *)
RefusalIsTerminal ==
  [][\A n \in Nodes : node[n] = "refused" => node'[n] = "refused"]_vars

-----------------------------------------------------------------------------
(* Liveness, under FairSpec.                                               *)

(* A requested recovery is delivered and completed, whoever asked for it   *)
(* and whatever happens to the run meanwhile: pause, cancel or crash.      *)
RecoveryCompletes ==
  \A e \in Exec : attempt[e] = "recovering" ~> attempt[e] = "recovered"

(* A lease never stays active for ever: its outcome, its recovery, its     *)
(* orphan scan or a stop ends it, and its node is free to go on.           *)
LeaseResolved ==
  \A e \in Exec : lease[e] = "active" ~> lease[e] # "active"

(* A pause or a cancel takes effect: the fence cannot wait for ever on a   *)
(* lease, an attempt or a recovery nobody resolves.                        *)
StopTakesEffect ==
  Stopping ~> ~Stopping
=============================================================================
