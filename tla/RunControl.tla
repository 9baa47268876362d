----------------------------- MODULE RunControl -----------------------------
(***************************************************************************)
(* Who decides about one graph run: the run row and the durable signal     *)
(* queue (workflow/service.py, workflow/signals), the consumer that        *)
(* applies signals behind the quiescence fence, the driver task            *)
(* (workflow/graph_driver.py), the liveness reconciler, start-up recovery  *)
(* and graceful shutdown (api/app.py), across crashes.                     *)
(*                                                                         *)
(* Every apply_* of the service reads the row in one statement and writes  *)
(* it in a later one that does not look at it again, and commits by        *)
(* itself; so a read and its write are two steps here, and so are a commit *)
(* and the next one.  The kernel is its lifecycle state and whether it has *)
(* an active lease; what happens below that is GraphExecution.             *)
(***************************************************************************)
EXTENDS Naturals, Sequences, FiniteSets

CONSTANTS
  Clients,      (* concurrent API requests.                                *)
  Kinds,        (* what they may ask for.                                  *)
  MaxAttempts,  (* graph_reconcile_max_attempts (3 in the code).           *)
  MaxRequests,  (* bound: API requests that pass their checks.             *)
  MaxMishaps    (* bound: crashes, shutdowns, and failed steps together.   *)

ASSUME ControlAssumption ==
  /\ Kinds \subseteq {"start", "pause", "cancel", "resume", "recover"}
  /\ Clients \cap {"consumer", "driver", "reconciler", "boot", "halt"} = {}
  /\ MaxAttempts \in Nat /\ MaxRequests \in Nat
  /\ MaxMishaps \in Nat

VARIABLES
  (* Durable.                                                              *)
  status,    (* runs.status                                                *)
  reason,    (* runs.pause_reason                                          *)
  kernel,    (* lifecycle state in the graph log; "none" at position 0.    *)
  leased,    (* the kernel has an active lease.                            *)
  receipt,   (* the finalization commit is recorded.                       *)
  signals,   (* signals enqueued and not marked processed, oldest first.   *)
  attempts,  (* no_progress_attempts of the reconciler.                    *)
  moved,     (* the kernel changed since the reconciler looked last.       *)
  (* The server process.                                                   *)
  server,    (* "up", or "stopping" in SignalConsumer.stop.                *)
  pc,        (* pc[p]: the next step of p.                                 *)
  want,      (* want[p]: what p is working for: a signal, an outcome.      *)
  blocked,   (* the run is in _graph_admission_blocked.                    *)
  lock,      (* holder of the run's quiescence lock.                       *)
  (* Bounds and history.                                                   *)
  requests, mishaps,
  proved,    (* the fence was proved and nobody lifted it since.           *)
  resumed    (* the row was resumed after the kernel last failed.          *)

Procs == Clients \cup {"consumer", "driver", "reconciler", "boot", "halt"}

row    == <<status, reason>>
graph  == <<kernel, leased, moved>>
fence  == <<blocked, lock>>
bounds == <<requests, mishaps>>
history == <<proved, resumed>>
vars   == <<row, graph, receipt, signals, attempts, server, pc, want, fence, bounds, history>>

Statuses == {"draft", "active", "stopping", "paused", "completed", "failed", "cancelled"}
Terminal == {"completed", "failed", "cancelled"}
Kernel   == {"none", "draft", "queued", "active", "failed", "resuming", "completed",
             "cancelling", "cancelled"}
Signals  == {"start", "pause", "cancel", "resume"}
Reasons  == {"none", "requested", "signalled", "quiescence_failed", "server_shutdown",
             "operator_reopen", "driver", "recovered", "unavailable"}
Labels   == {"idle", "recovering", "stop", "enqueue",
             "next", "start", "starting", "resume", "resuming", "mark",
             "arm", "admit", "create", "boot",
             "block", "lock", "drain", "prove", "proved", "unproved", "recording",
             "pausing", "cancel", "cancelling", "leases",
             "seed", "accept", "begin", "reopen", "clear", "clearing", "recover",
             "turn", "work", "wait", "final", "commit", "complete", "completing",
             "fail", "failing", "pause", "crash"}

(* Statuses, lifecycle states, signals and coroutine steps; the attempts   *)
(* of the reconciler never exceed graph_reconcile_max_attempts.            *)
TypeOK ==
  /\ status \in Statuses /\ reason \in Reasons
  /\ kernel \in Kernel /\ leased \in BOOLEAN /\ receipt \in BOOLEAN /\ moved \in BOOLEAN
  /\ signals \in Seq(Signals)
  /\ attempts \in 0..MaxAttempts
  /\ server \in {"up", "stopping"}
  /\ pc \in [Procs -> Labels]
  /\ want \in [Procs -> Signals \cup {"none", "completed", "failed", "blocked", "recover"}]
  /\ blocked \in BOOLEAN /\ lock \in {"free", "consumer", "reconciler", "halt"}
  /\ requests \in 0..MaxRequests /\ mishaps \in 0..MaxMishaps
  /\ proved \in BOOLEAN /\ resumed \in BOOLEAN

Init ==
  /\ status = "draft" /\ reason = "none"
  /\ kernel = "none" /\ leased = FALSE /\ moved = FALSE
  /\ receipt = FALSE /\ signals = << >> /\ attempts = 0
  /\ server = "up"
  /\ pc = [p \in Procs |-> "idle"] /\ want = [p \in Procs |-> "none"]
  /\ blocked = FALSE /\ lock = "free"
  /\ requests = 0 /\ mishaps = 0
  /\ proved = FALSE /\ resumed = FALSE

-----------------------------------------------------------------------------
Goto(p, label) == pc' = [pc EXCEPT ![p] = label]
At(p, label)   == pc[p] = label
Owned          == ~At("driver", "idle")   (* graph_driver_ownership.owned  *)

(* RunStatusChanged: status and pause reason are overwritten.              *)
SetRow(s, r) == status' = s /\ reason' = r

SetKernel(k, l) == kernel' = k /\ leased' = l /\ moved' = TRUE

(* A crash, a shutdown, an exception, a lost runner.                       *)
Mishap == mishaps < MaxMishaps /\ mishaps' = mishaps + 1

(* The steps that only move a process on, after it read the row.           *)
Only(p, label) ==
  /\ Goto(p, label)
  /\ UNCHANGED <<row, graph, receipt, signals, attempts, server, want, fence, bounds, history>>

-----------------------------------------------------------------------------
(* API requests: the route refuses a STOPPING row, the service checks the  *)
(* status it read, and commits STOPPING and the signal one after the other.*)
Accepts(k) ==
  CASE k = "start"   -> status = "draft"
    [] k = "pause"   -> status = "active"
    [] k = "cancel"  -> status \in {"active", "paused"}
    [] k = "resume"  -> status \in {"paused", "failed"}
    [] k = "recover" -> status \in {"paused", "failed"}

Request(c, k) ==
  /\ At(c, "idle") /\ server = "up" /\ requests < MaxRequests
  /\ Accepts(k)
  /\ requests' = requests + 1
  /\ want' = [want EXCEPT ![c] = k]
  /\ Goto(c, CASE k = "recover" -> "recovering"
               [] status = "active" -> "stop"
               [] OTHER -> "enqueue")
  /\ UNCHANGED <<row, graph, receipt, signals, attempts, server, fence, mishaps, history>>

(* apply_stop_run, by a request, the reconciler or a crashed driver.       *)
Stop(p) ==
  /\ At(p, "stop")
  /\ SetRow("stopping", "requested")
  /\ Goto(p, "enqueue")
  /\ UNCHANGED <<graph, receipt, signals, attempts, server, want, fence, bounds, history>>

(* SignalQueue.enqueue refuses a terminal run, except for a resume.        *)
Enqueue(p) ==
  /\ At(p, "enqueue")
  /\ signals' = IF status \in Terminal /\ want[p] # "resume" THEN signals
                ELSE Append(signals, want[p])
  /\ want' = [want EXCEPT ![p] = "none"]
  /\ Goto(p, "idle")
  /\ UNCHANGED <<row, graph, receipt, attempts, server, fence, bounds, history>>

(* recover_run parks the row; the kernel stays as it is.                   *)
Recover(c) ==
  /\ At(c, "recovering")
  /\ SetRow("paused", "recovered")
  /\ want' = [want EXCEPT ![c] = "none"]
  /\ Goto(c, "idle")
  /\ UNCHANGED <<graph, receipt, signals, attempts, server, fence, bounds, history>>

-----------------------------------------------------------------------------
(* The consumer: one task per run, in the order of the queue.              *)
First(k) ==
  CASE k = "start" -> "start" [] k = "resume" -> "resume" [] OTHER -> "block"

FetchNextSignal ==
  /\ At("consumer", "next") \/ (At("consumer", "idle") /\ server = "up")
  /\ IF signals = << >>
     THEN At("consumer", "next") /\ Goto("consumer", "idle") /\ UNCHANGED want
     ELSE /\ want' = [want EXCEPT !["consumer"] = Head(signals)]
          /\ Goto("consumer", First(Head(signals)))
  /\ UNCHANGED <<row, graph, receipt, signals, attempts, server, fence, bounds, history>>

(* SignalProcessed is a commit of its own, after what the handler did.     *)
MarkProcessed ==
  /\ At("consumer", "mark")
  /\ signals' = Tail(signals)
  /\ want' = [want EXCEPT !["consumer"] = "none"]
  /\ Goto("consumer", "next")
  /\ UNCHANGED <<row, graph, receipt, attempts, server, fence, bounds, history>>

ReadForStart ==
  /\ At("consumer", "start")
  /\ Only("consumer", IF status = "draft" THEN "starting" ELSE "mark")

ApplyStart ==
  /\ At("consumer", "starting")
  /\ SetRow("active", "none")
  /\ Goto("consumer", "admit")
  /\ UNCHANGED <<graph, receipt, signals, attempts, server, want, fence, bounds, history>>

(* An active run is armed as it is; other states than these are stale.     *)
ReadForResume ==
  /\ At("consumer", "resume")
  /\ Only("consumer", CASE status = "active" -> "arm"
                        [] status \in {"paused", "failed"} -> "resuming"
                        [] OTHER -> "mark")

Marker == IF kernel \in {"failed", "resuming"} THEN "operator_reopen" ELSE "none"

ApplyResume ==
  /\ At("consumer", "resuming")
  /\ SetRow("active", Marker)
  /\ resumed' = TRUE
  /\ Goto("consumer", "admit")
  /\ UNCHANGED <<graph, receipt, signals, attempts, server, want, fence, bounds, proved>>

(* GraphReadModelUnavailable while resuming: the run stays paused.         *)
ResumeUnavailable ==
  /\ At("consumer", "resuming") /\ Mishap
  /\ reason' = IF status = "paused" THEN "unavailable" ELSE reason
  /\ Goto("consumer", "mark")
  /\ UNCHANGED <<status, graph, receipt, signals, attempts, server, want, fence,
                 requests, history>>

(* arm_graph_run reads the row and then, without a pause, checks the fence *)
(* again and starts the driver unless there is one.  "admit" lifts the     *)
(* fence first.                                                            *)
ArmLabels == {"arm", "admit"}
AfterArm(p) == IF p = "consumer" THEN "mark" ELSE "idle"

ReadForArm(p) ==
  /\ pc[p] \in ArmLabels
  /\ blocked' = (blocked /\ At(p, "arm"))
  /\ proved' = (proved /\ At(p, "arm"))
  /\ Goto(p, IF ~blocked' /\ status = "active" THEN "create" ELSE AfterArm(p))
  /\ UNCHANGED <<row, graph, receipt, signals, attempts, server, want, lock, bounds, resumed>>

ArmableUnfenced == ~Owned  (* mutant: the fence is not looked at again.     *)
Armable == ~blocked /\ ~Owned

CreateDriver(p) ==
  /\ At(p, "create")
  /\ pc' = [pc EXCEPT ![p] = AfterArm(p), !["driver"] = IF Armable THEN "start" ELSE @]
  /\ attempts' = IF Armable /\ p = "reconciler" THEN attempts + 1 ELSE attempts
  /\ UNCHANGED <<row, graph, receipt, signals, server, want, fence, bounds, history>>

-----------------------------------------------------------------------------
(* _quiesce_graph_lifecycle: block admission; under the run's lock cancel  *)
(* the driver and await it, cancel runners and drain their recoveries, and *)
(* prove that no owner and no active lease is left.                        *)
Block(p) ==
  /\ At(p, "block")
  /\ blocked' = TRUE
  /\ Goto(p, "lock")
  /\ UNCHANGED <<row, graph, receipt, signals, attempts, server, want, lock, bounds, history>>

Fence(p) ==
  /\ At(p, "lock") /\ lock = "free"
  /\ lock' = p
  /\ pc' = [pc EXCEPT ![p] = "drain", !["driver"] = "idle"]
  /\ want' = [want EXCEPT !["driver"] = "none"]
  /\ UNCHANGED <<row, graph, receipt, signals, attempts, server, blocked, bounds, history>>

Drain(p) ==
  /\ At(p, "drain")
  /\ leased' = FALSE /\ moved' = (moved \/ leased)
  /\ Goto(p, "prove")
  /\ UNCHANGED <<row, kernel, receipt, signals, attempts, server, want, fence, bounds, history>>

DrainFails(p) ==
  /\ At(p, "drain") /\ Mishap
  /\ lock' = "free"
  /\ Goto(p, "unproved")
  /\ UNCHANGED <<row, graph, receipt, signals, attempts, server, want, blocked,
                 requests, history>>

Quiet == ~Owned /\ ~leased

ResortFenced(n)   == IF n < MaxAttempts THEN "arm" ELSE "pause"
Resort(n) == IF n < MaxAttempts THEN "admit" ELSE "pause"

Prove(p) ==
  /\ At(p, "prove")
  /\ lock' = "free"
  /\ proved' = (Quiet /\ blocked)
  /\ Goto(p, CASE ~Quiet -> "unproved"
               [] p = "reconciler" -> Resort(attempts)
               [] OTHER -> "proved")
  /\ UNCHANGED <<row, graph, receipt, signals, attempts, server, want, blocked, bounds, resumed>>

(* An incomplete fence leaves the signal pending and the row STOPPING.     *)
ReadForFailure ==
  /\ At("consumer", "unproved")
  /\ Only("consumer", IF status = "stopping" THEN "recording" ELSE "idle")

RecordQuiescenceFailure ==
  /\ At("consumer", "recording")
  /\ SetRow("stopping", "quiescence_failed")
  /\ Goto("consumer", "idle")
  /\ UNCHANGED <<graph, receipt, signals, attempts, server, want, fence, bounds, history>>

ReadForPause ==
  /\ At("consumer", "proved") /\ want["consumer"] = "pause"
  /\ Only("consumer", IF status \in {"active", "stopping", "paused"} THEN "pausing" ELSE "mark")

ApplyPause ==
  /\ At("consumer", "pausing")
  /\ SetRow("paused", "signalled")
  /\ Goto("consumer", "mark")
  /\ UNCHANGED <<graph, receipt, signals, attempts, server, want, fence, bounds, history>>

(* apply_graph_cancel_until_terminal sends "cancel" until it is refused or *)
(* the kernel is terminal; the first one revokes the active leases.        *)
CancelKernel ==
  /\ At("consumer", "proved") /\ want["consumer"] = "cancel"
  /\ CASE kernel = "active"     -> SetKernel("cancelling", FALSE) /\ UNCHANGED pc
       [] kernel = "cancelling" -> SetKernel("cancelled", FALSE) /\ UNCHANGED pc
       [] OTHER                 -> Goto("consumer", "cancel") /\ UNCHANGED graph
  /\ UNCHANGED <<row, receipt, signals, attempts, server, want, fence, bounds, history>>

(* _apply_terminal_stop: a terminal row stays, a draft row is refused.     *)
ReadForCancelRaising ==  (* mutant: a CANCEL that comes too late is an error. *)
  /\ At("consumer", "cancel")
  /\ Only("consumer", IF status \in {"active", "paused", "stopping"} THEN "cancelling" ELSE "idle")

ReadForCancel ==
  /\ At("consumer", "cancel")
  /\ Only("consumer", IF status \in {"active", "paused", "stopping"} THEN "cancelling" ELSE "mark")

ApplyCancel ==
  /\ At("consumer", "cancelling")
  /\ SetRow("cancelled", reason)
  /\ Goto("consumer", "mark")
  /\ UNCHANGED <<graph, receipt, signals, attempts, server, want, fence, bounds, history>>

-----------------------------------------------------------------------------
(* GraphRunDriver.run.  The row it reads first decides what it sets up: a  *)
(* paused row is resumed, an empty log is seeded, the operator's marker    *)
(* reopens a failed kernel, and anything else is recovered.                *)
StartDriver ==
  /\ At("driver", "start")
  /\ IF status = "paused" THEN SetRow("active", Marker) ELSE UNCHANGED row
  /\ resumed' = (resumed \/ status = "paused")
  /\ Goto("driver", CASE kernel = "none" -> "seed"
                      [] status' = "active" /\ reason' = "operator_reopen" -> "reopen"
                      [] OTHER -> "recover")
  /\ UNCHANGED <<graph, receipt, signals, attempts, server, want, fence, bounds, proved>>

(* seed_run, then accept_run and start, each an append of its own.         *)
Bootstrap ==
  /\ \E s \in {<<"seed", "draft", "accept">>, <<"accept", "queued", "begin">>,
               <<"begin", "active", "turn">>} :
        At("driver", s[1]) /\ SetKernel(s[2], leased) /\ Goto("driver", s[3])
  /\ UNCHANGED <<row, receipt, signals, attempts, server, want, fence, bounds, history>>

AfterReopenKept == "recover"  (* mutant: the marker stays on the row.       *)
AfterReopen == "clear"

(* _reopen_failed_graph_lifecycle: failed, resuming, active; then the      *)
(* marker is cleared, which reads and writes the row like everyone else.   *)
Reopen ==
  /\ At("driver", "reopen")
  /\ CASE kernel = "failed"   -> SetKernel("resuming", leased) /\ UNCHANGED pc
       [] kernel = "resuming" -> SetKernel("active", leased) /\ Goto("driver", AfterReopen)
       [] OTHER               -> Goto("driver", AfterReopen) /\ UNCHANGED graph
  /\ UNCHANGED <<row, receipt, signals, attempts, server, want, fence, bounds, history>>

ReadForClear ==
  /\ At("driver", "clear")
  /\ Only("driver", IF status = "active" /\ reason = "operator_reopen" THEN "clearing" ELSE "recover")

ClearMarker ==
  /\ At("driver", "clearing")
  /\ SetRow("active", "none")
  /\ Goto("driver", "recover")
  /\ UNCHANGED <<graph, receipt, signals, attempts, server, want, fence, bounds, history>>

(* recover, reconcile_graph, reconcile_runtime: orphaned leases end.       *)
RecoverGraph ==
  /\ At("driver", "recover")
  /\ leased' = FALSE /\ moved' = (moved \/ leased)
  /\ Goto("driver", "turn")
  /\ UNCHANGED <<row, kernel, receipt, signals, attempts, server, want, fence, bounds, history>>

(* drive_to_quiescence: every turn reads the row, then schedules.          *)
Outcome == IF kernel \in {"completed", "failed"} THEN kernel ELSE "blocked"

Conclude ==
  /\ Goto("driver", "final")
  /\ want' = [want EXCEPT !["driver"] = Outcome]

ShouldContinue ==
  /\ At("driver", "turn")
  /\ IF status = "active" THEN Goto("driver", "work") /\ UNCHANGED want ELSE Conclude
  /\ UNCHANGED <<row, graph, receipt, signals, attempts, server, fence, bounds, history>>

GrantLease ==
  /\ At("driver", "work") /\ kernel = "active"
  /\ SetKernel(kernel, TRUE)
  /\ Goto("driver", "wait")
  /\ UNCHANGED <<row, receipt, signals, attempts, server, want, fence, bounds, history>>

ExecutionEnds ==
  /\ At("driver", "wait")
  /\ IF leased THEN SetKernel(kernel, FALSE) ELSE UNCHANGED graph
  /\ Goto("driver", "turn")
  /\ UNCHANGED <<row, receipt, signals, attempts, server, want, fence, bounds, history>>

(* Nothing left to schedule: complete and reconcile may end the graph.     *)
EndGraph(k) ==
  /\ At("driver", "work") /\ kernel = "active" /\ ~leased
  /\ SetKernel(k, leased)
  /\ resumed' = FALSE
  /\ UNCHANGED <<row, receipt, signals, attempts, server, pc, want, fence, bounds, proved>>

NothingToDo ==
  /\ At("driver", "work") /\ ~leased
  /\ Conclude
  /\ UNCHANGED <<row, graph, receipt, signals, attempts, server, fence, bounds, history>>

(* The row is read again and followed by a bridge only while it is ACTIVE. *)
(* Mutants: completed without the commit; a failure is left to others.     *)
BridgeUncommitted(outcome) ==
  CASE outcome = "completed" -> "complete" [] outcome = "failed" -> "fail" [] OTHER -> "pause"
BridgeSilent(outcome) ==
  CASE outcome = "completed" -> "commit" [] outcome = "failed" -> "idle" [] OTHER -> "pause"

Bridge(outcome) ==
  CASE outcome = "completed" -> "commit" [] outcome = "failed" -> "fail" [] OTHER -> "pause"

ReadForBridge ==
  /\ At("driver", "final")
  /\ Goto("driver", IF status = "active" THEN Bridge(want["driver"]) ELSE "idle")
  /\ want' = [want EXCEPT !["driver"] = "none"]
  /\ UNCHANGED <<row, graph, receipt, signals, attempts, server, fence, bounds, history>>

(* finalize_graph_run_completion: the commit's receipt comes first.        *)
Finalize ==
  /\ At("driver", "commit")
  /\ receipt' = (receipt \/ status = "active")
  /\ Goto("driver", CASE status = "active" -> "complete" [] status = "completed" -> "idle"
                      [] OTHER -> "crash")
  /\ UNCHANGED <<row, graph, signals, attempts, server, want, fence, bounds, history>>

ReadForComplete ==
  /\ At("driver", "complete")
  /\ Only("driver", CASE status = "active" -> "completing" [] status = "completed" -> "idle"
                      [] OTHER -> "crash")

ApplyComplete ==
  /\ At("driver", "completing")
  /\ SetRow("completed", "none")
  /\ Goto("driver", "idle")
  /\ UNCHANGED <<graph, receipt, signals, attempts, server, want, fence, bounds, history>>

ReadForFail ==
  /\ At("driver", "fail")
  /\ Only("driver", IF status \in Terminal THEN "idle" ELSE "failing")

ApplyFail ==
  /\ At("driver", "failing")
  /\ SetRow("failed", reason)
  /\ Goto("driver", "idle")
  /\ UNCHANGED <<graph, receipt, signals, attempts, server, want, fence, bounds, history>>

(* _apply_pause, by whichever bridge (blocked, crashed, not finalized).    *)
ReadForDriverPause ==
  /\ At("driver", "pause")
  /\ Only("driver", IF status \in {"active", "stopping"} THEN "pausing" ELSE "idle")

ApplyDriverPause ==
  /\ At("driver", "pausing")
  /\ SetRow("paused", "driver")
  /\ Goto("driver", "idle")
  /\ UNCHANGED <<graph, receipt, signals, attempts, server, want, fence, bounds, history>>

(* A refused setup, a drive loop that raises, a commit that fails.         *)
DriverRaises ==
  /\ pc["driver"] \in {"start", "turn", "work", "wait", "commit"} /\ Mishap
  /\ Goto("driver", "pause")
  /\ UNCHANGED <<row, graph, receipt, signals, attempts, server, want, fence,
                 requests, history>>

(* What escapes is paused by request; a row that is STOPPING refuses it    *)
(* and so may the database: then the driver just ends.                     *)
EscapedPause ==
  /\ At("driver", "crash")
  /\ Goto("driver", IF status = "active" THEN "stop" ELSE "idle")
  /\ want' = [want EXCEPT !["driver"] = IF status = "active" THEN "pause" ELSE "none"]
  /\ UNCHANGED <<row, graph, receipt, signals, attempts, server, fence, bounds, history>>

DriverLost ==
  /\ Owned /\ Mishap
  /\ Goto("driver", "idle")
  /\ want' = [want EXCEPT !["driver"] = "none"]
  /\ UNCHANGED <<row, graph, receipt, signals, attempts, server, fence,
                 requests, history>>

-----------------------------------------------------------------------------
(* reconcile_graph_liveness_once, for this run, whose row was ACTIVE in    *)
(* the page: a stalled lease is fenced first, and a run without driver is  *)
(* armed again, or stopped when that has not helped.                       *)
Observed == IF moved \/ kernel \in Terminal THEN 0 ELSE attempts

Observe(stall) ==
  /\ At("reconciler", "idle") /\ server = "up" /\ status = "active"
  /\ IF stall THEN leased /\ Mishap ELSE UNCHANGED mishaps
  /\ attempts' = Observed /\ moved' = FALSE
  /\ Goto("reconciler", CASE ~Owned -> Resort(Observed) [] stall -> "block" [] OTHER -> "idle")
  /\ UNCHANGED <<row, kernel, leased, receipt, signals, server, want, fence,
                 requests, history>>

(* pause_run reads the row again.                                          *)
GiveUp ==
  /\ At("reconciler", "pause")
  /\ Goto("reconciler", IF status = "active" THEN "stop" ELSE "idle")
  /\ want' = [want EXCEPT !["reconciler"] = IF status = "active" THEN "pause" ELSE "none"]
  /\ UNCHANGED <<row, graph, receipt, signals, attempts, server, fence, bounds, history>>

LeaveRun ==
  /\ At("reconciler", "unproved")
  /\ Only("reconciler", "idle")

-----------------------------------------------------------------------------
(* SignalConsumer.stop: the poll and reconcile tasks are cancelled, a      *)
(* handler that runs goes on; a run with a driver task is fenced, and then *)
(* apply_graph_server_shutdown_pause revokes leases and parks the row.     *)
Volatile(s) ==
  /\ server' = s /\ blocked' = FALSE /\ lock' = "free" /\ proved' = FALSE
  /\ want' = [p \in Procs |-> "none"]
  /\ pc' = [p \in Procs |-> IF p = "boot" THEN "boot" ELSE "idle"]

Shutdown ==
  /\ server = "up" /\ Mishap
  /\ \A c \in Clients : At(c, "idle")
  /\ server' = "stopping"
  /\ lock' = IF lock = "reconciler" THEN "free" ELSE lock
  /\ pc' = [pc EXCEPT !["reconciler"] = "idle", !["boot"] = "idle",
                      !["halt"] = IF Owned THEN "block" ELSE "idle"]
  /\ want' = [want EXCEPT !["reconciler"] = "none"]
  /\ UNCHANGED <<row, graph, receipt, signals, attempts, blocked, requests, history>>

RevokeLeases ==
  /\ At("halt", "proved")
  /\ leased' = FALSE /\ moved' = (moved \/ leased)
  /\ Goto("halt", "leases")
  /\ UNCHANGED <<row, kernel, receipt, signals, attempts, server, want, fence, bounds, history>>

ReadForShutdown ==
  /\ At("halt", "leases")
  /\ Only("halt", IF status \in {"active", "stopping"} THEN "pausing" ELSE "idle")

ApplyShutdownPause ==
  /\ At("halt", "pausing")
  /\ SetRow("paused", "server_shutdown")
  /\ Goto("halt", "idle")
  /\ UNCHANGED <<graph, receipt, signals, attempts, server, want, fence, bounds, history>>

(* The process ends, with whatever runs in it, and a new one starts.       *)
Exit ==
  /\ server = "stopping" /\ pc["halt"] \in {"idle", "unproved"}
  /\ Volatile("up")
  /\ UNCHANGED <<row, graph, receipt, signals, attempts, bounds, resumed>>

Crash ==
  /\ Mishap
  /\ Volatile("up")
  /\ UNCHANGED <<row, graph, receipt, signals, attempts, requests, resumed>>

(* select_graph_runs_to_rearm: what start-up hands to arm_graph_run.       *)
Recoverable == status = "paused" /\ reason = "server_shutdown"

SelectRun ==
  /\ At("boot", "boot")
  /\ Only("boot", IF Recoverable \/ (status = "active" /\ kernel # "none") THEN "arm" ELSE "idle")

-----------------------------------------------------------------------------
Consume ==
  \/ FetchNextSignal \/ MarkProcessed
  \/ ReadForStart \/ ApplyStart
  \/ ReadForResume \/ ApplyResume
  \/ ReadForFailure \/ RecordQuiescenceFailure
  \/ ReadForPause \/ ApplyPause
  \/ CancelKernel \/ ReadForCancel \/ ApplyCancel

Drive ==
  \/ StartDriver \/ Bootstrap \/ Reopen \/ ReadForClear \/ ClearMarker \/ RecoverGraph
  \/ ShouldContinue \/ GrantLease \/ ExecutionEnds \/ NothingToDo
  \/ \E k \in {"completed", "failed"} : EndGraph(k)
  \/ ReadForBridge \/ Finalize \/ ReadForComplete \/ ApplyComplete
  \/ ReadForFail \/ ApplyFail \/ ReadForDriverPause \/ ApplyDriverPause
  \/ EscapedPause

Reconcile == \E stall \in BOOLEAN : Observe(stall) \/ GiveUp \/ LeaveRun

Quiesce(p) == Block(p) \/ Fence(p) \/ Drain(p) \/ Prove(p)
Arm(p)     == ReadForArm(p) \/ CreateDriver(p)
Ask(p)     == Stop(p) \/ Enqueue(p)
Halt       == RevokeLeases \/ ReadForShutdown \/ ApplyShutdownPause \/ Exit

Quiescers == {"consumer", "reconciler", "halt"}
Armers    == {"consumer", "reconciler", "boot"}
Askers    == Clients \cup {"driver", "reconciler"}

Failure ==
  \/ ResumeUnavailable \/ DriverRaises \/ DriverLost \/ Crash
  \/ \E p \in Quiescers : DrainFails(p)

Next ==
  \/ \E c \in Clients, k \in Kinds : Request(c, k)
  \/ \E c \in Clients : Recover(c)
  \/ \E p \in Askers : Ask(p)
  \/ \E p \in Quiescers : Quiesce(p)
  \/ \E p \in Armers : Arm(p)
  \/ Consume \/ Drive \/ Reconcile \/ Shutdown \/ Halt \/ SelectRun
  \/ Failure

(* asyncio runs every task that can go on; the poll and the reconcile loop *)
(* come back.  Nobody has to ask for anything, nothing has to fail, and an *)
(* execution need not end.                                                 *)
Fairness ==
  /\ \A p \in Askers : WF_vars(Ask(p))
  /\ \A c \in Clients : WF_vars(Recover(c))
  /\ \A p \in Quiescers : WF_vars(Quiesce(p))
  /\ \A p \in Armers : WF_vars(Arm(p))
  /\ WF_vars(Consume) /\ WF_vars(Drive) /\ WF_vars(Reconcile)
  /\ WF_vars(Halt) /\ WF_vars(SelectRun)

Spec == Init /\ [][Next]_vars /\ Fairness

-----------------------------------------------------------------------------
(* The only state a run may be called completed in: the kernel completed   *)
(* and the worktree's final commit is recorded, whatever was written to    *)
(* the row in between (finalize_graph_run_completion).                     *)
CompletedIsTrue == status = "completed" => kernel = "completed" /\ receipt

(* Once a handler has proved the fence, no driver and no active lease      *)
(* comes back until somebody lifts it: when the handler exposes PAUSED or  *)
(* CANCELLED, several steps later, what it proved is still true, although  *)
(* others may be half-way through arming the run (docs/ARCHITECTURE.md,    *)
(* the per-run quiescence fence).                                          *)
FenceHolds == proved => blocked /\ Quiet

(* A failed kernel is reopened only after the row was resumed since: a run *)
(* that was stranded ACTIVE by a crash and is armed again does not replay  *)
(* an old reopen (the consume-once marker of clear_graph_reopen_marker).   *)
NoReplayedReopen == [][kernel = "failed" /\ kernel' # kernel => resumed]_vars

(* What is left when the reconciler has nothing more to do for the run.    *)
(* (It does not count its attempts while the kernel is terminal, so it can *)
(* lift a fence between Block and Prove again and again.)                  *)
Settled == <>[]At("reconciler", "idle")

(* Every signal is processed in the end, over failed fences, a lock held   *)
(* by another fence, crashes and shutdowns: a handler that could not prove *)
(* its fence leaves the signal at the head of the queue and is tried again.*)
QueueDrains == Settled => []<>(signals = << >>)

(* An ACTIVE run gets a driver or another status, whatever became of the   *)
(* driver it had: start-up recovery and the liveness reconciler.           *)
ActiveIsDriven == status = "active" ~> (Owned \/ status # "active")

(* Unless a signal stays in the queue, the run of a failed kernel does not *)
(* stay ACTIVE: whatever became of the driver that saw the failure, another*)
(* one reports it, or the operator's reopen takes effect.                  *)
FailureIsReported ==
  <>[](signals = << >>) =>
    ((status = "active" /\ kernel = "failed") ~> (status # "active" \/ kernel # "failed"))

-----------------------------------------------------------------------------
(* What documents and comments of the code say and the code does not do:   *)
(* see the README for the behaviours that refute them.                     *)

(* A run parked by a graceful shutdown is resumed at the next start        *)
(* (_is_startup_recoverable_pause_reason).                                 *)
ShutdownPauseIsResumed ==
  (status = "paused" /\ reason = "server_shutdown") ~> reason # "server_shutdown"

(* A terminal status wins over a stop that is being requested              *)
(* (GraphRunDriver.run, _pause_crashed_graph_run).                         *)
TerminalIsFinal ==
  [][(status \in {"completed", "cancelled"}) => (status' = status)]_vars

(* A driver that gives a run up as blocked has started its graph           *)
(* (arm_graph_run: a re-arm resumes from the durable position).            *)
BlockedMeansStarted ==
  status = "paused" /\ reason = "driver" => kernel \notin {"draft", "queued"}
=============================================================================
