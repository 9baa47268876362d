-------------------------- MODULE RunControlProofs --------------------------
(* Theorems about RunControl for every set of clients, every number of     *)
(* requests and mishaps, and every retry budget of the reconciler.         *)
EXTENDS RunControl, SequenceTheorems, TLAPS

(* The coroutines.  The reconciler arms or admits a run only while it has  *)
(* attempts left; whoever enqueues has a signal to enqueue; the consumer   *)
(* works on a signal that is still in the queue.                           *)
RetryBudget == pc["reconciler"] \in {"arm", "admit", "create"} => attempts < MaxAttempts
AskersWant  == \A p \in Askers : pc[p] \in {"stop", "enqueue"} => want[p] \in Signals
HasSignal   == pc["consumer"] \notin {"idle", "next"} => signals # << >>

Coroutines == RetryBudget /\ AskersWant /\ HasSignal

(* The reopen marker.  A marked row was resumed since the kernel failed,   *)
(* and so was the kernel a driver is about to reopen; a driver that works  *)
(* on an active kernel has seen to it that the row is not marked, so that  *)
(* the next failure finds no old marker.                                   *)
Marked == status = "active" /\ reason = "operator_reopen"

BootstrapKernel ==
  /\ At("driver", "seed") => kernel = "none"
  /\ At("driver", "accept") => kernel = "draft"
  /\ At("driver", "begin") => kernel = "queued"
FreshUnmarked == kernel \in {"none", "draft", "queued"} => reason # "operator_reopen"
MarkedResumed == Marked /\ kernel = "failed" => resumed
ReopenResumed == At("driver", "reopen") /\ kernel = "failed" => resumed
WorkUnmarked  == Marked /\ kernel = "active" => pc["driver"] \notin {"recover", "turn", "work", "wait"}

Reopening == BootstrapKernel /\ FreshUnmarked /\ MarkedResumed /\ ReopenResumed /\ WorkUnmarked

(* Completion.  A driver on its way to complete the row follows a kernel   *)
(* that is completed, which is final, and has the receipt first.           *)
CompletionFollows ==
  /\ At("driver", "final") /\ want["driver"] = "completed" => kernel = "completed"
  /\ pc["driver"] \in {"commit", "complete", "completing"} => kernel = "completed"
  /\ pc["driver"] \in {"complete", "completing"} => receipt

Completion == CompletionFollows /\ CompletedIsTrue

IInv == TypeOK /\ Coroutines /\ Reopening /\ Completion /\ FenceHolds

LEMMA Names ==
  /\ Clients \subseteq Procs /\ Quiescers \subseteq Procs
  /\ Armers \subseteq Procs /\ Askers \subseteq Procs
  /\ {"consumer", "driver", "reconciler", "boot", "halt"} \subseteq Procs
  /\ Clients \cap {"consumer", "driver", "reconciler", "boot", "halt"} = {}
BY ControlAssumption DEF Procs, Quiescers, Armers, Askers

LEMMA InitInv == Init => IInv
<1> SUFFICES ASSUME Init PROVE IInv
  OBVIOUS
<1> USE ControlAssumption DEF Init
<1>1. TypeOK
  <2>1. /\ leased \in BOOLEAN /\ receipt \in BOOLEAN /\ moved \in BOOLEAN
        /\ blocked \in BOOLEAN /\ proved \in BOOLEAN /\ resumed \in BOOLEAN
    BY Zenon
  <2>2. signals \in Seq(Signals)
    BY EmptySeq
  <2>3. /\ pc \in [Procs -> Labels]
        /\ want \in [Procs -> Signals \cup {"none", "completed", "failed", "blocked", "recover"}]
    BY DEF Labels
  <2> QED
    BY <2>1, <2>2, <2>3 DEF TypeOK, Statuses, Reasons, Kernel
<1>2. Coroutines
  BY Names DEF Coroutines, RetryBudget, AskersWant, HasSignal
<1>3. Reopening
  BY Names DEF Reopening, BootstrapKernel, FreshUnmarked, MarkedResumed,
               ReopenResumed, WorkUnmarked, Marked, At
<1>4. Completion /\ FenceHolds
  BY Names DEF Completion, CompletionFollows, CompletedIsTrue, FenceHolds, At
<1> QED
  BY <1>1, <1>2, <1>3, <1>4 DEF IInv

(* API requests and whoever else stops a run.                               *)
LEMMA RequestSteps ==
  ASSUME IInv
  PROVE  /\ \A c \in Clients, k \in Kinds : Request(c, k) => IInv'
         /\ \A c \in Clients : Recover(c) => IInv'
         /\ \A p \in Askers : Stop(p) => IInv'
         /\ \A p \in Askers : Enqueue(p) => IInv'
<1> USE Names, ControlAssumption
        DEF IInv, TypeOK, Statuses, Reasons, Kernel, Signals, Labels, Procs,
            Coroutines, RetryBudget, AskersWant, HasSignal, Askers, Reopening,
            BootstrapKernel, FreshUnmarked, MarkedResumed, ReopenResumed,
            WorkUnmarked, Marked, Completion, CompletionFollows, CompletedIsTrue,
            FenceHolds, Quiet, Owned, At, Goto, row, graph, fence, bounds, history
<1>1. ASSUME NEW c \in Clients, NEW k \in Kinds, Request(c, k) PROVE IInv'
  <2>1. TypeOK'
    BY <1>1 DEF Request, Accepts
  <2>2. Coroutines'
    <3>1. RetryBudget' /\ HasSignal'
      BY <1>1 DEF Request
    <3>2. k = "recover" \/ k \in Signals
      BY <1>1
    <3>3. pc'[c] \in {"stop", "enqueue"} => k # "recover"
      BY <1>1 DEF Request, Accepts
    <3>4. AskersWant'
      BY <1>1, <3>2, <3>3 DEF Request
    <3> QED
      BY <3>1, <3>4
  <2>3. Reopening'
    BY <1>1 DEF Request, Accepts
  <2>4. (Completion /\ FenceHolds)'
    BY <1>1 DEF Request, Accepts
  <2> QED
    BY <2>1, <2>2, <2>3, <2>4
<1>2. ASSUME NEW c \in Clients, Recover(c) PROVE IInv'
  BY <1>2 DEF Recover, SetRow
<1>3. ASSUME NEW p \in Askers, Stop(p) PROVE IInv'
  BY <1>3 DEF Stop, SetRow
<1>4. ASSUME NEW p \in Askers, Enqueue(p) PROVE IInv'
  BY <1>4 DEF Enqueue, Terminal
<1> QED
  BY <1>1, <1>2, <1>3, <1>4

(* The handlers of the consumer.                                            *)
LEMMA ConsumerSteps ==
  ASSUME IInv
  PROVE  /\ FetchNextSignal => IInv'
         /\ MarkProcessed => IInv'
         /\ ReadForStart => IInv'
         /\ ApplyStart => IInv'
         /\ ReadForResume => IInv'
         /\ ApplyResume => IInv'
         /\ ReadForFailure => IInv'
         /\ RecordQuiescenceFailure => IInv'
         /\ ReadForPause => IInv'
         /\ ApplyPause => IInv'
         /\ CancelKernel => IInv'
         /\ ReadForCancel => IInv'
         /\ ApplyCancel => IInv'
         /\ ResumeUnavailable => IInv'
<1> USE Names, ControlAssumption
        DEF IInv, TypeOK, Statuses, Reasons, Kernel, Signals, Labels, Procs,
            Coroutines, RetryBudget, AskersWant, HasSignal, Askers, Reopening,
            BootstrapKernel, FreshUnmarked, MarkedResumed, ReopenResumed,
            WorkUnmarked, Marked, Completion, CompletionFollows, CompletedIsTrue,
            FenceHolds, Quiet, Owned, At, Goto, row, graph, fence, bounds, history
<1>1. ASSUME FetchNextSignal PROVE IInv'
  BY <1>1 DEF FetchNextSignal, First
<1>2. ASSUME MarkProcessed PROVE IInv'
  BY <1>2 DEF MarkProcessed
<1>3. ASSUME ReadForStart PROVE IInv'
  BY <1>3 DEF ReadForStart, Only
<1>4. ASSUME ApplyStart PROVE IInv'
  BY <1>4 DEF ApplyStart, SetRow
<1>5. ASSUME ReadForResume PROVE IInv'
  BY <1>5 DEF ReadForResume, Only
<1>6. ASSUME ApplyResume PROVE IInv'
  BY <1>6 DEF ApplyResume, Marker, SetRow
<1>7. ASSUME ReadForFailure PROVE IInv'
  BY <1>7 DEF ReadForFailure, Only
<1>8. ASSUME RecordQuiescenceFailure PROVE IInv'
  BY <1>8 DEF RecordQuiescenceFailure, SetRow
<1>9. ASSUME ReadForPause PROVE IInv'
  BY <1>9 DEF ReadForPause, Only
<1>10. ASSUME ApplyPause PROVE IInv'
  BY <1>10 DEF ApplyPause, SetRow
<1>11. ASSUME CancelKernel PROVE IInv'
  <2>1. TypeOK'
    <3>1. leased' \in BOOLEAN /\ moved' \in BOOLEAN
      BY <1>11, Zenon DEF CancelKernel, SetKernel
    <3> QED
      BY <1>11, <3>1 DEF CancelKernel, SetKernel
  <2>2. Coroutines'
    BY <1>11 DEF CancelKernel, SetKernel
  <2>3. Reopening'
    BY <1>11 DEF CancelKernel, SetKernel
  <2>4. (Completion /\ FenceHolds)'
    BY <1>11 DEF CancelKernel, SetKernel
  <2> QED
    BY <2>1, <2>2, <2>3, <2>4
<1>12. ASSUME ReadForCancel PROVE IInv'
  BY <1>12 DEF ReadForCancel, Only
<1>13. ASSUME ApplyCancel PROVE IInv'
  BY <1>13 DEF ApplyCancel, SetRow
<1>14. ASSUME ResumeUnavailable PROVE IInv'
  BY <1>14 DEF ResumeUnavailable, Mishap
<1> QED
  BY <1>1, <1>2, <1>3, <1>4, <1>5, <1>6, <1>7, <1>8, <1>9, <1>10, <1>11, <1>12,
     <1>13, <1>14

(* The quiescence fence and the arming of a driver.                         *)
LEMMA FenceSteps ==
  ASSUME IInv
  PROVE  /\ \A p \in Quiescers : Block(p) => IInv'
         /\ \A p \in Quiescers : Fence(p) => IInv'
         /\ \A p \in Quiescers : Drain(p) => IInv'
         /\ \A p \in Quiescers : DrainFails(p) => IInv'
         /\ \A p \in Quiescers : Prove(p) => IInv'
         /\ \A p \in Armers : ReadForArm(p) => IInv'
         /\ \A p \in Armers : CreateDriver(p) => IInv'
<1> USE Names, ControlAssumption
        DEF IInv, TypeOK, Statuses, Reasons, Kernel, Signals, Labels, Procs,
            Coroutines, RetryBudget, AskersWant, HasSignal, Askers, Reopening,
            BootstrapKernel, FreshUnmarked, MarkedResumed, ReopenResumed,
            WorkUnmarked, Marked, Completion, CompletionFollows, CompletedIsTrue,
            FenceHolds, Quiet, Owned, At, Goto, row, graph, fence, bounds, history
<1>1. ASSUME NEW p \in Quiescers, Block(p) PROVE IInv'
  BY <1>1 DEF Block
<1>2. ASSUME NEW p \in Quiescers, Fence(p) PROVE IInv'
  <2>1. TypeOK'
    BY <1>2 DEF Fence, Quiescers
  <2>2. Coroutines'
    BY <1>2 DEF Fence
  <2>3. Reopening'
    BY <1>2 DEF Fence
  <2>4. (Completion /\ FenceHolds)'
    BY <1>2 DEF Fence
  <2> QED
    BY <2>1, <2>2, <2>3, <2>4
<1>3. ASSUME NEW p \in Quiescers, Drain(p) PROVE IInv'
  <2>1. TypeOK'
    <3>1. leased' \in BOOLEAN /\ moved' \in BOOLEAN
      BY <1>3, Zenon DEF Drain
    <3> QED
      BY <1>3, <3>1 DEF Drain
  <2>2. Coroutines'
    BY <1>3 DEF Drain
  <2>3. Reopening'
    BY <1>3 DEF Drain
  <2>4. (Completion /\ FenceHolds)'
    BY <1>3 DEF Drain
  <2> QED
    BY <2>1, <2>2, <2>3, <2>4
<1>4. ASSUME NEW p \in Quiescers, DrainFails(p) PROVE IInv'
  BY <1>4 DEF DrainFails, Mishap
<1>5. ASSUME NEW p \in Quiescers, Prove(p) PROVE IInv'
  BY <1>5 DEF Prove, Resort
<1>6. ASSUME NEW p \in Armers, ReadForArm(p) PROVE IInv'
  BY <1>6 DEF ReadForArm, ArmLabels, AfterArm
<1>7. ASSUME NEW p \in Armers, CreateDriver(p) PROVE IInv'
  BY <1>7 DEF CreateDriver, Armable, AfterArm
<1> QED
  BY <1>1, <1>2, <1>3, <1>4, <1>5, <1>6, <1>7

(* A driver sets up its run.                                                *)
LEMMA SetupSteps ==
  ASSUME IInv
  PROVE  /\ StartDriver => IInv'
         /\ Bootstrap => IInv'
         /\ Reopen => IInv'
         /\ ReadForClear => IInv'
         /\ ClearMarker => IInv'
         /\ RecoverGraph => IInv'
<1> USE Names, ControlAssumption
        DEF IInv, TypeOK, Statuses, Reasons, Kernel, Signals, Labels, Procs,
            Coroutines, RetryBudget, AskersWant, HasSignal, Askers, Reopening,
            BootstrapKernel, FreshUnmarked, MarkedResumed, ReopenResumed,
            WorkUnmarked, Marked, Completion, CompletionFollows, CompletedIsTrue,
            FenceHolds, Quiet, Owned, At, Goto, row, graph, fence, bounds, history
<1>1. ASSUME StartDriver PROVE IInv'
  <2>1. TypeOK'
    BY <1>1 DEF StartDriver, Marker, SetRow
  <2>2. Coroutines'
    BY <1>1 DEF StartDriver, Marker, SetRow
  <2>3. Reopening'
    <3>1. BootstrapKernel' /\ FreshUnmarked'
      BY <1>1 DEF StartDriver, Marker, SetRow
    <3>2. MarkedResumed' /\ ReopenResumed'
      BY <1>1 DEF StartDriver, Marker, SetRow
    <3>3. WorkUnmarked'
      BY <1>1 DEF StartDriver, Marker, SetRow
    <3> QED
      BY <3>1, <3>2, <3>3
  <2>4. (Completion /\ FenceHolds)'
    BY <1>1 DEF StartDriver, Marker, SetRow
  <2> QED
    BY <2>1, <2>2, <2>3, <2>4
<1>2. ASSUME Bootstrap PROVE IInv'
  BY <1>2 DEF Bootstrap, SetKernel
<1>3. ASSUME Reopen PROVE IInv'
  <2>1. TypeOK'
    <3>1. leased' \in BOOLEAN /\ moved' \in BOOLEAN
      BY <1>3, Zenon DEF Reopen, SetKernel
    <3> QED
      BY <1>3, <3>1 DEF Reopen, AfterReopen, SetKernel
  <2>2. Coroutines'
    BY <1>3 DEF Reopen, AfterReopen, SetKernel
  <2>3. Reopening'
    BY <1>3 DEF Reopen, AfterReopen, SetKernel
  <2>4. (Completion /\ FenceHolds)'
    BY <1>3 DEF Reopen, AfterReopen, SetKernel
  <2> QED
    BY <2>1, <2>2, <2>3, <2>4
<1>4. ASSUME ReadForClear PROVE IInv'
  BY <1>4 DEF ReadForClear, Only
<1>5. ASSUME ClearMarker PROVE IInv'
  BY <1>5 DEF ClearMarker, SetRow
<1>6. ASSUME RecoverGraph PROVE IInv'
  <2>1. TypeOK'
    <3>1. leased' \in BOOLEAN /\ moved' \in BOOLEAN
      BY <1>6, Zenon DEF RecoverGraph
    <3> QED
      BY <1>6, <3>1 DEF RecoverGraph
  <2>2. Coroutines'
    BY <1>6 DEF RecoverGraph
  <2>3. Reopening'
    BY <1>6 DEF RecoverGraph
  <2>4. (Completion /\ FenceHolds)'
    BY <1>6 DEF RecoverGraph
  <2> QED
    BY <2>1, <2>2, <2>3, <2>4
<1> QED
  BY <1>1, <1>2, <1>3, <1>4, <1>5, <1>6

(* A driver drives its graph and follows the outcome.                       *)
LEMMA DriveSteps ==
  ASSUME IInv
  PROVE  /\ ShouldContinue => IInv'
         /\ GrantLease => IInv'
         /\ ExecutionEnds => IInv'
         /\ \A k \in {"completed", "failed"} : EndGraph(k) => IInv'
         /\ NothingToDo => IInv'
         /\ ReadForBridge => IInv'
         /\ Finalize => IInv'
         /\ ReadForComplete => IInv'
         /\ ApplyComplete => IInv'
         /\ ReadForFail => IInv'
         /\ ApplyFail => IInv'
         /\ ReadForDriverPause => IInv'
         /\ ApplyDriverPause => IInv'
         /\ DriverRaises => IInv'
         /\ EscapedPause => IInv'
         /\ DriverLost => IInv'
<1> USE Names, ControlAssumption
        DEF IInv, TypeOK, Statuses, Reasons, Kernel, Signals, Labels, Procs,
            Coroutines, RetryBudget, AskersWant, HasSignal, Askers, Reopening,
            BootstrapKernel, FreshUnmarked, MarkedResumed, ReopenResumed,
            WorkUnmarked, Marked, Completion, CompletionFollows, CompletedIsTrue,
            FenceHolds, Quiet, Owned, At, Goto, row, graph, fence, bounds, history
<1>1. ASSUME ShouldContinue PROVE IInv'
  BY <1>1 DEF ShouldContinue, Conclude, Outcome
<1>2. ASSUME GrantLease PROVE IInv'
  BY <1>2 DEF GrantLease, SetKernel
<1>3. ASSUME ExecutionEnds PROVE IInv'
  <2>1. TypeOK'
    <3>1. leased' \in BOOLEAN /\ moved' \in BOOLEAN
      BY <1>3, Zenon DEF ExecutionEnds, SetKernel
    <3> QED
      BY <1>3, <3>1 DEF ExecutionEnds, SetKernel
  <2>2. Coroutines'
    BY <1>3 DEF ExecutionEnds, SetKernel
  <2>3. Reopening'
    BY <1>3 DEF ExecutionEnds, SetKernel
  <2>4. (Completion /\ FenceHolds)'
    BY <1>3 DEF ExecutionEnds, SetKernel
  <2> QED
    BY <2>1, <2>2, <2>3, <2>4
<1>4. ASSUME NEW k \in {"completed", "failed"}, EndGraph(k) PROVE IInv'
  <2>1. TypeOK'
    <3>1. leased' \in BOOLEAN /\ moved' \in BOOLEAN
      BY <1>4, Zenon DEF EndGraph, SetKernel
    <3>2. kernel' \in Kernel /\ resumed' \in BOOLEAN
      BY <1>4, Zenon DEF EndGraph, SetKernel
    <3> QED
      BY <1>4, <3>1, <3>2 DEF EndGraph
  <2>2. Coroutines'
    BY <1>4 DEF EndGraph, SetKernel
  <2>3. Reopening'
    BY <1>4 DEF EndGraph, SetKernel
  <2>4. (Completion /\ FenceHolds)'
    BY <1>4 DEF EndGraph, SetKernel
  <2> QED
    BY <2>1, <2>2, <2>3, <2>4
<1>5. ASSUME NothingToDo PROVE IInv'
  BY <1>5 DEF NothingToDo, Conclude, Outcome
<1>6. ASSUME ReadForBridge PROVE IInv'
  BY <1>6 DEF ReadForBridge, Bridge
<1>7. ASSUME Finalize PROVE IInv'
  <2>1. TypeOK'
    BY <1>7 DEF Finalize
  <2>2. Coroutines'
    BY <1>7 DEF Finalize
  <2>3. Reopening'
    BY <1>7 DEF Finalize
  <2>4. (Completion /\ FenceHolds)'
    BY <1>7 DEF Finalize
  <2> QED
    BY <2>1, <2>2, <2>3, <2>4
<1>8. ASSUME ReadForComplete PROVE IInv'
  BY <1>8 DEF ReadForComplete, Only
<1>9. ASSUME ApplyComplete PROVE IInv'
  BY <1>9 DEF ApplyComplete, SetRow
<1>10. ASSUME ReadForFail PROVE IInv'
  BY <1>10 DEF ReadForFail, Terminal, Only
<1>11. ASSUME ApplyFail PROVE IInv'
  BY <1>11 DEF ApplyFail, SetRow
<1>12. ASSUME ReadForDriverPause PROVE IInv'
  BY <1>12 DEF ReadForDriverPause, Only
<1>13. ASSUME ApplyDriverPause PROVE IInv'
  BY <1>13 DEF ApplyDriverPause, SetRow
<1>14. ASSUME DriverRaises PROVE IInv'
  BY <1>14 DEF DriverRaises, Mishap
<1>15. ASSUME EscapedPause PROVE IInv'
  BY <1>15 DEF EscapedPause
<1>16. ASSUME DriverLost PROVE IInv'
  BY <1>16 DEF DriverLost, Mishap
<1> QED
  BY <1>1, <1>2, <1>3, <1>4, <1>5, <1>6, <1>7, <1>8, <1>9, <1>10, <1>11, <1>12,
     <1>13, <1>14, <1>15, <1>16

(* The reconciler, shutdown, crash and start-up.                            *)
LEMMA ServerSteps ==
  ASSUME IInv
  PROVE  /\ \A stall \in BOOLEAN : Observe(stall) => IInv'
         /\ GiveUp => IInv'
         /\ LeaveRun => IInv'
         /\ Shutdown => IInv'
         /\ RevokeLeases => IInv'
         /\ ReadForShutdown => IInv'
         /\ ApplyShutdownPause => IInv'
         /\ Exit => IInv'
         /\ Crash => IInv'
         /\ SelectRun => IInv'
<1> USE Names, ControlAssumption
        DEF IInv, TypeOK, Statuses, Reasons, Kernel, Signals, Labels, Procs,
            Coroutines, RetryBudget, AskersWant, HasSignal, Askers, Reopening,
            BootstrapKernel, FreshUnmarked, MarkedResumed, ReopenResumed,
            WorkUnmarked, Marked, Completion, CompletionFollows, CompletedIsTrue,
            FenceHolds, Quiet, Owned, At, Goto, row, graph, fence, bounds, history
<1>1. ASSUME NEW stall \in BOOLEAN, Observe(stall) PROVE IInv'
  <2>1. TypeOK'
    <3>1. leased' \in BOOLEAN /\ moved' \in BOOLEAN
      BY <1>1, Zenon DEF Observe
    <3> QED
      BY <1>1, <3>1 DEF Observe, Observed, Resort, Terminal, Mishap
  <2>2. Coroutines'
    BY <1>1 DEF Observe, Observed, Resort, Terminal, Mishap
  <2>3. Reopening'
    BY <1>1 DEF Observe, Observed, Resort, Terminal, Mishap
  <2>4. (Completion /\ FenceHolds)'
    BY <1>1 DEF Observe, Observed, Resort, Terminal, Mishap
  <2> QED
    BY <2>1, <2>2, <2>3, <2>4
<1>2. ASSUME GiveUp PROVE IInv'
  BY <1>2 DEF GiveUp
<1>3. ASSUME LeaveRun PROVE IInv'
  BY <1>3 DEF LeaveRun, Only
<1>4. ASSUME Shutdown PROVE IInv'
  BY <1>4 DEF Shutdown, Mishap
<1>5. ASSUME RevokeLeases PROVE IInv'
  <2>1. TypeOK'
    <3>1. leased' \in BOOLEAN /\ moved' \in BOOLEAN
      BY <1>5, Zenon DEF RevokeLeases
    <3> QED
      BY <1>5, <3>1 DEF RevokeLeases
  <2>2. Coroutines'
    BY <1>5 DEF RevokeLeases
  <2>3. Reopening'
    BY <1>5 DEF RevokeLeases
  <2>4. (Completion /\ FenceHolds)'
    BY <1>5 DEF RevokeLeases
  <2> QED
    BY <2>1, <2>2, <2>3, <2>4
<1>6. ASSUME ReadForShutdown PROVE IInv'
  BY <1>6 DEF ReadForShutdown, Only
<1>7. ASSUME ApplyShutdownPause PROVE IInv'
  BY <1>7 DEF ApplyShutdownPause, SetRow
<1>8. ASSUME Exit PROVE IInv'
  <2>1. TypeOK'
    <3>1. blocked' \in BOOLEAN /\ proved' \in BOOLEAN
      BY <1>8, Zenon DEF Exit, Volatile
    <3> QED
      BY <1>8, <3>1 DEF Exit, Volatile
  <2>2. Coroutines'
    BY <1>8 DEF Exit, Volatile
  <2>3. Reopening'
    BY <1>8 DEF Exit, Volatile
  <2>4. (Completion /\ FenceHolds)'
    BY <1>8 DEF Exit, Volatile
  <2> QED
    BY <2>1, <2>2, <2>3, <2>4
<1>9. ASSUME Crash PROVE IInv'
  <2>1. TypeOK'
    <3>1. blocked' \in BOOLEAN /\ proved' \in BOOLEAN
      BY <1>9, Zenon DEF Crash, Volatile
    <3> QED
      BY <1>9, <3>1 DEF Crash, Volatile, Mishap
  <2>2. Coroutines'
    BY <1>9 DEF Crash, Volatile, Mishap
  <2>3. Reopening'
    BY <1>9 DEF Crash, Volatile, Mishap
  <2>4. (Completion /\ FenceHolds)'
    BY <1>9 DEF Crash, Volatile, Mishap
  <2> QED
    BY <2>1, <2>2, <2>3, <2>4
<1>10. ASSUME SelectRun PROVE IInv'
  BY <1>10 DEF SelectRun, Recoverable, Only
<1> QED
  BY <1>1, <1>2, <1>3, <1>4, <1>5, <1>6, <1>7, <1>8, <1>9, <1>10

-----------------------------------------------------------------------------
(* Every step of the system keeps the invariant.                           *)
LEMMA StepInv == IInv /\ [Next]_vars => IInv'
<1> SUFFICES ASSUME IInv, [Next]_vars PROVE IInv'
  OBVIOUS
<1>1. CASE \E c \in Clients, k \in Kinds : Request(c, k)
  BY <1>1, RequestSteps
<1>2. CASE \E c \in Clients : Recover(c)
  BY <1>2, RequestSteps
<1>3. CASE \E p \in Askers : Ask(p)
  BY <1>3, RequestSteps DEF Ask
<1>4. CASE \E p \in Quiescers : Quiesce(p)
  BY <1>4, FenceSteps DEF Quiesce
<1>5. CASE \E p \in Armers : Arm(p)
  BY <1>5, FenceSteps DEF Arm
<1>6. CASE Consume
  BY <1>6, ConsumerSteps DEF Consume
<1>7. CASE Drive
  BY <1>7, SetupSteps, DriveSteps DEF Drive
<1>8. CASE Reconcile
  BY <1>8, ServerSteps DEF Reconcile
<1>9. CASE Shutdown \/ Halt \/ SelectRun
  BY <1>9, ServerSteps DEF Halt
<1>10. CASE Failure
  BY <1>10, ConsumerSteps, FenceSteps, DriveSteps, ServerSteps DEF Failure
<1>11. CASE UNCHANGED vars
  BY <1>11 DEF vars, row, graph, fence, bounds, history, IInv, TypeOK, Coroutines,
         RetryBudget, AskersWant, HasSignal, Reopening, BootstrapKernel,
         FreshUnmarked, MarkedResumed, ReopenResumed, WorkUnmarked, Marked,
         Completion, CompletionFollows, CompletedIsTrue, FenceHolds, Quiet,
         Owned, At
<1> QED
  BY <1>1, <1>2, <1>3, <1>4, <1>5, <1>6, <1>7, <1>8, <1>9, <1>10, <1>11 DEF Next

(* Whatever the clients ask for and whatever fails, the coroutines, the    *)
(* reopen marker, the completion and the fence stay consistent.            *)
THEOREM ControlInvariant == Spec => []IInv
<1> QED
  BY InitInv, StepInv, PTL DEF Spec

(* Every variable keeps its type; in particular the reconciler never goes  *)
(* beyond its attempts, and nobody enqueues anything but a signal.         *)
THEOREM ControlTypes == Spec => []TypeOK
<1>1. IInv => TypeOK
  BY DEF IInv
<1> QED
  BY <1>1, ControlInvariant, PTL

(* A row is COMPLETED only over a completed kernel with its final commit   *)
(* recorded (finalize_graph_run_completion).                               *)
THEOREM CompletionIsTrue == Spec => []CompletedIsTrue
<1>1. IInv => CompletedIsTrue
  BY DEF IInv, Completion
<1> QED
  BY <1>1, ControlInvariant, PTL

(* From the proof of the fence until somebody lifts it there is no driver  *)
(* and no active lease (_quiesce_graph_lifecycle).                         *)
THEOREM FenceIsKept == Spec => []FenceHolds
<1>1. IInv => FenceHolds
  BY DEF IInv
<1> QED
  BY <1>1, ControlInvariant, PTL

(* Only a reopen that the operator asked for since the failure takes a     *)
(* kernel out of "failed" (clear_graph_reopen_marker).                     *)
THEOREM ReopenIsNotReplayed == Spec => NoReplayedReopen
<1>1. IInv /\ [Next]_vars => [kernel = "failed" /\ kernel' # kernel => resumed]_vars
  <2> SUFFICES ASSUME IInv, Next, kernel = "failed", kernel' # kernel PROVE resumed
    BY DEF vars, graph
  <2> USE DEF row, graph, fence, bounds, history, At
  <2>1. Reopening
    BY DEF IInv
  <2>2. ASSUME Bootstrap PROVE FALSE
    BY <2>1, <2>2 DEF Bootstrap, Reopening, BootstrapKernel
  <2>3. CASE Reopen
    BY <2>1, <2>3 DEF Reopen, Reopening, ReopenResumed
  <2>4. ASSUME NEW k \in {"completed", "failed"}, EndGraph(k) PROVE FALSE
    BY <2>4 DEF EndGraph
  <2>5. ASSUME CancelKernel PROVE FALSE
    BY <2>5 DEF CancelKernel
  <2>6. ASSUME GrantLease PROVE FALSE
    BY <2>6 DEF GrantLease
  <2>7. ASSUME ExecutionEnds PROVE FALSE
    BY <2>7 DEF ExecutionEnds, SetKernel
  <2>8. ASSUME Consume, ~CancelKernel PROVE FALSE
    BY <2>8 DEF Consume, FetchNextSignal, MarkProcessed, ReadForStart, ApplyStart,
           ReadForResume, ApplyResume, ReadForFailure, RecordQuiescenceFailure,
           ReadForPause, ApplyPause, ReadForCancel, ApplyCancel, Only
  <2>9. ASSUME Drive, ~Bootstrap, ~Reopen, ~GrantLease, ~ExecutionEnds,
               \A k \in {"completed", "failed"} : ~EndGraph(k)
        PROVE  FALSE
    BY <2>9 DEF Drive, StartDriver, ReadForClear, ClearMarker, RecoverGraph,
           ShouldContinue, NothingToDo, Conclude, ReadForBridge, Finalize,
           ReadForComplete, ApplyComplete, ReadForFail, ApplyFail,
           ReadForDriverPause, ApplyDriverPause, EscapedPause, Only
  <2>10. ASSUME Failure PROVE FALSE
    BY <2>10 DEF Failure, ResumeUnavailable, DriverRaises, DriverLost, Crash, DrainFails
  <2>11. ASSUME Reconcile PROVE FALSE
    BY <2>11 DEF Reconcile, Observe, GiveUp, LeaveRun, Only
  <2>12. ASSUME Shutdown \/ Halt \/ SelectRun PROVE FALSE
    BY <2>12 DEF Shutdown, Halt, RevokeLeases, ReadForShutdown, ApplyShutdownPause,
           Exit, SelectRun, Only
  <2>13. ASSUME NEW p, Quiesce(p) \/ Arm(p) \/ Ask(p) \/ Recover(p) PROVE FALSE
    BY <2>13 DEF Quiesce, Block, Fence, Drain, Prove, Arm, ReadForArm, CreateDriver,
           Ask, Stop, Enqueue, Recover
  <2>14. ASSUME NEW c, NEW k, Request(c, k) PROVE FALSE
    BY <2>14 DEF Request
  <2> QED
    BY <2>2, <2>3, <2>4, <2>5, <2>6, <2>7, <2>8, <2>9, <2>10, <2>11, <2>12,
       <2>13, <2>14 DEF Next
<1> QED
  BY <1>1, ControlInvariant, PTL DEF Spec, NoReplayedReopen

=============================================================================
