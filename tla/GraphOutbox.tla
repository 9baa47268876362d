----------------------------- MODULE GraphOutbox -----------------------------
(***************************************************************************)
(* The durable outbox of graph_runtime/outbox.py: accepted graph events    *)
(* that carry a side effect are inserted as rows of the transaction that   *)
(* appends the event, and dispatch_pending delivers them at least once.    *)
(*                                                                         *)
(* Every database transaction of the code is one action; everything the    *)
(* code does between two transactions (the side effect, an await, a crash) *)
(* interleaves with the other dispatchers.  Dispatchers are the callers of *)
(* dispatch_pending that may overlap: the drive loop, a lifecycle quiesce  *)
(* and start-up recovery each build their own over the same table.         *)
(***************************************************************************)
EXTENDS Naturals, FiniteSets

CONSTANTS
  MaxRow,         (* outbox_id ranges over 1..MaxRow (bound).              *)
  Kind,           (* Kind[r]: the row's side-effect kind.                  *)
  KindFilters,    (* the allowed_kinds arguments callers pass.             *)
  Dispatchers,    (* concurrent callers of dispatch_pending / recover.     *)
  MaxAttempts,    (* max_attempts of OutboxDispatcher (3 in the code).     *)
  BatchLimit,     (* OUTBOX_MAINTENANCE_BATCH_LIMIT (100 in the code).     *)
  MaxFaults       (* bound on crashes and aborted calls.                   *)

Row   == 1..MaxRow
Kinds == { Kind[r] : r \in Row }
Cleanup == "snapshot_cleanup"

ASSUME OutboxAssumption ==
  /\ MaxRow \in Nat \ {0} /\ MaxAttempts \in Nat \ {0}
  /\ BatchLimit \in Nat \ {0} /\ MaxFaults \in Nat
  /\ DOMAIN Kind = Row
  /\ Kinds \in KindFilters
  /\ Dispatchers # {}

VARIABLES
  appended,  (* rows 1..appended have been inserted.                       *)
  status,    (* status[r]: the row's status column.                        *)
  attempts,  (* attempts[r]: the row's attempts column.                    *)
  due,       (* due[r]: next_attempt_at is NULL or already in the past.    *)
  applied,   (* rows whose side effect has taken place at least once.      *)
  pc,        (* pc[d]: how far the call of caller d has come.              *)
  item,      (* item[d]: the row it has claimed.                           *)
  through,   (* through[d]: its upper bound, or recover's keyset cursor.   *)
  left,      (* left[d]: how many rows it may still process.               *)
  filter,    (* filter[d]: its allowed_kinds.                              *)
  faults     (* crashes and aborted calls so far.                          *)

table == <<appended, status, attempts, due>>
call  == <<pc, item, through, left, filter>>
vars  == <<appended, status, attempts, due, applied,
           pc, item, through, left, filter, faults>>

Statuses == {"absent", "pending", "dispatching", "completed", "failed"}
Phases   == {"idle", "requeue", "bound", "claim", "execute", "completing", "failing"}

NoRow == 0

(* Rows and calls of known states; a drain never counts more rows than its  *)
(* batch and never looks beyond the last row.                              *)
TypeOK ==
  /\ appended \in 0..MaxRow
  /\ status \in [Row -> Statuses]
  /\ attempts \in [Row -> Nat]
  /\ due \in [Row -> BOOLEAN]
  /\ applied \subseteq Row
  /\ pc \in [Dispatchers -> Phases]
  /\ item \in [Dispatchers -> Row \cup {NoRow}]
  /\ through \in [Dispatchers -> 0..MaxRow]
  /\ left \in [Dispatchers -> 0..BatchLimit]
  /\ filter \in [Dispatchers -> KindFilters]
  /\ faults \in 0..MaxFaults

Init ==
  /\ appended = 0
  /\ status = [r \in Row |-> "absent"]
  /\ attempts = [r \in Row |-> 0]
  /\ due = [r \in Row |-> TRUE]
  /\ applied = {}
  /\ pc = [d \in Dispatchers |-> "idle"]
  /\ item = [d \in Dispatchers |-> NoRow]
  /\ through = [d \in Dispatchers |-> 0]
  /\ left = [d \in Dispatchers |-> 0]
  /\ filter = [d \in Dispatchers |-> Kinds]
  /\ faults = 0

-----------------------------------------------------------------------------
(* Rows a claim may take: pending, due, of an allowed kind.                *)
Eligible(kinds) ==
  { r \in Row : status[r] = "pending" /\ due[r] /\ Kind[r] \in kinds }

IsLeast(r, S) == r \in S /\ \A q \in S : r <= q
IsGreatest(r, S) == r \in S /\ \A q \in S : q <= r

(* append_outbox_rows: the insert commits with the events that caused it.  *)
Append ==
  /\ appended < MaxRow
  /\ appended' = appended + 1
  /\ status' = [status EXCEPT ![appended + 1] = "pending"]
  /\ UNCHANGED <<attempts, due, applied, call, faults>>

NoReset == UNCHANGED <<status, due>>

(* dispatch_pending starts: every dispatching row of the run, whatever its *)
(* kind and whoever claimed it, becomes pending and due.                   *)
ResetDispatching ==
  LET stuck == { r \in Row : status[r] = "dispatching" }
  IN  /\ status' = [r \in Row |-> IF r \in stuck THEN "pending" ELSE status[r]]
      /\ due' = [r \in Row |-> r \in stuck \/ due[r]]

(* A call's locals when it starts, and when it has returned.               *)
Enter(d, phase, limit, kinds) ==
  /\ pc' = [pc EXCEPT ![d] = phase]
  /\ item' = [item EXCEPT ![d] = NoRow]
  /\ through' = [through EXCEPT ![d] = 0]
  /\ left' = [left EXCEPT ![d] = limit]
  /\ filter' = [filter EXCEPT ![d] = kinds]

Return(d) == Enter(d, "idle", 0, Kinds)

Goto(d, phase) == pc' = [pc EXCEPT ![d] = phase]

BeginDispatch(d, kinds) ==
  /\ pc[d] = "idle"
  /\ ResetDispatching
  /\ Enter(d, "bound", BatchLimit, kinds)
  /\ UNCHANGED <<appended, attempts, applied, faults>>

(* The upper bound of the batch is read before anything is claimed.        *)
CaptureBound(d) ==
  /\ pc[d] = "bound"
  /\ IF Eligible(filter[d]) = {}
       THEN Return(d)
       ELSE /\ \E r \in Row : /\ IsGreatest(r, Eligible(filter[d]))
                             /\ through' = [through EXCEPT ![d] = r]
            /\ Goto(d, "claim")
            /\ UNCHANGED <<item, left, filter>>
  /\ UNCHANGED <<table, applied, faults>>

ClaimNext(d) ==
  LET open == { r \in Eligible(filter[d]) : r <= through[d] }
  IN  /\ pc[d] = "claim"
      /\ \E r \in Row :
           /\ IsLeast(r, open)
           /\ status' = [status EXCEPT ![r] = "dispatching"]
           /\ attempts' = [attempts EXCEPT ![r] = @ + 1]
           /\ item' = [item EXCEPT ![d] = r]
      /\ Goto(d, "execute")
      /\ UNCHANGED <<appended, due, applied, through, left, filter, faults>>

(* Nothing left below the bound: the call returns.                         *)
BatchDrained(d) ==
  /\ pc[d] = "claim"
  /\ { r \in Eligible(filter[d]) : r <= through[d] } = {}
  /\ Return(d)
  /\ UNCHANGED <<table, applied, faults>>

(* The executor returns: the effect took place.                            *)
ExecuteOk(d) ==
  /\ pc[d] = "execute"
  /\ applied' = applied \cup {item[d]}
  /\ Goto(d, "completing")
  /\ UNCHANGED <<table, item, through, left, filter, faults>>

(* The executor raises, before or after the effect took place.             *)
ExecuteRaisesUnseen(d) ==
  /\ pc[d] = "execute"
  /\ applied' \in {applied, applied \cup {item[d]}}
  /\ Goto(d, "completing")
  /\ UNCHANGED <<table, item, through, left, filter, faults>>
ExecuteRaises(d) ==
  /\ pc[d] = "execute"
  /\ applied' \in {applied, applied \cup {item[d]}}
  /\ Goto(d, "failing")
  /\ UNCHANGED <<table, item, through, left, filter, faults>>

NextItemUncounted(d) ==
  /\ Goto(d, "claim")
  /\ item' = [item EXCEPT ![d] = NoRow]
  /\ left' = [left EXCEPT ![d] = @ - 1]
  /\ UNCHANGED <<through, filter>>
NextItem(d) ==
  IF left[d] > 1
    THEN /\ Goto(d, "claim")
         /\ item' = [item EXCEPT ![d] = NoRow]
         /\ left' = [left EXCEPT ![d] = @ - 1]
         /\ UNCHANGED <<through, filter>>
    ELSE Return(d)

(* _mark_completed re-reads the row and overwrites any other status.       *)
MarkCompleted(d) ==
  /\ pc[d] = "completing"
  /\ status' = [status EXCEPT ![item[d]] = "completed"]
  /\ due' = [due EXCEPT ![item[d]] = TRUE]
  /\ NextItem(d)
  /\ UNCHANGED <<appended, attempts, applied, faults>>

(* _mark_failed_attempt leaves a completed row alone; otherwise the row is *)
(* failed once its attempts are used up and pending with a backoff before. *)
Unacknowledged(r) == status[r] # "completed"
Exhausted(r)      == attempts[r] >= MaxAttempts

SetStatus(r, state, ready) ==
  /\ status' = [status EXCEPT ![r] = state]
  /\ due' = [due EXCEPT ![r] = ready]

MarkFailedAttempt(d) ==
  LET r == item[d]
  IN  /\ pc[d] = "failing"
      /\ \/ ~Unacknowledged(r) /\ UNCHANGED <<status, due>>
         \/ Unacknowledged(r) /\ Exhausted(r) /\ SetStatus(r, "failed", TRUE)
         \/ Unacknowledged(r) /\ ~Exhausted(r) /\ SetStatus(r, "pending", FALSE)
      /\ NextItem(d)
      /\ UNCHANGED <<appended, attempts, applied, faults>>

BackoffElapsed(r) ==
  /\ ~due[r]
  /\ due' = [due EXCEPT ![r] = TRUE]
  /\ UNCHANGED <<appended, status, attempts, applied, call, faults>>

(* recover(): before dispatching, failed cleanup rows are requeued in      *)
(* keyset pages of BatchLimit rows above a cursor (through[d]).  An   *)
(* active run keeps a backoff; a terminal one is requeued immediately.     *)
BeginRecover(d) ==
  /\ pc[d] = "idle"
  /\ Enter(d, "requeue", 0, Kinds)
  /\ UNCHANGED <<table, applied, faults>>

FailedCleanups(after) ==
  { r \in Row : r > after /\ status[r] = "failed" /\ Kind[r] = Cleanup }

Page(S) == { r \in S : Cardinality({ q \in S : q < r }) < BatchLimit }

RequeuePage(d, immediate) ==
  LET page == Page(FailedCleanups(through[d]))
  IN  /\ pc[d] = "requeue"
      /\ page # {}
      /\ status' = [r \in Row |-> IF r \in page THEN "pending" ELSE status[r]]
      /\ attempts' = [r \in Row |-> IF r \in page THEN 0 ELSE attempts[r]]
      /\ due' = [r \in Row |-> IF r \in page THEN immediate ELSE due[r]]
      /\ \E last \in Row :
           /\ IsGreatest(last, page)
           /\ through' = [through EXCEPT ![d] = last]
      /\ UNCHANGED <<appended, applied, pc, item, left, filter, faults>>

(* The last page was empty: recover() goes on with one dispatch_pending.   *)
RequeueDone(d, kinds) ==
  /\ pc[d] = "requeue"
  /\ FailedCleanups(through[d]) = {}
  /\ ResetDispatching
  /\ Enter(d, "bound", BatchLimit, kinds)
  /\ UNCHANGED <<appended, attempts, applied, faults>>

(* The call ends early and its claim is stranded: its task is cancelled, or*)
(* a bookkeeping transaction still finds the database locked after the     *)
(* fifth try and the exception leaves dispatch_pending.                    *)
Abort(d) ==
  /\ faults < MaxFaults
  /\ pc[d] # "idle"
  /\ Return(d)
  /\ faults' = faults + 1
  /\ UNCHANGED <<table, applied>>

(* The process dies: every call is lost, the table survives.               *)
Crash ==
  /\ faults < MaxFaults
  /\ \E d \in Dispatchers : pc[d] # "idle"
  /\ pc' = [d \in Dispatchers |-> "idle"]
  /\ item' = [d \in Dispatchers |-> NoRow]
  /\ through' = [d \in Dispatchers |-> 0]
  /\ left' = [d \in Dispatchers |-> 0]
  /\ filter' = [d \in Dispatchers |-> Kinds]
  /\ faults' = faults + 1
  /\ UNCHANGED <<table, applied>>

Step(d) ==
  \/ CaptureBound(d) \/ ClaimNext(d) \/ BatchDrained(d)
  \/ ExecuteOk(d) \/ ExecuteRaises(d)
  \/ MarkCompleted(d) \/ MarkFailedAttempt(d)
  \/ \E immediate \in BOOLEAN : RequeuePage(d, immediate)
  \/ \E kinds \in KindFilters : RequeueDone(d, kinds)

Next ==
  \/ Append
  \/ \E d \in Dispatchers :
       \/ \E kinds \in KindFilters : BeginDispatch(d, kinds)
       \/ BeginRecover(d)
       \/ Step(d)
       \/ Abort(d)
  \/ \E r \in Row : BackoffElapsed(r)
  \/ Crash

(* The drive loop calls dispatch_pending without a kind filter on every    *)
(* pass, a started call runs to its end, and time passes.                  *)
Fairness ==
  /\ \A d \in Dispatchers : /\ WF_vars(Step(d))
                            /\ SF_vars(BeginDispatch(d, Kinds))
  /\ \A r \in Row : WF_vars(BackoffElapsed(r))

Spec == Init /\ [][Next]_vars
FairSpec == Spec /\ Fairness

-----------------------------------------------------------------------------
(* Properties.                                                             *)

(* A row is acknowledged only after its side effect took place, whatever   *)
(* crashed, was retried, was reset under a running dispatcher or failed in *)
(* between (dispatch_pending marks a row only after the executor returned).*)
CompletedWasApplied == \A r \in Row : status[r] = "completed" => r \in applied

(* A failed row has used its whole delivery budget; in particular a stale  *)
(* failure report never fails a row that start-up recovery gave a new      *)
(* budget (_mark_failed_attempt against requeue_failed_snapshot_cleanups). *)
FailedUsedBudget == \A r \in Row : status[r] = "failed" => attempts[r] >= MaxAttempts

(* Acknowledgement is final: neither the blanket reset at the start of     *)
(* another call, nor a late failure report, nor recovery reopens a row.    *)
CompletedIsFinal ==
  [][\A r \in Row : status[r] = "completed" => status'[r] = "completed"]_vars

(* Only cleanups are revived: a failed dispatch, recovery or publish row   *)
(* is never claimed again by itself (recover's "failed agent dispatches    *)
(* deliberately remain failed"); a call still executing it may complete it.*)
OnlyCleanupsRevived ==
  [][\A r \in Row : status[r] = "failed" /\ Kind[r] # Cleanup
                      => status'[r] \in {"failed", "completed"}]_vars

(* Every inserted row is eventually acknowledged or has failed, even if    *)
(* calls die while holding it and other calls only ask for some kinds.     *)
EventuallySettled ==
  \A r \in Row : status[r] = "pending" ~> status[r] \in {"completed", "failed"}
=============================================================================
