-------------------------- MODULE GraphOutboxProofs --------------------------
(* Theorems about GraphOutbox for every table size, number of callers,     *)
(* attempt budget and batch limit.                                         *)
EXTENDS GraphOutbox, TLAPS

(* A call that has claimed a row remembers it, and a call about to         *)
(* acknowledge has seen the executor return: what CompletedWasApplied      *)
(* needs to be inductive.                                                  *)
ClaimsRemembered ==
  \A d \in Dispatchers :
    /\ pc[d] \in {"execute", "completing", "failing"} =>
         item[d] \in Row /\ status[item[d]] # "absent"
    /\ pc[d] = "completing" => item[d] \in applied

(* Rows that were not inserted yet have no status.                         *)
NotInserted == \A r \in Row : r > appended => status[r] = "absent"

IInv == TypeOK /\ NotInserted /\ ClaimsRemembered /\ CompletedWasApplied /\ FailedUsedBudget

LEMMA InitInv == Init => IInv
  BY OutboxAssumption
  DEF Init, IInv, TypeOK, NotInserted, ClaimsRemembered, CompletedWasApplied, FailedUsedBudget,
      NoRow, Row, Statuses, Phases

(* Both ends of an iteration of the batch loop keep the call's locals      *)
(* well-typed.                                                             *)
CallTypes ==
  /\ pc \in [Dispatchers -> Phases]
  /\ item \in [Dispatchers -> Row \cup {NoRow}]
  /\ through \in [Dispatchers -> 0..MaxRow]
  /\ left \in [Dispatchers -> 0..BatchLimit]
  /\ filter \in [Dispatchers -> KindFilters]

LEMMA NextItemTypes ==
  ASSUME TypeOK, NEW d \in Dispatchers, NextItem(d)
  PROVE  CallTypes'
<1> USE OutboxAssumption DEF TypeOK, CallTypes, Phases, NoRow
<1>1. CASE left[d] > 1
  <2>1. left[d] - 1 \in 0..BatchLimit
    BY <1>1
  <2>2. QED
    BY <1>1, <2>1 DEF NextItem, Goto
<1>2. CASE ~(left[d] > 1)
  BY <1>2 DEF NextItem, Return, Enter
<1>3. QED
  BY <1>1, <1>2

(* Every step keeps the types.                                             *)
LEMMA TypeStep == IInv /\ [Next]_vars => TypeOK'
<1> SUFFICES ASSUME IInv, [Next]_vars PROVE TypeOK'
  OBVIOUS
<1> USE OutboxAssumption
<1> USE DEF IInv, TypeOK, Row, NoRow, Statuses, Phases
<1>1. CASE Append
  BY <1>1 DEF Append, call
<1>2. ASSUME NEW d \in Dispatchers, NEW kinds \in KindFilters, BeginDispatch(d, kinds)
      PROVE  TypeOK'
  BY <1>2 DEF BeginDispatch, ResetDispatching, Enter
<1>3. ASSUME NEW d \in Dispatchers, BeginRecover(d) PROVE TypeOK'
  BY <1>3 DEF BeginRecover, table, Enter
<1>4. ASSUME NEW d \in Dispatchers, Step(d) PROVE TypeOK'
  <2>1. CASE CaptureBound(d)
    <3>1. CASE Eligible(filter[d]) = {}
      <4>1. Return(d) /\ UNCHANGED <<table, applied, faults>>
        BY <2>1, <3>1 DEF CaptureBound
      <4>2. QED
        BY <1>4, <4>1 DEF table, Return, Enter
    <3>2. CASE Eligible(filter[d]) # {}
      <4>1. PICK r \in Row : through' = [through EXCEPT ![d] = r]
        BY <2>1, <3>2 DEF CaptureBound
      <4>2. r \in 0..MaxRow
        OBVIOUS
      <4>3. QED
        BY <1>4, <2>1, <3>2, <4>1, <4>2 DEF CaptureBound, table, Goto
    <3>3. QED
      BY <3>1, <3>2
  <2>2. CASE ClaimNext(d)
    <3>1. PICK r \in Row : /\ status' = [status EXCEPT ![r] = "dispatching"]
                           /\ attempts' = [attempts EXCEPT ![r] = @ + 1]
                           /\ item' = [item EXCEPT ![d] = r]
      BY <2>2 DEF ClaimNext
    <3>2. attempts[r] + 1 \in Nat
      OBVIOUS
    <3>3. /\ pc' = [pc EXCEPT ![d] = "execute"]
          /\ left' \in [Dispatchers -> 0..BatchLimit]
          /\ UNCHANGED <<appended, due, applied, through, filter, faults>>
      BY <1>4, <2>2 DEF ClaimNext, Goto
    <3>4. QED
      BY <3>1, <3>2, <3>3
  <2>3. CASE BatchDrained(d)
    BY <1>4, <2>3 DEF BatchDrained, table, Return, Enter
  <2>4. CASE ExecuteOk(d)
    BY <1>4, <2>4 DEF ExecuteOk, table, Goto, ClaimsRemembered
  <2>5. CASE ExecuteRaises(d)
    BY <1>4, <2>5 DEF ExecuteRaises, table, Goto, ClaimsRemembered
  <2>6. CASE MarkCompleted(d)
    <3>1. item[d] \in Row
      BY <2>6 DEF MarkCompleted, ClaimsRemembered
    <3>2. QED
      BY <1>4, <2>6, <3>1, NextItemTypes DEF CallTypes, MarkCompleted
  <2>7. CASE MarkFailedAttempt(d)
    <3>1. item[d] \in Row
      BY <2>7 DEF MarkFailedAttempt, ClaimsRemembered
    <3>2. status' \in [Row -> Statuses] /\ due' \in [Row -> BOOLEAN]
      BY <2>7, <3>1 DEF MarkFailedAttempt, SetStatus, Unacknowledged, Exhausted
    <3>3. QED
      BY <1>4, <2>7, <3>2, NextItemTypes DEF CallTypes, MarkFailedAttempt
  <2>8. ASSUME NEW immediate \in BOOLEAN, RequeuePage(d, immediate) PROVE TypeOK'
    <3> DEFINE page == Page(FailedCleanups(through[d]))
    <3>1. /\ status' = [r \in Row |-> IF r \in page THEN "pending" ELSE status[r]]
          /\ attempts' = [r \in Row |-> IF r \in page THEN 0 ELSE attempts[r]]
      BY <2>8 DEF RequeuePage
    <3>2. /\ due' \in [Row -> BOOLEAN]
          /\ through' \in [Dispatchers -> 0..MaxRow]
      BY <1>4, <2>8 DEF RequeuePage
    <3>3. UNCHANGED <<appended, applied, pc, item, left, filter, faults>>
      BY <2>8 DEF RequeuePage
    <3> HIDE DEF page
    <3>4. status' \in [Row -> Statuses] /\ attempts' \in [Row -> Nat]
      BY <3>1
    <3>5. QED
      BY <3>2, <3>3, <3>4
  <2>9. ASSUME NEW kinds \in KindFilters, RequeueDone(d, kinds) PROVE TypeOK'
    BY <1>4, <2>9 DEF RequeueDone, ResetDispatching, Enter
  <2>10. QED
    BY <1>4, <2>1, <2>2, <2>3, <2>4, <2>5, <2>6, <2>7, <2>8, <2>9 DEF Step
<1>5. ASSUME NEW d \in Dispatchers, Abort(d) PROVE TypeOK'
  BY <1>5 DEF Abort, table, Return, Enter
<1>6. ASSUME NEW r \in Row, BackoffElapsed(r) PROVE TypeOK'
  BY <1>6 DEF BackoffElapsed, call
<1>7. CASE Crash
  BY <1>7 DEF Crash, table
<1>8. CASE UNCHANGED vars
  BY <1>8 DEF vars
<1>9. QED
  BY <1>1, <1>2, <1>3, <1>4, <1>5, <1>6, <1>7, <1>8 DEF Next

Rest == NotInserted /\ ClaimsRemembered /\ CompletedWasApplied /\ FailedUsedBudget

LEMMA InvStep == IInv /\ [Next]_vars => Rest'
<1> SUFFICES ASSUME IInv, [Next]_vars PROVE Rest'
  OBVIOUS
<1> USE OutboxAssumption
<1> USE DEF IInv, TypeOK, Row, NoRow, Statuses, Phases, Rest,
            NotInserted, ClaimsRemembered, CompletedWasApplied, FailedUsedBudget
<1>1. CASE Append
  BY <1>1 DEF Append, call
<1>2. ASSUME NEW d \in Dispatchers, NEW kinds \in KindFilters, BeginDispatch(d, kinds)
      PROVE  Rest'
  BY <1>2 DEF BeginDispatch, ResetDispatching, Enter
<1>3. ASSUME NEW d \in Dispatchers, BeginRecover(d)
      PROVE  Rest'
  BY <1>3 DEF BeginRecover, table, Enter
<1>4. ASSUME NEW d \in Dispatchers, Step(d)
      PROVE  Rest'
  <2>1. CASE CaptureBound(d)
    <3>1. /\ pc' \in {[pc EXCEPT ![d] = "idle"], [pc EXCEPT ![d] = "claim"]}
          /\ item' \in {[item EXCEPT ![d] = NoRow], item}
          /\ UNCHANGED <<table, applied>>
      BY <2>1 DEF CaptureBound, Return, Enter, Goto
    <3>2. UNCHANGED <<appended, status, attempts, applied>>
      BY <3>1 DEF table
    <3>3. NotInserted' /\ CompletedWasApplied' /\ FailedUsedBudget'
      BY <3>2
    <3>4. pc[d] = "bound"
      BY <2>1 DEF CaptureBound
    <3>5. \A c \in Dispatchers :
             pc'[c] \in {"execute", "completing", "failing"}
             => pc'[c] = pc[c] /\ item'[c] = item[c]
      BY <3>1, <3>4
    <3>6. ClaimsRemembered'
      BY <3>2, <3>5
    <3>7. QED
      BY <3>3, <3>6
  <2>2. CASE ClaimNext(d)
    <3>1. PICK r \in Row : /\ r \in Eligible(filter[d])
                           /\ status' = [status EXCEPT ![r] = "dispatching"]
                           /\ attempts' = [attempts EXCEPT ![r] = @ + 1]
                           /\ item' = [item EXCEPT ![d] = r]
                           /\ pc' = [pc EXCEPT ![d] = "execute"]
                           /\ UNCHANGED applied
      BY <2>2 DEF ClaimNext, IsLeast, Goto
    <3>2. status[r] = "pending" /\ UNCHANGED appended
      BY <2>2, <3>1 DEF ClaimNext, Eligible
    <3>3. NotInserted' /\ CompletedWasApplied' /\ FailedUsedBudget'
      BY <3>1, <3>2
    <3>4. ClaimsRemembered'
      BY <3>1, <3>2
    <3>5. QED
      BY <3>3, <3>4
  <2>3. CASE BatchDrained(d)
    BY <2>3 DEF BatchDrained, table, Return, Enter
  <2>4. CASE ExecuteOk(d)
    BY <2>4 DEF ExecuteOk, table, Goto
  <2>5. CASE ExecuteRaises(d)
    BY <2>5 DEF ExecuteRaises, table, Goto
  <2>6. CASE MarkCompleted(d)
    <3>1. /\ pc' \in {[pc EXCEPT ![d] = "idle"], [pc EXCEPT ![d] = "claim"]}
          /\ item' = [item EXCEPT ![d] = NoRow]
      BY <2>6 DEF MarkCompleted, NextItem, Return, Enter, Goto
    <3>2. QED
      BY <2>6, <3>1 DEF MarkCompleted
  <2>7. CASE MarkFailedAttempt(d)
    <3>1. /\ pc' \in {[pc EXCEPT ![d] = "idle"], [pc EXCEPT ![d] = "claim"]}
          /\ item' = [item EXCEPT ![d] = NoRow]
      BY <2>7 DEF MarkFailedAttempt, NextItem, Return, Enter, Goto
    <3>2. /\ UNCHANGED <<attempts, applied>>
          /\ \/ status' = status
             \/ status' = [status EXCEPT ![item[d]] = "pending"]
             \/ attempts[item[d]] >= MaxAttempts
                /\ status' = [status EXCEPT ![item[d]] = "failed"]
      BY <2>7 DEF MarkFailedAttempt, SetStatus, Unacknowledged, Exhausted
    <3>3. item[d] \in Row /\ status[item[d]] # "absent" /\ UNCHANGED appended
      BY <2>7 DEF MarkFailedAttempt
    <3>4. NotInserted'
      BY <3>2, <3>3
    <3>8. \A r \in Row : status[r] # "absent" => status'[r] # "absent"
      BY <3>2, <3>3
    <3>9. \A c \in Dispatchers :
             pc'[c] \in {"execute", "completing", "failing"}
             => pc'[c] = pc[c] /\ item'[c] = item[c]
      BY <3>1
    <3>5. ClaimsRemembered'
      BY <3>2, <3>8, <3>9
    <3>6. CompletedWasApplied' /\ FailedUsedBudget'
      BY <3>2, <3>3
    <3>7. QED
      BY <3>4, <3>5, <3>6
  <2>8. ASSUME NEW immediate \in BOOLEAN, RequeuePage(d, immediate)
        PROVE  Rest'
    <3> DEFINE page == Page(FailedCleanups(through[d]))
    <3>1. /\ status' = [r \in Row |-> IF r \in page THEN "pending" ELSE status[r]]
          /\ attempts' = [r \in Row |-> IF r \in page THEN 0 ELSE attempts[r]]
          /\ UNCHANGED <<appended, applied, pc, item>>
      BY <2>8 DEF RequeuePage
    <3>2. \A r \in page : status[r] = "failed"
      BY DEF Page, FailedCleanups
    <3> HIDE DEF page
    <3>3. NotInserted' /\ CompletedWasApplied'
      BY <3>1, <3>2
    <3>4. ClaimsRemembered' /\ FailedUsedBudget'
      BY <3>1, <3>2
    <3>5. QED
      BY <3>3, <3>4
  <2>9. ASSUME NEW kinds \in KindFilters, RequeueDone(d, kinds)
        PROVE  Rest'
    BY <2>9 DEF RequeueDone, ResetDispatching, Enter
  <2>10. QED
    BY <1>4, <2>1, <2>2, <2>3, <2>4, <2>5, <2>6, <2>7, <2>8, <2>9 DEF Step
<1>5. ASSUME NEW d \in Dispatchers, Abort(d)
      PROVE  Rest'
  BY <1>5 DEF Abort, table, Return, Enter
<1>6. ASSUME NEW r \in Row, BackoffElapsed(r)
      PROVE  Rest'
  BY <1>6 DEF BackoffElapsed, call
<1>7. CASE Crash
  BY <1>7 DEF Crash, table
<1>8. CASE UNCHANGED vars
  BY <1>8 DEF vars
<1>9. QED
  BY <1>1, <1>2, <1>3, <1>4, <1>5, <1>6, <1>7, <1>8 DEF Next

(* The inductive invariant holds in every reachable state.                 *)
THEOREM OutboxInvariant == Spec => []IInv
<1>1. Init => IInv
  BY InitInv
<1>2. IInv /\ [Next]_vars => IInv'
  BY TypeStep, InvStep DEF IInv, Rest
<1>3. QED
  BY <1>1, <1>2, PTL DEF Spec

(* Every variable keeps its type; in particular a drain never counts more  *)
(* deliveries than its batch, and never looks beyond the last row.         *)
THEOREM OutboxTypes == Spec => []TypeOK
<1>1. IInv => TypeOK
  BY DEF IInv
<1>2. QED
  BY <1>1, OutboxInvariant, PTL

(* A row is acknowledged only after its side effect took place.            *)
THEOREM AcknowledgedWasApplied == Spec => []CompletedWasApplied
<1>1. IInv => CompletedWasApplied
  BY DEF IInv
<1>2. QED
  BY <1>1, OutboxInvariant, PTL

(* A failed row has used its whole delivery budget.                        *)
THEOREM FailureUsesBudget == Spec => []FailedUsedBudget
<1>1. IInv => FailedUsedBudget
  BY DEF IInv
<1>2. QED
  BY <1>1, OutboxInvariant, PTL

(* What one step does to a completed row, and to a failed row of a kind    *)
(* other than a cleanup.                                                   *)
StaysCompleted == \A r \in Row : status[r] = "completed" => status'[r] = "completed"
StaysFailed ==
  \A r \in Row : status[r] = "failed" /\ Kind[r] # Cleanup
                   => status'[r] \in {"failed", "completed"}

LEMMA FinalStep == IInv /\ [Next]_vars => StaysCompleted /\ StaysFailed
<1> SUFFICES ASSUME IInv, [Next]_vars PROVE StaysCompleted /\ StaysFailed
  OBVIOUS
<1> USE OutboxAssumption
<1> USE DEF IInv, TypeOK, Row, NoRow, Statuses, Phases, StaysCompleted, StaysFailed
<1>1. CASE Append
  BY <1>1 DEF Append, NotInserted
<1>2. ASSUME NEW d \in Dispatchers, NEW kinds \in KindFilters, BeginDispatch(d, kinds)
      PROVE  StaysCompleted /\ StaysFailed
  BY <1>2 DEF BeginDispatch, ResetDispatching
<1>3. ASSUME NEW d \in Dispatchers, BeginRecover(d) PROVE StaysCompleted /\ StaysFailed
  BY <1>3 DEF BeginRecover, table
<1>4. ASSUME NEW d \in Dispatchers, Step(d) PROVE StaysCompleted /\ StaysFailed
  <2>1. CASE CaptureBound(d) \/ BatchDrained(d) \/ ExecuteOk(d) \/ ExecuteRaises(d)
    BY <2>1 DEF CaptureBound, BatchDrained, ExecuteOk, ExecuteRaises, table
  <2>2. CASE ClaimNext(d)
    <3>1. PICK r \in Row : status[r] = "pending" /\ status' = [status EXCEPT ![r] = "dispatching"]
      BY <2>2 DEF ClaimNext, IsLeast, Eligible
    <3>2. QED
      BY <3>1
  <2>3. CASE MarkCompleted(d)
    BY <2>3 DEF MarkCompleted, ClaimsRemembered
  <2>4. CASE MarkFailedAttempt(d)
    <3>1. \/ status' = status
          \/ /\ status[item[d]] # "completed" /\ attempts[item[d]] < MaxAttempts
             /\ status' = [status EXCEPT ![item[d]] = "pending"]
          \/ /\ status[item[d]] # "completed"
             /\ status' = [status EXCEPT ![item[d]] = "failed"]
      BY <2>4 DEF MarkFailedAttempt, SetStatus, Unacknowledged, Exhausted
    <3>2. item[d] \in Row
      BY <2>4 DEF MarkFailedAttempt, ClaimsRemembered
    <3>3. status[item[d]] = "failed" => ~(attempts[item[d]] < MaxAttempts)
      BY <3>2 DEF FailedUsedBudget
    <3>4. QED
      BY <3>1, <3>2, <3>3
  <2>5. ASSUME NEW immediate \in BOOLEAN, RequeuePage(d, immediate)
        PROVE  StaysCompleted /\ StaysFailed
    BY <2>5 DEF RequeuePage, Page, FailedCleanups
  <2>6. ASSUME NEW kinds \in KindFilters, RequeueDone(d, kinds)
        PROVE  StaysCompleted /\ StaysFailed
    BY <2>6 DEF RequeueDone, ResetDispatching
  <2>7. QED
    BY <1>4, <2>1, <2>2, <2>3, <2>4, <2>5, <2>6 DEF Step
<1>5. ASSUME NEW d \in Dispatchers, Abort(d) PROVE StaysCompleted /\ StaysFailed
  BY <1>5 DEF Abort, table
<1>6. ASSUME NEW r \in Row, BackoffElapsed(r) PROVE StaysCompleted /\ StaysFailed
  BY <1>6 DEF BackoffElapsed
<1>7. CASE Crash
  BY <1>7 DEF Crash, table
<1>8. CASE UNCHANGED vars
  BY <1>8 DEF vars
<1>9. QED
  BY <1>1, <1>2, <1>3, <1>4, <1>5, <1>6, <1>7, <1>8 DEF Next

(* Acknowledgement is final.                                               *)
THEOREM AcknowledgementIsFinal == Spec => CompletedIsFinal
<1>1. IInv /\ [Next]_vars =>
        [\A r \in Row : status[r] = "completed" => status'[r] = "completed"]_vars
  BY FinalStep DEF StaysCompleted
<1>2. QED
  BY <1>1, OutboxInvariant, PTL DEF Spec, CompletedIsFinal

(* Only cleanup rows are revived after they failed.                        *)
THEOREM RevivesOnlyCleanups == Spec => OnlyCleanupsRevived
<1>1. IInv /\ [Next]_vars =>
        [\A r \in Row : status[r] = "failed" /\ Kind[r] # Cleanup
                          => status'[r] \in {"failed", "completed"}]_vars
  BY FinalStep DEF StaysFailed
<1>2. QED
  BY <1>1, OutboxInvariant, PTL DEF Spec, OnlyCleanupsRevived
=============================================================================
