------------------------ MODULE GraphControllerProofs ------------------------
(***************************************************************************)
(* Proofs about GraphController, for every set of commands and callers,    *)
(* every command function Decide and every bound.                          *)
(***************************************************************************)
EXTENDS GraphController, SequenceTheorems, TLAPS

(* What a checkpoint or a reader holds is the log up to its position.      *)
IsFold(s, n) == n <= Len(log) /\ s = SubSeq(log, 1, n)

RowIsFold == IsFold(rowState, rowPos)

ReadIsFold == \A c \in Callers : IsFold(projection[c], position[c])

(* A planned command was planned at its expected position, and a patch on a*)
(* projection that does not hold it.                                       *)
PlanIsSound ==
  \A c \in Callers :
    pc[c] = "write" => position[c] = expected[c] /\ ~Reconciled(c)

Submitted(c) == pc[c] # "idle" \/ answer[c] # "none"

(* Commands other than patches have one submission; start-up's events none.*)
SubmissionsDiffer ==
  /\ \A c \in Callers : Submitted(c) => cmd[c] \in issued \ Requeues
  /\ \A c, d \in Callers :
       c # d /\ Submitted(c) /\ Submitted(d) /\ cmd[c] = cmd[d] => cmd[c] \in Patches

(* What has been applied, seen from the log and from the callers.          *)
AppliedIsLogged ==
  \A m \in Patches \cap applied : \E i \in 1..Len(log) : log[i].cmd = m

LoggedIsApplied == \A i \in 1..Len(log) : log[i].cmd \in applied

AppliedWasIssued == applied \subseteq issued \cup Requeues

Unanswered(c) == pc[c] \in Phases \ {"idle", "output"}

OpenIsUnapplied ==
  \A c \in Callers :
    /\ Unanswered(c) /\ cmd[c] \notin Patches => cmd[c] \notin applied
    /\ pc[c] = "output" => cmd[c] \in applied

BusyIsUnanswered == \A c \in Callers : pc[c] # "idle" => answer[c] = "none"

Kernel ==
  /\ RowIsFold /\ ReadIsFold /\ PlanIsSound
  /\ SubmissionsDiffer
  /\ AppliedIsLogged /\ LoggedIsApplied /\ AppliedWasIssued
  /\ OpenIsUnapplied /\ BusyIsUnanswered /\ AnswerIsTrue

IInv == TypeOK /\ Kernel

USE ControllerAssumption

-----------------------------------------------------------------------------
(* A batch is a sequence of events of its command.                         *)
LEMMA BatchType ==
  ASSUME NEW m \in Commands, NEW s
  PROVE  /\ Batch(m, s) \in Seq(Entry)
         /\ Len(Batch(m, s)) = Size[m]
         /\ \A i \in 1..Size[m] : Batch(m, s)[i].cmd = m
<1>1. Serial!Fact(m, s) \in Facts
  BY DEF Serial!Fact
<1>2. Size[m] \in Nat
  OBVIOUS
<1>3. Batch(m, s) = [k \in 1..Size[m] |-> [cmd |-> m, fact |-> Serial!Fact(m, s)]]
  BY DEF Batch, Serial!Batch
<1>4. \A k \in 1..Size[m] : Batch(m, s)[k] \in Entry /\ Batch(m, s)[k].cmd = m
  BY <1>1, <1>3 DEF Entry, Serial!Entry
<1>5. Batch(m, s) \in Seq(Entry)
  BY <1>2, <1>3, <1>4
<1> QED
  BY <1>2, <1>3, <1>4, <1>5

(* Appending keeps every fold a fold.                                      *)
LEMMA FoldSurvives ==
  ASSUME TypeOK, NEW b \in Seq(Entry), log' = log \o b,
         NEW s, NEW n \in Nat, IsFold(s, n)
  PROVE  IsFold(s, n)'
<1>1. log \in Seq(Entry)
  BY DEF TypeOK
<1>2. Len(log \o b) = Len(log) + Len(b) /\ Len(b) \in Nat /\ Len(log) \in Nat
  BY <1>1, ConcatProperties
<1>3. SubSeq(log \o b, 1, n) = SubSeq(log, 1, n)
  <2>1. CASE n = 0
    BY <2>1, SubSeqEmpty
  <2>2. CASE n # 0
    <3>1. 1 \in 1..Len(log) /\ n \in 1..Len(log)
      BY <1>2, <2>2 DEF IsFold
    <3> QED
      BY <3>1, <1>1, SubSeqOfConcat1
  <2> QED
    BY <2>1, <2>2
<1> QED
  BY <1>2, <1>3 DEF IsFold

(* A reader's fold and the events after it make a fold at the head.        *)
LEMMA TailCompletesFold ==
  ASSUME TypeOK, NEW s, NEW n \in Nat, IsFold(s, n)
  PROVE  /\ s \o EventsAfter(n) = log
         /\ IsFold(s \o EventsAfter(n), Top)
         /\ EventsAfter(n) \in Seq(Entry)
<1>1. log \in Seq(Entry)
  BY DEF TypeOK
<1>2. Len(log) \in Nat /\ n \in 0..Len(log)
  BY <1>1, LenProperties DEF IsFold
<1>3. SubSeq(log, 1, n) \o SubSeq(log, n + 1, Len(log)) = SubSeq(log, 1, Len(log))
  <2>1. 1 \in 1..Len(log) + 1 /\ n \in (1 - 1)..Len(log) /\ Len(log) \in n..Len(log)
    BY <1>2
  <2> QED
    BY <1>1, <2>1, ConcatAdjacentSubSeq
<1>4. SubSeq(log, 1, Len(log)) = log
  BY <1>1, SubSeqFull
<1>5. SubSeq(log, n + 1, Len(log)) \in Seq(Entry)
  <2>1. \A i \in (n + 1)..Len(log) : log[i] \in Entry
    BY <1>1, <1>2, ElementOfSeq
  <2> QED
    BY <1>2, <2>1, SubSeqProperties
<1>6. s = SubSeq(log, 1, n)
  BY DEF IsFold
<1>7. EventsAfter(n) = SubSeq(log, n + 1, Len(log))
  BY DEF EventsAfter, Top
<1>8. s \o EventsAfter(n) = log
  BY <1>3, <1>4, <1>6, <1>7
<1>9. IsFold(log, Top)
  BY <1>2, <1>4 DEF IsFold, Top
<1> QED
  BY <1>5, <1>7, <1>8, <1>9

(* A fold at the head is the log.                                          *)
LEMMA FullFold ==
  ASSUME TypeOK, NEW s, IsFold(s, Len(log))
  PROVE  s = log
<1>1. SubSeq(log, 1, Len(log)) = log
  BY SubSeqFull DEF TypeOK
<1>2. s = SubSeq(log, 1, Len(log))
  BY DEF IsFold
<1> QED
  BY <1>1, <1>2

-----------------------------------------------------------------------------
LEMMA InitInv == Init => IInv
<1> SUFFICES ASSUME Init PROVE IInv
  OBVIOUS
<1>1. TypeOK
  <2>1. << >> \in Seq(Entry) /\ (CHOOSE m \in Commands : TRUE) \in Commands
    OBVIOUS
  <2>2. 0 \in 0..MaxTries /\ 0 \in 0..MaxFaults
    OBVIOUS
  <2> QED
    BY <2>1, <2>2 DEF Init, TypeOK, Phases, Answers
<1>2. Len(log) = 0 /\ SubSeq(log, 1, 0) = << >>
  BY SubSeqEmpty DEF Init
<1>3. RowIsFold /\ ReadIsFold
  BY <1>2 DEF Init, RowIsFold, ReadIsFold, IsFold
<1> QED
  BY <1>1, <1>2, <1>3 DEF Init, IInv, Kernel, PlanIsSound, SubmissionsDiffer, Submitted,
     AppliedIsLogged, LoggedIsApplied, AppliedWasIssued, OpenIsUnapplied, Unanswered,
     BusyIsUnanswered, AnswerIsTrue

-----------------------------------------------------------------------------
(* Writing the batch of a typed command keeps the log a sequence of events.*)
LEMMA LogGrows ==
  ASSUME TypeOK, NEW m \in Commands, NEW s \in Seq(Entry)
  PROVE  /\ s \o Batch(m, s) \in Seq(Entry)
         /\ Len(s \o Batch(m, s)) = Len(s) + Size[m]
         /\ Len(s) \in Nat /\ Size[m] \in Nat
<1>1. Batch(m, s) \in Seq(Entry) /\ Len(Batch(m, s)) = Size[m]
  BY BatchType
<1>2. Len(s) \in Nat /\ Size[m] \in Nat
  BY <1>1, LenProperties
<1>3. /\ s \o Batch(m, s) \in Seq(Entry)
      /\ Len(s \o Batch(m, s)) = Len(s) + Len(Batch(m, s))
  BY <1>1, ConcatProperties
<1>4. QED
  BY <1>1, <1>2, <1>3

LEMMA TypeStep == IInv /\ [Next]_vars => TypeOK'
<1> SUFFICES ASSUME IInv, [Next]_vars PROVE TypeOK'
  OBVIOUS
<1>1. TypeOK /\ RowIsFold /\ ReadIsFold
  BY DEF IInv, Kernel
<1>2. Top \in Nat
  BY <1>1, LenProperties DEF TypeOK, Top
<1>3. ASSUME NEW c \in Callers, NEW m \in Commands, NEW n \in 0..Top, Begin(c, m, n)
      PROVE  TypeOK'
  <2>1. n \in Nat /\ 0 \in 0..MaxTries
    BY <1>2
  <2> QED
    BY <1>1, <1>3, <2>1
       DEF TypeOK, Begin, Goto, row, read, Phases, Answers
<1>4. ASSUME NEW c \in Callers, LoadCheckpoint(c) PROVE TypeOK'
  BY <1>1, <1>4 DEF TypeOK, LoadCheckpoint, Goto, row, Phases
<1>5. ASSUME NEW c \in Callers, NEW what \in Answers, Reply(c, what)
      PROVE  /\ pc' \in [Callers -> Phases] /\ answer' \in [Callers -> Answers]
             /\ expected' \in [Callers -> Nat] /\ position' \in [Callers -> Nat]
             /\ projection' \in [Callers -> Seq(Entry)]
             /\ tries' \in [Callers -> 0..MaxTries]
  <2>1. << >> \in Seq(Entry) /\ 0 \in 0..MaxTries
    BY EmptySeq
  <2> QED
    BY <1>1, <1>5, <2>1 DEF TypeOK, Reply, Goto, Phases
<1>6. ASSUME NEW c \in Callers, TailUnavailable(c) PROVE TypeOK'
  BY <1>1, <1>5, <1>6 DEF TypeOK, TailUnavailable, row, Answers
<1>7. ASSUME NEW c \in Callers, ReadTail(c) PROVE TypeOK'
  <2>1. projection[c] \o EventsAfter(position[c]) = log
    <3>1. IsFold(projection[c], position[c]) /\ position[c] \in Nat
      BY <1>1 DEF ReadIsFold, TypeOK
    <3> QED
      BY <1>1, <3>1, TailCompletesFold
  <2>2. log \in Seq(Entry)
    BY <1>1 DEF TypeOK
  <2>3. projection' = [projection EXCEPT ![c] = log]
    BY <1>1, <1>7, <2>1 DEF ReadTail, TypeOK
  <2>4. pc' \in [Callers -> Phases]
    BY <1>1, <1>7 DEF ReadTail, TypeOK, Goto, Phases
  <2> QED
    BY <1>1, <1>2, <1>7, <2>2, <2>3, <2>4 DEF TypeOK, ReadTail, row
<1>8. ASSUME NEW c \in Callers, SaveCheckpoint(c) PROVE TypeOK'
  BY <1>1, <1>8 DEF TypeOK, SaveCheckpoint, SavedPosition, Goto, read, Phases
<1>9. ASSUME NEW c \in Callers, ReconcilePatch(c) \/ Output(c) \/ GiveUp(c)
      PROVE TypeOK'
  BY <1>1, <1>5, <1>9 DEF TypeOK, ReconcilePatch, Output, GiveUp, row, Answers
<1>10. ASSUME NEW c \in Callers, PlanStale(c) \/ Plan(c) \/ WriteStale(c)
       PROVE TypeOK'
  BY <1>1, <1>10 DEF TypeOK, PlanStale, Plan, WriteStale, Goto, row, read, Phases
<1>11. ASSUME NEW c \in Callers, Write(c) PROVE TypeOK'
  <2> DEFINE b == Batch(cmd[c], projection[c])
  <2>1. cmd[c] \in Commands /\ projection[c] \in Seq(Entry) /\ log \in Seq(Entry)
    BY <1>1 DEF TypeOK
  <2>2. b \in Seq(Entry) /\ Len(b) \in Nat
    BY <2>1, BatchType
  <2>5. log' = log \o b
    BY <1>11 DEF Write
  <2>3. log' \in Seq(Entry) /\ projection[c] \o b \in Seq(Entry)
    BY <2>1, <2>2, <2>5, ConcatProperties
  <2>4. rowPos' \in Nat /\ rowState' \in Seq(Entry)
    <3>1. \/ rowPos' = rowPos /\ rowState' = rowState
          \/ rowPos' = expected[c] + Len(b) /\ rowState' = projection[c] \o b
      BY <1>11 DEF Write, row
    <3>2. expected[c] \in Nat /\ rowPos \in Nat /\ rowState \in Seq(Entry)
      BY <1>1 DEF TypeOK
    <3>3. expected[c] + Len(b) \in Nat
      BY <2>2, <3>2
    <3> HIDE DEF b
    <3> QED
      BY <2>3, <3>1, <3>2, <3>3
  <2> QED
    BY <1>1, <1>11, <2>1, <2>3, <2>4 DEF TypeOK, Write, Goto, read, Phases
<1>12. ASSUME NEW c \in Callers, Resend(c) PROVE TypeOK'
  <2>1. tries' \in [Callers -> 0..MaxTries]
    <3>1. tries[c] \in Nat /\ tries[c] + 1 \in 0..MaxTries
      BY <1>1, <1>12 DEF TypeOK, Resend, MayResend
    <3> QED
      BY <1>1, <1>12, <3>1 DEF TypeOK, Resend
  <2>2. expected' \in [Callers -> Nat]
    BY <1>1, <1>2, <1>12 DEF TypeOK, Resend
  <2> QED
    BY <1>1, <1>12, <2>1, <2>2 DEF TypeOK, Resend, Goto, row, read, Phases
<1>13. ASSUME NEW c \in Callers, Locked(c) PROVE TypeOK'
  BY <1>1, <1>13 DEF TypeOK, Locked, Goto, row, read, Phases
<1>14. ASSUME NEW c \in Callers, Cancel(c) PROVE TypeOK'
  BY <1>1, <1>5, <1>14, SMTT(30) DEF TypeOK, Cancel, row, Answers
<1>15. ASSUME NEW m \in Commands, Requeue(m) PROVE TypeOK'
  <2>1. log' \in Seq(Entry) /\ Len(log') \in Nat
    BY <1>1, <1>15, LogGrows, LenProperties DEF Requeue, TypeOK
  <2> QED
    BY <1>1, <1>15, <2>1 DEF TypeOK, Requeue, read
<1>16. CASE Maintain
  BY <1>1, <1>2, <1>16 DEF TypeOK, Maintain, read
<1>17. CASE RejectCheckpoint
  BY <1>1, <1>17, EmptySeq DEF TypeOK, RejectCheckpoint, read
<1>18. CASE UNCHANGED vars
  BY <1>1, <1>18 DEF TypeOK, vars, row, read
<1> QED
  BY <1>3, <1>4, <1>6, <1>7, <1>8, <1>9, <1>10, <1>11, <1>12, <1>13, <1>14,
     <1>15, <1>16, <1>17, <1>18 DEF Next, Step

-----------------------------------------------------------------------------
(* The heart of the argument: whatever happened since it was planned, a    *)
(* batch that passes the re-check was planned on the whole log, by a       *)
(* command that has not been applied.                                      *)
LEMMA DecisionIsCurrent ==
  ASSUME IInv, NEW c \in Callers, Write(c)
  PROVE  /\ projection[c] = log /\ expected[c] = Len(log)
         /\ cmd[c] \in Commands \ (applied \cup Requeues)
<1>1. TypeOK /\ ReadIsFold /\ PlanIsSound /\ AppliedIsLogged /\ OpenIsUnapplied
      /\ SubmissionsDiffer
  BY DEF IInv, Kernel
<1>2. pc[c] = "write" /\ Len(log) = expected[c]
  BY DEF Write, HeadIsExpected, Top
<1>3. position[c] = expected[c] /\ ~Reconciled(c)
  BY <1>1, <1>2 DEF PlanIsSound
<1>4. projection[c] = log
  <2>1. IsFold(projection[c], Len(log))
    BY <1>1, <1>2, <1>3 DEF ReadIsFold
  <2> QED
    BY <1>1, <2>1, FullFold
<1>5. DOMAIN log = 1..Len(log)
  BY <1>1, LenProperties DEF TypeOK
<1>6. cmd[c] \notin applied
  <2>1. CASE cmd[c] \in Patches
    BY <1>1, <1>3, <1>4, <1>5, <2>1 DEF Reconciled, AppliedIsLogged
  <2>2. CASE cmd[c] \notin Patches
    BY <1>1, <1>2, <2>2 DEF OpenIsUnapplied, Unanswered, Phases
  <2> QED
    BY <2>1, <2>2
<1>7. cmd[c] \in Commands \ Requeues
  BY <1>1, <1>2 DEF SubmissionsDiffer, Submitted, TypeOK
<1> QED
  BY <1>2, <1>4, <1>6, <1>7

(* What the two actions that append do to the log.                         *)
LEMMA WriteGrows ==
  ASSUME IInv, NEW c \in Callers, Write(c)
  PROVE  /\ Batch(cmd[c], log) \in Seq(Entry)
         /\ log' = log \o Batch(cmd[c], log)
         /\ Len(Batch(cmd[c], log)) = Size[cmd[c]]
         /\ \/ UNCHANGED row
            \/ rowPos' = Len(log') /\ rowState' = log'
<1> DEFINE b == Batch(cmd[c], log)
<1>1. TypeOK /\ log \in Seq(Entry)
  BY DEF IInv, TypeOK
<1>2. projection[c] = log /\ expected[c] = Len(log) /\ cmd[c] \in Commands
  BY DecisionIsCurrent
<1>3. b \in Seq(Entry) /\ Len(b) = Size[cmd[c]]
  BY <1>2, BatchType
<1>4. log' = log \o b
  BY <1>2 DEF Write
<1>5. Len(log \o b) = Len(log) + Len(b)
  BY <1>1, <1>3, ConcatProperties
<1>6. \/ UNCHANGED row
      \/ rowPos' = expected[c] + Len(b) /\ rowState' = projection[c] \o b
  BY <1>2 DEF Write
<1> QED
  BY <1>2, <1>3, <1>4, <1>5, <1>6

LEMMA RequeueGrows ==
  ASSUME IInv, NEW m \in Commands, Requeue(m)
  PROVE  /\ Batch(m, log) \in Seq(Entry)
         /\ log' = log \o Batch(m, log)
         /\ rowPos' = Len(log') /\ rowState' = log'
BY BatchType DEF IInv, Requeue

(* The whole log is a fold at the head.                                    *)
LEMMA WholeLog ==
  ASSUME NEW s, s \in Seq(Entry)
  PROVE  Len(s) <= Len(s) /\ s = SubSeq(s, 1, Len(s))
BY SubSeqFull, LenProperties

LEMMA FoldStep ==
  ASSUME IInv, [Next]_vars, TypeOK'
  PROVE  RowIsFold' /\ ReadIsFold'
<1>1. TypeOK /\ RowIsFold /\ ReadIsFold
  BY DEF IInv, Kernel
<1>2. log \in Seq(Entry) /\ log' \in Seq(Entry)
  BY <1>1 DEF TypeOK
<1>3. /\ Len(log) <= Len(log) /\ log = SubSeq(log, 1, Len(log))
      /\ Len(log') <= Len(log') /\ log' = SubSeq(log', 1, Len(log'))
  BY <1>2, WholeLog
<1>4. IsFold(<< >>, 0)
  BY <1>2, SubSeqEmpty, LenProperties DEF IsFold
<1>5. ASSUME NEW b \in Seq(Entry), log' = log \o b, UNCHANGED read
      PROVE  ReadIsFold'
  <2>1. ASSUME NEW c \in Callers PROVE IsFold(projection[c], position[c])'
    <3>1. IsFold(projection[c], position[c]) /\ position[c] \in Nat
      BY <1>1 DEF ReadIsFold, TypeOK
    <3>2. IsFold(projection[c], position[c])' <=> /\ position[c] <= Len(log')
                                                  /\ projection[c] = SubSeq(log', 1, position[c])
      BY <1>5 DEF read, IsFold
    <3>3. position[c] <= Len(log \o b) /\ projection[c] = SubSeq(log \o b, 1, position[c])
      BY <1>1, <1>5, <3>1, FoldSurvives DEF IsFold
    <3> QED
      BY <1>5, <3>2, <3>3
  <2> QED
    BY <2>1 DEF ReadIsFold
<1>6. ASSUME NEW b \in Seq(Entry), log' = log \o b, UNCHANGED row
      PROVE  RowIsFold'
  <2>1. rowPos \in Nat /\ IsFold(rowState, rowPos)
    BY <1>1 DEF RowIsFold, TypeOK
  <2>2. IsFold(rowState, rowPos)'
    BY <1>1, <1>6, <2>1, FoldSurvives DEF row, IsFold
  <2> QED
    BY <2>2 DEF RowIsFold
<1>7. ASSUME NEW c \in Callers, UNCHANGED log,
             position' = [position EXCEPT ![c] = position'[c]],
             projection' = [projection EXCEPT ![c] = projection'[c]],
             IsFold(projection'[c], position'[c])
      PROVE  ReadIsFold'
  BY <1>1, <1>7 DEF ReadIsFold, IsFold, TypeOK
<1>8. ASSUME UNCHANGED <<log, row>> PROVE RowIsFold'
  BY <1>1, <1>8 DEF RowIsFold, IsFold, row
<1>9. ASSUME UNCHANGED <<log, read>> PROVE ReadIsFold'
  BY <1>1, <1>9 DEF ReadIsFold, IsFold, read
<1>10. ASSUME NEW c \in Callers, NEW what, Reply(c, what), UNCHANGED log
       PROVE  ReadIsFold'
  <2>1. position'[c] = 0 /\ projection'[c] = << >>
    BY <1>1, <1>10 DEF Reply, TypeOK
  <2> QED
    BY <1>1, <1>4, <1>7, <1>10, <2>1 DEF Reply, TypeOK
<1>11. ASSUME NEW c \in Callers, LoadCheckpoint(c) PROVE RowIsFold' /\ ReadIsFold'
  <2>1. position'[c] = rowPos /\ projection'[c] = rowState /\ IsFold(rowState, rowPos)
    BY <1>1, <1>11 DEF LoadCheckpoint, TypeOK, RowIsFold
  <2> QED
    BY <1>7, <1>8, <1>11, <2>1 DEF LoadCheckpoint
<1>12. ASSUME NEW c \in Callers, ReadTail(c) PROVE RowIsFold' /\ ReadIsFold'
  <2>1. IsFold(projection[c], position[c]) /\ position[c] \in Nat
    BY <1>1 DEF ReadIsFold, TypeOK
  <2>2. position'[c] = Top /\ projection'[c] = projection[c] \o EventsAfter(position[c])
    BY <1>1, <1>12 DEF ReadTail, TypeOK
  <2>3. IsFold(projection'[c], position'[c])
    BY <1>1, <2>1, <2>2, TailCompletesFold
  <2> QED
    BY <1>7, <1>8, <1>12, <2>2, <2>3 DEF ReadTail
<1>13. ASSUME NEW c \in Callers, SaveCheckpoint(c) PROVE RowIsFold' /\ ReadIsFold'
  <2>1. IsFold(projection[c], position[c])
    BY <1>1 DEF ReadIsFold
  <2>2. RowIsFold'
    BY <1>13, <2>1 DEF SaveCheckpoint, SavedPosition, RowIsFold, IsFold
  <2> QED
    BY <1>9, <1>13, <2>2 DEF SaveCheckpoint
<1>14. ASSUME NEW c \in Callers,
              TailUnavailable(c) \/ ReconcilePatch(c) \/ Output(c) \/ GiveUp(c) \/ Cancel(c)
       PROVE  RowIsFold' /\ ReadIsFold'
  BY <1>8, <1>10, <1>14 DEF TailUnavailable, ReconcilePatch, Output, GiveUp, Cancel
<1>15. ASSUME NEW c \in Callers, Write(c) PROVE RowIsFold' /\ ReadIsFold'
  <2> DEFINE b == Batch(cmd[c], log)
  <2>1. b \in Seq(Entry) /\ log' = log \o b
    BY <1>15, WriteGrows
  <2>2. ReadIsFold'
    BY <1>5, <1>15, <2>1 DEF Write
  <2>3. CASE UNCHANGED row
    BY <1>6, <2>1, <2>2, <2>3
  <2>4. CASE rowPos' = Len(log') /\ rowState' = log'
    BY <1>3, <2>2, <2>4 DEF RowIsFold, IsFold
  <2> QED
    BY <1>15, <2>3, <2>4, WriteGrows
<1>16. ASSUME NEW m \in Commands, Requeue(m) PROVE RowIsFold' /\ ReadIsFold'
  <2> DEFINE b == Batch(m, log)
  <2>1. b \in Seq(Entry) /\ log' = log \o b /\ rowPos' = Len(log') /\ rowState' = log'
    BY <1>16, RequeueGrows
  <2>2. ReadIsFold'
    BY <1>5, <1>16, <2>1 DEF Requeue
  <2> QED
    BY <1>3, <2>1, <2>2 DEF RowIsFold, IsFold
<1>17. CASE Maintain
  BY <1>3, <1>9, <1>17 DEF Maintain, RowIsFold, IsFold, Top
<1>18. CASE RejectCheckpoint
  BY <1>4, <1>9, <1>18 DEF RejectCheckpoint, RowIsFold, IsFold
<1>19. ASSUME UNCHANGED <<log, row, read>> PROVE RowIsFold' /\ ReadIsFold'
  BY <1>8, <1>9, <1>19
<1>20. ASSUME NEW c \in Callers, NEW m \in Commands, NEW n \in 0..Top, Begin(c, m, n)
       PROVE  UNCHANGED <<log, row, read>>
  BY <1>20 DEF Begin
<1>21. ASSUME NEW c \in Callers,
              PlanStale(c) \/ Plan(c) \/ WriteStale(c) \/ Resend(c) \/ Locked(c)
       PROVE  UNCHANGED <<log, row, read>>
  BY <1>21 DEF PlanStale, Plan, WriteStale, Resend, Locked
<1>22. CASE UNCHANGED vars
  BY <1>19, <1>22 DEF vars
<1> QED
  BY <1>11, <1>12, <1>13, <1>14, <1>15, <1>16, <1>17, <1>18, <1>19, <1>20, <1>21, <1>22
     DEF Next, Step

-----------------------------------------------------------------------------
(* A step of one caller leaves the locals of the others alone.             *)
Act(c) ==
  \/ \E m \in Commands, n \in 0..Top : Begin(c, m, n)
  \/ Step(c) \/ Locked(c) \/ Cancel(c)

LEMMA OthersUnchanged ==
  ASSUME TypeOK, NEW c \in Callers, Act(c), NEW d \in Callers, d # c
  PROVE  /\ pc'[d] = pc[d] /\ cmd'[d] = cmd[d] /\ expected'[d] = expected[d]
         /\ position'[d] = position[d] /\ projection'[d] = projection[d]
         /\ answer'[d] = answer[d]
BY DEF TypeOK, Act, Step, Begin, LoadCheckpoint, TailUnavailable, ReadTail, SaveCheckpoint,
   ReconcilePatch, PlanStale, Plan, WriteStale, Write, Output, Resend, GiveUp, Locked,
   Cancel, Reply, Goto, read

(* What a step can be, by what it does to the acting caller.               *)
LEMMA ActorPhases ==
  ASSUME TypeOK, NEW c \in Callers, Act(c)
  PROVE  \/ /\ pc'[c] = "load" /\ pc[c] = "idle" /\ answer'[c] = "none"
            /\ UNCHANGED applied
            /\ \E m \in Commands : /\ m \notin Requeues /\ (m \in Patches \/ m \notin issued)
                                   /\ issued' = issued \cup {m} /\ cmd'[c] = m
         \/ /\ Unanswered(c)
            /\ pc'[c] \in Phases \ {"idle", "write", "output"} /\ answer'[c] = answer[c]
            /\ UNCHANGED <<applied, issued, cmd>>
         \/ /\ Plan(c) /\ pc'[c] = "write" /\ pc[c] = "plan" /\ answer'[c] = answer[c]
            /\ UNCHANGED <<applied, issued, cmd>>
         \/ /\ Write(c) /\ pc'[c] = "output" /\ pc[c] = "write" /\ answer'[c] = answer[c]
            /\ applied' = applied \cup {cmd[c]} /\ UNCHANGED <<issued, cmd>>
         \/ /\ pc'[c] = "idle" /\ pc[c] # "idle" /\ UNCHANGED <<applied, issued, cmd>>
            /\ \/ answer'[c] = "failed" /\ Unanswered(c)
               \/ answer'[c] = "cancelled"
               \/ answer'[c] = "ok" /\ pc[c] = "output"
               \/ answer'[c] = "ok" /\ ReconcilePatch(c)
<1>1. CASE \E m \in Commands, n \in 0..Top : Begin(c, m, n)
  BY <1>1 DEF TypeOK, Begin, Goto
<1>2. CASE Plan(c) \/ Write(c)
  BY <1>2 DEF TypeOK, Plan, Write, Goto
<1>3. CASE LoadCheckpoint(c) \/ ReadTail(c) \/ SaveCheckpoint(c) \/ PlanStale(c)
           \/ WriteStale(c) \/ Resend(c) \/ Locked(c)
  BY <1>3 DEF TypeOK, LoadCheckpoint, ReadTail, SaveCheckpoint, PlanStale, WriteStale,
     Resend, Locked, Goto, Unanswered, Phases
<1>4. CASE TailUnavailable(c) \/ GiveUp(c) \/ Output(c) \/ ReconcilePatch(c) \/ Cancel(c)
  BY <1>4 DEF TypeOK, TailUnavailable, GiveUp, Output, ReconcilePatch, Cancel, Reply, Goto,
     Unanswered, Phases
<1> QED
  BY <1>1, <1>2, <1>3, <1>4 DEF Act, Step

LEMMA PlanStep ==
  ASSUME IInv, [Next]_vars, TypeOK'
  PROVE  PlanIsSound'
<1>1. TypeOK /\ PlanIsSound
  BY DEF IInv, Kernel
<1>2. ASSUME NEW c \in Callers, Act(c) PROVE PlanIsSound'
  <2>1. ASSUME NEW d \in Callers, pc'[d] = "write"
        PROVE  position'[d] = expected'[d] /\ ~Reconciled(d)'
    <3>1. CASE d # c
      BY <1>1, <1>2, <2>1, <3>1, OthersUnchanged DEF PlanIsSound, Reconciled
    <3>2. CASE d = c
      <4>1. Plan(c)
        BY <1>1, <1>2, <2>1, <3>2, ActorPhases DEF Phases
      <4> QED
        BY <3>2, <4>1 DEF Plan, Reconciled, read
    <3> QED
      BY <3>1, <3>2
  <2> QED
    BY <2>1 DEF PlanIsSound
<1>3. ASSUME UNCHANGED <<pc, cmd, expected, read>> PROVE PlanIsSound'
  BY <1>1, <1>3 DEF PlanIsSound, Reconciled, read
<1>4. ASSUME NEW m \in Commands, Requeue(m) PROVE UNCHANGED <<pc, cmd, expected, read>>
  BY <1>4 DEF Requeue
<1>5. CASE Maintain \/ RejectCheckpoint \/ UNCHANGED vars
  BY <1>3, <1>5 DEF Maintain, RejectCheckpoint, vars
<1> QED
  BY <1>2, <1>3, <1>4, <1>5 DEF Next, Act

LEMMA SubmissionStep ==
  ASSUME IInv, [Next]_vars, TypeOK'
  PROVE  SubmissionsDiffer' /\ AppliedWasIssued'
<1>1. TypeOK /\ SubmissionsDiffer /\ AppliedWasIssued
  BY DEF IInv, Kernel
<1>2. ASSUME NEW c \in Callers, Act(c) PROVE SubmissionsDiffer' /\ AppliedWasIssued'
  <2>1. \A d \in Callers \ {c} : (Submitted(d)' <=> Submitted(d)) /\ cmd'[d] = cmd[d]
    BY <1>1, <1>2, OthersUnchanged DEF Submitted
  <2>2. CASE \E m \in Commands : /\ m \notin Requeues /\ (m \in Patches \/ m \notin issued)
                                 /\ issued' = issued \cup {m} /\ cmd'[c] = m
                                 /\ UNCHANGED applied
    BY <1>1, <2>1, <2>2 DEF SubmissionsDiffer, AppliedWasIssued
  <2>3. CASE /\ UNCHANGED <<issued, cmd>> /\ Submitted(c)
             /\ applied' = applied \/ applied' = applied \cup {cmd[c]}
    BY <1>1, <2>1, <2>3 DEF SubmissionsDiffer, AppliedWasIssued
  <2> QED
    BY <1>1, <1>2, <2>2, <2>3, ActorPhases DEF Submitted, Unanswered
<1>3. ASSUME UNCHANGED <<pc, cmd, answer, issued, applied>>
      PROVE  SubmissionsDiffer' /\ AppliedWasIssued'
  BY <1>1, <1>3 DEF SubmissionsDiffer, AppliedWasIssued, Submitted
<1>4. ASSUME NEW m \in Commands, Requeue(m) PROVE SubmissionsDiffer' /\ AppliedWasIssued'
  BY <1>1, <1>4 DEF Requeue, SubmissionsDiffer, AppliedWasIssued, Submitted
<1>5. CASE Maintain \/ RejectCheckpoint \/ UNCHANGED vars
  BY <1>3, <1>5 DEF Maintain, RejectCheckpoint, vars
<1> QED
  BY <1>2, <1>3, <1>4, <1>5 DEF Next, Act

(* Appending the batch of m logs m and keeps what was logged.              *)
LEMMA LoggedGrows ==
  ASSUME TypeOK, AppliedIsLogged, LoggedIsApplied, NEW m \in Commands,
         log' = log \o Batch(m, log), applied' = applied \cup {m}
  PROVE  AppliedIsLogged' /\ LoggedIsApplied'
<1> DEFINE b == Batch(m, log)
<1>1. log \in Seq(Entry) /\ Len(log) \in Nat
  BY LenProperties DEF TypeOK
<1>2. /\ b \in Seq(Entry) /\ Len(b) = Size[m] /\ Size[m] \in Nat
      /\ \A i \in 1..Size[m] : b[i].cmd = m
  BY BatchType
<1> HIDE DEF b
<1>3. /\ Len(log \o b) = Len(log) + Size[m]
      /\ \A i \in 1..Len(log) + Size[m] :
           (log \o b)[i] = IF i <= Len(log) THEN log[i] ELSE b[i - Len(log)]
  <2>1. /\ Len(log \o b) = Len(log) + Len(b)
        /\ \A i \in 1..Len(log) + Len(b) :
             (log \o b)[i] = IF i <= Len(log) THEN log[i] ELSE b[i - Len(log)]
    BY <1>1, <1>2, ConcatProperties
  <2> QED
    BY <1>2, <2>1
<1>4. log' = log \o b
  BY DEF b
<1>5. ASSUME NEW p \in Patches \cap applied'
      PROVE  \E i \in 1..Len(log') : log'[i].cmd = p
  <2>1. CASE p \in applied
    <3>1. PICK i \in 1..Len(log) : log[i].cmd = p
      BY <1>5, <2>1 DEF AppliedIsLogged
    <3>2. i \in 1..Len(log) + Size[m] /\ i <= Len(log)
      BY <1>1, <1>2
    <3> QED
      BY <1>3, <1>4, <3>1, <3>2
  <2>2. CASE p \notin applied
    <3>1. p = m /\ Size[m] > 0
      BY <1>5, <2>2
    <3>2. /\ Len(log) + 1 \in 1..Len(log) + Size[m] /\ ~(Len(log) + 1 <= Len(log))
          /\ Len(log) + 1 - Len(log) = 1 /\ 1 \in 1..Size[m]
      BY <1>1, <1>2, <3>1
    <3> QED
      BY <1>2, <1>3, <1>4, <3>1, <3>2
  <2> QED
    BY <2>1, <2>2
<1>6. ASSUME NEW i \in 1..Len(log') PROVE log'[i].cmd \in applied'
  <2>1. i \in 1..Len(log) + Size[m]
    BY <1>3, <1>4
  <2>2. CASE i <= Len(log)
    <3>1. i \in 1..Len(log)
      BY <1>1, <2>1, <2>2
    <3> QED
      BY <1>3, <1>4, <2>1, <2>2, <3>1 DEF LoggedIsApplied
  <2>3. CASE ~(i <= Len(log))
    <3>1. i - Len(log) \in 1..Size[m]
      BY <1>1, <1>2, <2>1, <2>3
    <3> QED
      BY <1>2, <1>3, <1>4, <2>1, <2>3, <3>1
  <2> QED
    BY <2>2, <2>3
<1> QED
  BY <1>5, <1>6 DEF AppliedIsLogged, LoggedIsApplied

LEMMA LoggedStep ==
  ASSUME IInv, [Next]_vars, TypeOK'
  PROVE  AppliedIsLogged' /\ LoggedIsApplied'
<1>1. TypeOK /\ AppliedIsLogged /\ LoggedIsApplied
  BY DEF IInv, Kernel
<1>2. ASSUME UNCHANGED <<log, applied>> PROVE AppliedIsLogged' /\ LoggedIsApplied'
  BY <1>1, <1>2 DEF AppliedIsLogged, LoggedIsApplied
<1>3. ASSUME NEW c \in Callers, Write(c) PROVE AppliedIsLogged' /\ LoggedIsApplied'
  <2>1. /\ log' = log \o Batch(cmd[c], log) /\ cmd[c] \in Commands
        /\ applied' = applied \cup {cmd[c]}
    BY <1>3, WriteGrows, DecisionIsCurrent DEF Write
  <2> QED
    BY <1>1, <2>1, LoggedGrows
<1>4. ASSUME NEW m \in Commands, Requeue(m) PROVE AppliedIsLogged' /\ LoggedIsApplied'
  BY <1>1, <1>4, LoggedGrows DEF Requeue
<1>5. ASSUME NEW c \in Callers, Act(c), ~Write(c) PROVE UNCHANGED <<log, applied>>
  BY <1>5 DEF Act, Step, Begin, LoadCheckpoint, TailUnavailable, ReadTail, SaveCheckpoint,
     ReconcilePatch, PlanStale, Plan, WriteStale, Output, Resend, GiveUp, Locked, Cancel
<1>6. CASE Maintain \/ RejectCheckpoint \/ UNCHANGED vars
  BY <1>2, <1>6 DEF Maintain, RejectCheckpoint, vars
<1> QED
  BY <1>2, <1>3, <1>4, <1>5, <1>6 DEF Next, Act

LEMMA AnswerStep ==
  ASSUME IInv, [Next]_vars, TypeOK'
  PROVE  OpenIsUnapplied' /\ BusyIsUnanswered' /\ AnswerIsTrue'
<1>1. /\ TypeOK /\ SubmissionsDiffer /\ LoggedIsApplied /\ AppliedWasIssued
      /\ OpenIsUnapplied /\ BusyIsUnanswered /\ AnswerIsTrue /\ ReadIsFold
  BY DEF IInv, Kernel
<1>2. ASSUME NEW c \in Callers, Act(c)
      PROVE  OpenIsUnapplied' /\ BusyIsUnanswered' /\ AnswerIsTrue'
  <2>1. ASSUME NEW d \in Callers, d # c
        PROVE  /\ cmd'[d] = cmd[d] /\ (Unanswered(d)' <=> Unanswered(d))
               /\ pc'[d] = pc[d] /\ answer'[d] = answer[d]
    BY <1>1, <1>2, <2>1, OthersUnchanged DEF Unanswered
  <2>2. ASSUME /\ pc'[c] = "load" /\ answer'[c] = "none" /\ UNCHANGED applied
             /\ \E m \in Commands : /\ m \notin Requeues /\ (m \in Patches \/ m \notin issued)
                                    /\ issued' = issued \cup {m} /\ cmd'[c] = m
        PROVE  OpenIsUnapplied' /\ AnswerIsTrue'
    BY <1>1, <2>1, <2>2 DEF OpenIsUnapplied, AnswerIsTrue, AppliedWasIssued, Unanswered
  <2>3. ASSUME /\ Unanswered(c) /\ pc'[c] \in Phases \ {"idle", "output"}
             /\ answer'[c] = answer[c] /\ UNCHANGED <<applied, issued, cmd>>
        PROVE  OpenIsUnapplied' /\ AnswerIsTrue'
    BY <1>1, <2>1, <2>3 DEF OpenIsUnapplied, AnswerIsTrue
  <2>4. ASSUME /\ Write(c) /\ pc'[c] = "output" /\ answer'[c] = answer[c]
             /\ applied' = applied \cup {cmd[c]} /\ UNCHANGED <<issued, cmd>>
        PROVE  OpenIsUnapplied' /\ AnswerIsTrue'
    <3>1. pc[c] = "write" /\ Submitted(c)
      BY <2>4 DEF Write, Submitted
    <3>2. cmd[c] \notin applied
      BY <2>4, DecisionIsCurrent
    <3>3. ASSUME NEW d \in Callers, d # c, Submitted(d), cmd[d] \notin Patches
          PROVE  cmd[d] # cmd[c]
      BY <1>1, <3>1, <3>3 DEF SubmissionsDiffer
    <3>4. OpenIsUnapplied'
      BY <1>1, <2>1, <2>4, <3>3 DEF OpenIsUnapplied, Unanswered, Submitted
    <3>5. answer[c] = "none"
      BY <1>1, <3>1 DEF BusyIsUnanswered
    <3>6. AnswerIsTrue'
      BY <1>1, <2>1, <2>4, <3>3, <3>5 DEF AnswerIsTrue, Submitted
    <3> QED
      BY <3>4, <3>6
  <2>5. ASSUME /\ pc'[c] = "idle" /\ pc[c] # "idle" /\ UNCHANGED <<applied, issued, cmd>>
             /\ \/ answer'[c] = "failed" /\ Unanswered(c)
                \/ answer'[c] = "cancelled"
                \/ answer'[c] = "ok" /\ cmd[c] \in applied
        PROVE  OpenIsUnapplied' /\ AnswerIsTrue'
    BY <1>1, <2>1, <2>5 DEF OpenIsUnapplied, AnswerIsTrue, Unanswered
  <2>6. ASSUME ReconcilePatch(c) PROVE cmd[c] \in applied
    <3>1. PICK i \in DOMAIN projection[c] : projection[c][i].cmd = cmd[c]
      BY <2>6 DEF ReconcilePatch, Reconciled
    <3>2. /\ projection[c] = SubSeq(log, 1, position[c]) /\ position[c] <= Len(log)
          /\ position[c] \in Nat /\ Len(log) \in Nat
      BY <1>1, LenProperties DEF ReadIsFold, IsFold, TypeOK
    <3>3. i \in 1..Len(log) /\ projection[c][i] = log[i]
      BY <3>1, <3>2
    <3> QED
      BY <1>1, <3>1, <3>3 DEF LoggedIsApplied
  <2>7. BusyIsUnanswered'
    BY <1>1, <1>2, <2>1, ActorPhases DEF BusyIsUnanswered, Unanswered
  <2> QED
    <3>1. CASE Plan(c) /\ pc[c] = "plan"
      <4>1. Unanswered(c) /\ pc'[c] \in Phases \ {"idle", "output"}
            /\ answer'[c] = answer[c] /\ UNCHANGED <<applied, issued, cmd>>
        BY <1>1, <3>1 DEF Plan, Goto, TypeOK, Unanswered, Phases
      <4> QED
        BY <2>3, <2>7, <4>1
    <3>2. pc[c] = "output" => cmd[c] \in applied
      BY <1>1 DEF OpenIsUnapplied
    <3>3. Plan(c) => pc[c] = "plan"
      BY DEF Plan
    <3> QED
      BY <1>1, <1>2, <2>2, <2>3, <2>4, <2>5, <2>6, <2>7, <3>1, <3>2, <3>3, ActorPhases
<1>3. ASSUME UNCHANGED <<pc, cmd, answer, applied>> PROVE OpenIsUnapplied' /\ BusyIsUnanswered' /\ AnswerIsTrue'
  BY <1>1, <1>3 DEF BusyIsUnanswered, OpenIsUnapplied, AnswerIsTrue, Unanswered
<1>4. ASSUME NEW m \in Commands, Requeue(m) PROVE OpenIsUnapplied' /\ BusyIsUnanswered' /\ AnswerIsTrue'
  BY <1>1, <1>4 DEF Requeue, BusyIsUnanswered, SubmissionsDiffer, Submitted, OpenIsUnapplied, AnswerIsTrue, Unanswered
<1>5. CASE Maintain \/ RejectCheckpoint \/ UNCHANGED vars
  BY <1>3, <1>5 DEF Maintain, RejectCheckpoint, vars
<1> QED
  BY <1>2, <1>3, <1>4, <1>5 DEF Next, Act

-----------------------------------------------------------------------------
(* The invariant is inductive: every step of every caller, of start-up and *)
(* of maintenance preserves it.                                            *)
THEOREM ControllerInvariant == Spec => []IInv
<1>1. Init => IInv
  BY InitInv
<1>2. IInv /\ [Next]_vars => IInv'
  <2> SUFFICES ASSUME IInv, [Next]_vars PROVE IInv'
    OBVIOUS
  <2>1. TypeOK'
    BY TypeStep
  <2> QED
    BY <2>1, FoldStep, PlanStep, SubmissionStep, LoggedStep, AnswerStep DEF IInv, Kernel
<1> QED
  BY <1>1, <1>2, PTL DEF Spec

(* The variables have their types: counters stay within their budgets and  *)
(* logs hold events only.                                                  *)
THEOREM ControllerTypes == Spec => []TypeOK
<1>1. IInv => TypeOK
  BY DEF IInv
<1> QED
  BY <1>1, ControllerInvariant, PTL

(* The checkpoint row is always a prefix of the log (advance_ and          *)
(* persist_projection_snapshot, by readers and writers in any order).      *)
THEOREM CheckpointIsFaithful == Spec => []CheckpointIsPrefix
<1>1. IInv => CheckpointIsPrefix
  BY DEF IInv, Kernel, RowIsFold, IsFold, CheckpointIsPrefix, Top
<1> QED
  BY <1>1, ControllerInvariant, PTL

(* Answers are true: a command reported ok has been applied and one that   *)
(* raised has not (_handle_command and the retry loops around it).         *)
THEOREM AnswersAreTrue == Spec => []AnswerIsTrue
<1>1. IInv => AnswerIsTrue
  BY DEF IInv, Kernel
<1> QED
  BY <1>1, ControllerInvariant, PTL

(* The controller implements the serial log: every step either executes one*)
(* command on the whole log or changes nothing the log promises.           *)
THEOREM ControllerIsSerial == Spec => IsSerial
<1>1. Init => Serial!Init
  BY DEF Init, Serial!Init
<1>2. IInv /\ [Next]_vars => [Serial!Next]_<<log, applied>>
  <2> SUFFICES ASSUME IInv, [Next]_vars PROVE [Serial!Next]_<<log, applied>>
    OBVIOUS
  <2>1. ASSUME NEW c \in Callers, Write(c) PROVE Serial!Next
    <3>1. Serial!Execute(cmd[c]) /\ cmd[c] \in Commands
      BY <2>1, DecisionIsCurrent, WriteGrows DEF Write, Serial!Execute, Batch
    <3> QED
      BY <3>1 DEF Serial!Next
  <2>2. ASSUME NEW m \in Commands, Requeue(m) PROVE Serial!Next
    BY <2>2 DEF Requeue, Serial!Next, Serial!Execute, Batch
  <2>3. ASSUME NEW c \in Callers, Act(c), ~Write(c) PROVE UNCHANGED <<log, applied>>
    BY <2>3 DEF Act, Step, Begin, LoadCheckpoint, TailUnavailable, ReadTail, SaveCheckpoint,
       ReconcilePatch, PlanStale, Plan, WriteStale, Output, Resend, GiveUp, Locked, Cancel
  <2>4. CASE Maintain \/ RejectCheckpoint \/ UNCHANGED vars
    BY <2>4 DEF Maintain, RejectCheckpoint, vars
  <2> QED
    BY <2>1, <2>2, <2>3, <2>4 DEF Next, Act
<1> QED
  BY <1>1, <1>2, ControllerInvariant, PTL DEF Spec, IsSerial, Serial!Spec
=============================================================================
