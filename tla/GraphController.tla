--------------------------- MODULE GraphController ---------------------------
(***************************************************************************)
(* Optimistic concurrency over one run's event log: GraphController and    *)
(* GraphEventStore of graph_runtime, and the callers that resend a command *)
(* (driver, dispatch executor, usage recorder, API callbacks).             *)
(*                                                                         *)
(* A command reads the projection checkpoint, then the events after it,    *)
(* without a lock and in two statements; whoever found a tail writes the   *)
(* checkpoint back; the command is planned on what was read; and a short   *)
(* write transaction re-checks the head and appends.  Every statement or   *)
(* write transaction is one action.  A projection is the sequence of events*)
(* folded into it, beside the position it claims to be at.                 *)
(***************************************************************************)
EXTENDS Naturals, Sequences

CONSTANTS
  Commands, Facts, Size, Decide(_, _),  (* as in SerialLog.                *)
  Patches,    (* planner patches: recognised when submitted again.         *)
  Requeues,   (* events that start-up appends without a command.           *)
  Callers,    (* concurrent tasks that submit commands.                    *)
  TailCap,    (* GRAPH_RUNTIME_TAIL_EVENTS (128 in the code).              *)
  MaxTries,   (* MAX_STALE_COMMAND_RETRIES and its like (5 in the code).   *)
  MaxFaults   (* bound on locks, cancelled calls and schema upgrades.      *)

ASSUME ControllerAssumption ==
  /\ Commands # {} /\ Facts # {}
  /\ Size \in [Commands -> Nat]
  /\ Patches \subseteq Commands /\ Requeues \subseteq Commands \ Patches
  /\ \A m \in Patches : Size[m] > 0
  /\ TailCap \in Nat /\ MaxTries \in Nat /\ MaxFaults \in Nat

VARIABLES
  log,        (* events_v2 of the run: log[n] is the event of version n.   *)
  applied,    (* commands whose transaction committed.                     *)
  rowPos,     (* the checkpoint row's position; 0 stands for no row.       *)
  rowState,   (* the events folded into the row.                           *)
  issued,     (* commands submitted so far.                                *)
  pc,         (* pc[c]: the next statement of caller c.                    *)
  cmd,        (* cmd[c]: the command it submits.                           *)
  expected,   (* expected[c]: its expected_position.                       *)
  position,   (* position[c]: the position of what it has read.            *)
  projection, (* projection[c]: the events folded into what it has read.   *)
  tries,      (* tries[c]: how often it has resent the command.            *)
  answer,     (* answer[c]: what it was told about its last command.       *)
  faults      (* locks met, calls cancelled, upgrades made.                *)

Serial == INSTANCE SerialLog WITH log <- log, applied <- applied,
            Commands <- Commands, Facts <- Facts, Size <- Size, Decide <- Decide

Entry       == Serial!Entry
Batch(m, s) == Serial!Batch(m, s)

row   == <<rowPos, rowState>>
read  == <<position, projection>>
vars  == <<log, applied, row, issued, pc, cmd, expected, read, tries, answer, faults>>

Phases  == {"idle", "load", "tail", "save", "plan", "write", "output", "stale", "locked"}
Answers == {"none", "ok", "failed", "cancelled"}

(* Batches, rows and answers are of the log's facts; no call reads a stale  *)
(* head more often than MaxTries.                                          *)
TypeOK ==
  /\ log \in Seq(Entry)
  /\ applied \subseteq Commands /\ issued \subseteq Commands
  /\ rowPos \in Nat /\ rowState \in Seq(Entry)
  /\ pc \in [Callers -> Phases]
  /\ cmd \in [Callers -> Commands]
  /\ expected \in [Callers -> Nat]
  /\ position \in [Callers -> Nat]
  /\ projection \in [Callers -> Seq(Entry)]
  /\ tries \in [Callers -> 0..MaxTries]
  /\ answer \in [Callers -> Answers]
  /\ faults \in 0..MaxFaults

Init ==
  /\ log = << >> /\ applied = {} /\ issued = {}
  /\ rowPos = 0 /\ rowState = << >>
  /\ pc = [c \in Callers |-> "idle"]
  /\ cmd = [c \in Callers |-> CHOOSE m \in Commands : TRUE]
  /\ expected = [c \in Callers |-> 0]
  /\ position = [c \in Callers |-> 0]
  /\ projection = [c \in Callers |-> << >>]
  /\ tries = [c \in Callers |-> 0]
  /\ answer = [c \in Callers |-> "none"]
  /\ faults = 0

-----------------------------------------------------------------------------
Top == Len(log)  (* current_position *)

Goto(c, phase) == pc' = [pc EXCEPT ![c] = phase]

(* The call returns or raises: its locals are gone.                        *)
Reply(c, what) ==
  /\ Goto(c, "idle")
  /\ answer' = [answer EXCEPT ![c] = what]
  /\ expected' = [expected EXCEPT ![c] = 0]
  /\ position' = [position EXCEPT ![c] = 0]
  /\ projection' = [projection EXCEPT ![c] = << >>]
  /\ tries' = [tries EXCEPT ![c] = 0]

(* A caller submits a command at a position it has seen.  Only a planner   *)
(* patch may be submitted again, at once or after its answer was lost.     *)
Begin(c, m, n) ==
  /\ pc[c] = "idle"
  /\ m \notin Requeues
  /\ m \in Patches \/ m \notin issued
  /\ issued' = issued \cup {m}
  /\ cmd' = [cmd EXCEPT ![c] = m]
  /\ expected' = [expected EXCEPT ![c] = n]
  /\ tries' = [tries EXCEPT ![c] = 0]
  /\ answer' = [answer EXCEPT ![c] = "none"]
  /\ Goto(c, "load")
  /\ UNCHANGED <<log, applied, row, read, faults>>

(* read_projection_checkpoint.                                             *)
LoadCheckpoint(c) ==
  /\ pc[c] = "load"
  /\ position' = [position EXCEPT ![c] = rowPos]
  /\ projection' = [projection EXCEPT ![c] = rowState]
  /\ Goto(c, "tail")
  /\ UNCHANGED <<log, applied, row, issued, cmd, expected, tries, answer, faults>>

(* _read_runtime_event_window from the position after the checkpoint: a    *)
(* tail above the cap makes the read model unavailable.                    *)
EventsAfter(n) == SubSeq(log, n + 1, Top)

TailUnavailable(c) ==
  /\ pc[c] = "tail"
  /\ Top - position[c] > TailCap
  /\ Reply(c, "failed")
  /\ UNCHANGED <<log, applied, row, issued, cmd, faults>>

ReadTail(c) ==
  /\ pc[c] = "tail"
  /\ Top - position[c] <= TailCap
  /\ position' = [position EXCEPT ![c] = Top]
  /\ projection' = [projection EXCEPT ![c] = @ \o EventsAfter(position[c])]
  /\ Goto(c, IF position[c] = Top THEN "plan" ELSE "save")
  /\ UNCHANGED <<log, applied, row, issued, cmd, expected, tries, answer, faults>>

(* persist_projection_snapshot by a reader: its own view replaces the row, *)
(* also one that a command has advanced further meanwhile.                 *)
SavedAtTop(c) == Top
SavedPosition(c) == position[c]
SaveCheckpoint(c) ==
  /\ pc[c] = "save"
  /\ rowPos' = SavedPosition(c)
  /\ rowState' = projection[c]
  /\ Goto(c, "plan")
  /\ UNCHANGED <<log, applied, issued, cmd, expected, read, tries, answer, faults>>

(* _reconciled_committed_patch: the durable patch is recognised.           *)
Reconciled(c) ==
  /\ cmd[c] \in Patches
  /\ \E i \in DOMAIN projection[c] : projection[c][i].cmd = cmd[c]

ReconcilePatch(c) ==
  /\ pc[c] = "plan"
  /\ Reconciled(c)
  /\ Reply(c, "ok")
  /\ UNCHANGED <<log, applied, row, issued, cmd, faults>>

PlanStale(c) ==
  /\ pc[c] = "plan"
  /\ ~Reconciled(c)
  /\ position[c] # expected[c]
  /\ Goto(c, "stale")
  /\ UNCHANGED <<log, applied, row, issued, cmd, expected, read, tries, answer, faults>>

Plan(c) ==
  /\ pc[c] = "plan"
  /\ ~Reconciled(c)
  /\ position[c] = expected[c]
  /\ Goto(c, "write")
  /\ UNCHANGED <<log, applied, row, issued, cmd, expected, read, tries, answer, faults>>

(* Phase 2, one BEGIN IMMEDIATE transaction: the head is checked again, the*)
(* planned events are appended and the row is brought to the new head.     *)
HeadNotBehind(c) == Top >= expected[c]
HeadIsExpected(c) == Top = expected[c]

WriteStale(c) ==
  /\ pc[c] = "write"
  /\ ~HeadIsExpected(c)
  /\ Goto(c, "stale")
  /\ UNCHANGED <<log, applied, row, issued, cmd, expected, read, tries, answer, faults>>

Write(c) ==
  LET batch == Batch(cmd[c], projection[c])
  IN  /\ pc[c] = "write"
      /\ HeadIsExpected(c)
      /\ log' = log \o batch
      /\ applied' = applied \cup {cmd[c]}
      /\ \/ batch = << >> /\ UNCHANGED row
         \/ /\ batch # << >>
            /\ rowPos' = expected[c] + Len(batch)
            /\ rowState' = projection[c] \o batch
      /\ Goto(c, "output")
      /\ UNCHANGED <<issued, cmd, expected, read, tries, answer, faults>>

(* The post-commit journal observer, retried once; when it fails again the *)
(* debt is left to start-up and the command still succeeds.                *)
OutputOrFail(c) ==
  /\ pc[c] = "output"
  /\ \E what \in {"ok", "failed"} : Reply(c, what)
  /\ UNCHANGED <<log, applied, row, issued, cmd, faults>>
Output(c) ==
  /\ pc[c] = "output"
  /\ Reply(c, "ok")
  /\ UNCHANGED <<log, applied, row, issued, cmd, faults>>

(* "database is locked": a statement that needs the write lock gives up    *)
(* after its busy timeout and its transaction is rolled back.              *)
Locked(c) ==
  /\ pc[c] \in {"save", "write"}
  /\ faults < MaxFaults
  /\ faults' = faults + 1
  /\ Goto(c, "locked")
  /\ UNCHANGED <<log, applied, row, issued, cmd, expected, read, tries, answer>>

(* The retry loops.  After a stale read the head is read again; after a    *)
(* lock the driver reads it again and the dispatch executor does not.      *)
MayResend(c) == tries[c] < MaxTries

ResendSamePosition(c) ==
  /\ pc[c] \in {"stale", "locked"}
  /\ Goto(c, "load")
  /\ UNCHANGED <<log, applied, row, issued, cmd, expected, read, tries, answer, faults>>
Resend(c) ==
  /\ pc[c] \in {"stale", "locked"}
  /\ MayResend(c)
  /\ \/ expected' = [expected EXCEPT ![c] = Top]
     \/ pc[c] = "locked" /\ UNCHANGED expected
  /\ tries' = [tries EXCEPT ![c] = @ + 1]
  /\ Goto(c, "load")
  /\ UNCHANGED <<log, applied, row, issued, cmd, read, answer, faults>>

GiveUp(c) ==
  /\ pc[c] \in {"stale", "locked"}
  /\ ~MayResend(c)
  /\ Reply(c, "failed")
  /\ UNCHANGED <<log, applied, row, issued, cmd, faults>>

(* The caller's task is cancelled, or its process dies, at any await.      *)
Cancel(c) ==
  /\ pc[c] # "idle"
  /\ faults < MaxFaults
  /\ faults' = faults + 1
  /\ Reply(c, "cancelled")
  /\ UNCHANGED <<log, applied, row, issued, cmd>>

(* Start-up appends an outbox_requeued event in the transaction that gives *)
(* a failed cleanup its new budget (_projection_for_append).               *)
Requeue(m) ==
  /\ m \in Requeues \ applied
  /\ Top - rowPos <= TailCap
  /\ log' = log \o Batch(m, log)
  /\ applied' = applied \cup {m}
  /\ rowPos' = Len(log') /\ rowState' = log'
  /\ UNCHANGED <<issued, pc, cmd, expected, read, tries, answer, faults>>

(* ensure_runtime_projection_checkpoint, on start-up and on resume: a row  *)
(* that is not at the head is deleted and rebuilt from the first event.    *)
Maintain ==
  /\ rowPos # Top
  /\ rowPos' = Top /\ rowState' = log
  /\ UNCHANGED <<log, applied, issued, pc, cmd, expected, read, tries, answer, faults>>

(* A row of another schema version, or one that fails validation, is       *)
(* deleted by the first reader.                                            *)
RejectCheckpoint ==
  /\ rowPos # 0
  /\ faults < MaxFaults
  /\ faults' = faults + 1
  /\ rowPos' = 0 /\ rowState' = << >>
  /\ UNCHANGED <<log, applied, issued, pc, cmd, expected, read, tries, answer>>

Step(c) ==
  \/ LoadCheckpoint(c) \/ TailUnavailable(c) \/ ReadTail(c) \/ SaveCheckpoint(c)
  \/ ReconcilePatch(c) \/ PlanStale(c) \/ Plan(c)
  \/ WriteStale(c) \/ Write(c) \/ Output(c)
  \/ Resend(c) \/ GiveUp(c)

Next ==
  \/ \E c \in Callers :
       \/ \E m \in Commands, n \in 0..Top : Begin(c, m, n)
       \/ Step(c) \/ Locked(c) \/ Cancel(c)
  \/ \E m \in Commands : Requeue(m)
  \/ Maintain \/ RejectCheckpoint

Spec     == Init /\ [][Next]_vars
FairSpec == Spec /\ \A c \in Callers : WF_vars(Step(c))

-----------------------------------------------------------------------------
(* Properties.                                                             *)

(* The log is what the commands decide one after the other on exactly the  *)
(* events before them, and no command or patch takes effect twice, although*)
(* planning runs without a lock, on a cache that readers also write, and   *)
(* commands are resent (_handle_command's claim of optimistic concurrency).*)
IsSerial == Serial!Spec

(* The checkpoint row always holds exactly the events up to its position,  *)
(* whichever reader or writer wrote it last and however late.              *)
CheckpointIsPrefix ==
  /\ rowPos <= Top
  /\ rowState = SubSeq(log, 1, rowPos)

(* A caller is told the truth: "ok" means the command took effect, and an  *)
(* exception, which makes the callers fail a node or pause a run, means it *)
(* did not; a journal failure after the commit is therefore not an error.  *)
AnswerIsTrue ==
  \A c \in Callers :
    /\ answer[c] = "ok" => cmd[c] \in applied
    /\ answer[c] = "failed" /\ cmd[c] \notin Patches => cmd[c] \notin applied

(* Every submission ends, in spite of the other callers' commits: the      *)
(* retry loops are bounded.                                                *)
EveryCallEnds == \A c \in Callers : pc[c] # "idle" ~> pc[c] = "idle"
=============================================================================
