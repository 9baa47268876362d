---------------------------- MODULE EventJournal ----------------------------
(***************************************************************************)
(* The JSONL journal beside the event table: db/access/jsonl_outbox.py,    *)
(* the post-commit queue of db/access/event_outbox.py, the rebuild of      *)
(* db/bootstrap.py and the order in which the application's start-up calls *)
(* them.  The table events_v2 is the authority; the journal is appended    *)
(* after each commit, rotated into immutable archives, completed at every  *)
(* start, and read back when the table is empty.                           *)
(*                                                                         *)
(* One advisory file lock serializes the writers, so `step` is how far its *)
(* holder has come: a process crash or an I/O error may stop it anywhere,  *)
(* in the middle of the append included.  A file is the set of its         *)
(* records; `tail` says what follows the last newline.                     *)
(***************************************************************************)
EXTENDS Integers, FiniteSets

CONSTANTS
  Runs,          (* aggregate ids.                                         *)
  MaxEvents,     (* bound on the events ever committed.                    *)
  MaxCommit,     (* bound on the events of one commit.                     *)
  SegmentSize,   (* max_bytes, counted in records.                         *)
  PageSize,      (* batch_size of the start-up drain (200 in the code).    *)
  OldEvents,     (* bound on events of an older version (no checkpoint).   *)
  MaxFaults,     (* bound on crashes and I/O errors.                       *)
  MaxLosses,     (* bound on losses of the database file.                  *)
  MaxRestores    (* bound on restored backups.                             *)

ASSUME JournalAssumption ==
  /\ MaxEvents \in Nat \ {0} /\ MaxCommit \in Nat \ {0}
  /\ SegmentSize \in Nat \ {0} /\ PageSize \in Nat \ {0}
  /\ OldEvents \in 0..MaxEvents
  /\ MaxFaults \in Nat /\ MaxLosses \in Nat /\ MaxRestores \in Nat

VARIABLES
  rows,        (* events_v2, committed.                                    *)
  born,        (* how many events were ever committed (their identities).  *)
  active,      (* the readable records of the active file.                 *)
  tail,        (* Clean, Fragment, or the position of a bare record.       *)
  archives,    (* the archive segments.                                    *)
  checkpoint,  (* the delivery checkpoint file.                            *)
  phase,       (* the server process.                                      *)
  session,     (* events_v2 as start-up's uncommitted transaction sees it. *)
  misread,     (* whether a rebuild left records out: "no", "start" (the   *)
               (* session's), "table" (one that was committed).            *)
  pending,     (* committed batches whose observer has not run.            *)
  step,        (* what the holder of the journal lock does next.           *)
  batch,       (* the records it is to write.                              *)
  tries,       (* how often its observer failed before.                    *)
  cursor,      (* how far the start-up drain has read the table.           *)
  lost,        (* the table when it was last lost.                         *)
  faults, losses, restores

files    == <<active, tail, archives>>
writer   == <<step, batch, tries, cursor>>
process  == <<phase, session, misread, pending>>
history  == <<born, lost, losses, restores>>
vars     == <<rows, files, checkpoint, process, writer, faults, history>>

Position == 1..MaxEvents
Record   == [position : Position, run : Runs, id : Position]
Stored   == [position : Position, run : Runs, id : Position, version : Position]
Segment  == [first : Position, last : Position, records : SUBSET Record, twin : BOOLEAN]
Frontier == [verified : -1..MaxEvents, tail : -1..MaxEvents, legacy : -1..MaxEvents]

(* What follows the last newline of the active file: nothing, a fragment   *)
(* that is no record, or (a position) a whole record without its newline.  *)
Clean    == 0
Fragment == -1

(* No checkpoint file, or one that does not parse; legacy = 0 is None.     *)
NoCheckpoint == [verified |-> -1, tail |-> -1, legacy |-> -1]

IsLeast(n, S)    == n \in S /\ \A m \in S : n <= m
Lowest(S)        == CHOOSE n \in S : IsLeast(n, S)
Highest(S)       == CHOOSE n \in S : \A m \in S : m <= n
Lesser(n, m)     == IF n <= m THEN n ELSE m
PositionsOf(S)   == { e.position : e \in S }
Head(table)      == Highest(PositionsOf(table) \cup {0})
RecordOf(row)    == [position |-> row.position, run |-> row.run, id |-> row.id]
Archived         == UNION { a.records : a \in archives }
Journal          == active \cup Archived

(* The journal is made of archives and an active file of known events, and *)
(* the process of known phases: no step invents a record.                  *)
TypeOK ==
  /\ rows \subseteq Stored /\ session \subseteq Stored /\ lost \subseteq Stored
  /\ born \in 0..MaxEvents
  /\ active \subseteq Record
  /\ tail \in -1..MaxEvents
  /\ archives \subseteq Segment
  /\ checkpoint \in Frontier
  /\ phase \in {"down", "start", "serving"}
  /\ misread \in {"no", "start", "table"}
  /\ pending \subseteq [events : SUBSET Record, tries : 0..1]
  /\ step \in {"free", "plan", "recover", "select", "page", "append", "failed",
               "link", "unlink", "seal", "drop", "checkpoint", "commit"}
  /\ batch \subseteq Record
  /\ tries \in 0..1
  /\ cursor \in 0..MaxEvents
  /\ faults \in 0..MaxFaults /\ losses \in 0..MaxLosses /\ restores \in 0..MaxRestores

(* The version column counts a run's events.                               *)
Versioned(S) ==
  { [position |-> e.position, run |-> e.run, id |-> e.id,
     version |-> Cardinality({ d \in S : d.run = e.run /\ d.position <= e.position })]
    : e \in S }

(* Either a new installation or one whose older version wrote no           *)
(* checkpoint and may have left events out of its journal.                 *)
Init ==
  /\ born \in 0..OldEvents
  /\ \E owner \in [1..born -> Runs] :
       LET old == { [position |-> n, run |-> owner[n], id |-> n] : n \in 1..born }
       IN  rows = Versioned(old) /\ active \in SUBSET old
  /\ tail = Clean /\ archives = {} /\ checkpoint = NoCheckpoint
  /\ phase = "down" /\ session = {} /\ misread = "no" /\ pending = {}
  /\ step = "free" /\ batch = {} /\ tries = 0 /\ cursor = 0
  /\ lost = {} /\ faults = 0 /\ losses = 0 /\ restores = 0

-----------------------------------------------------------------------------
(* Commits and the post-commit queue.                                      *)

LastVersion(run) == Highest({ r.version : r \in { q \in rows : q.run = run } } \cup {0})

(* SqliteEventStore.append, then commit_with_event_outbox: positions       *)
(* follow the greatest one in the table, and the observer's batch is       *)
(* queued once the commit has succeeded.                                   *)
CommitEvents(run, n) ==
  /\ phase = "serving" /\ born + n <= MaxEvents
  /\ LET new == { [position |-> Head(rows) + k, run |-> run, id |-> born + k,
                   version |-> LastVersion(run) + k] : k \in 1..n }
     IN  /\ rows' = rows \cup new
         /\ pending' = pending \cup {[events |-> { RecordOf(r) : r \in new }, tries |-> 0]}
  /\ born' = born + n
  /\ UNCHANGED <<files, checkpoint, phase, session, misread, writer, faults,
                 lost, losses, restores>>

Rest == batch' = {} /\ tries' = 0 /\ cursor' = 0

(* The observers of different sessions wait for the file lock in any order.*)
TakeLock(b) ==
  /\ phase = "serving" /\ step = "free" /\ b \in pending
  /\ pending' = pending \ {b}
  /\ step' = "recover" /\ batch' = b.events /\ tries' = b.tries
  /\ UNCHANGED <<rows, files, checkpoint, phase, session, misread, cursor, faults, history>>

AlwaysRetries == TRUE
MayRetry == tries = 0

(* An I/O error in an observer: the controller runs the same batch once    *)
(* more, every other caller leaves it to the next start, and so does the   *)
(* controller's second failure.                                            *)
ObserverFails ==
  /\ phase = "serving"
  /\ \/ step = "failed" /\ UNCHANGED faults
     \/ step \notin {"free", "failed"} /\ faults < MaxFaults /\ faults' = faults + 1
  /\ \/ MayRetry /\ pending' = pending \cup {[events |-> batch, tries |-> tries + 1]}
     \/ UNCHANGED pending
  /\ step' = "free" /\ Rest
  /\ UNCHANGED <<rows, files, checkpoint, phase, session, misread, history>>

-----------------------------------------------------------------------------
(* The journal transaction, under the lock.                                *)

Unlinked == { [a EXCEPT !.twin = FALSE] : a \in archives }

HasTwin == \E a \in archives : a.twin

(* _recover_linked_rotation: an active file that is already linked as an   *)
(* archive is unlinked before anything is appended through its name.       *)
RecoverLinkedRotation ==
  /\ step = "recover"
  /\ step' = IF phase = "start" THEN "page" ELSE "select"
  /\ IF HasTwin
       THEN active' = {} /\ tail' = Clean /\ archives' = Unlinked
       ELSE UNCHANGED files
  /\ UNCHANGED <<rows, checkpoint, process, batch, tries, cursor, faults, history>>

ShouldRotate(file) == Cardinality(file) >= SegmentSize

(* Archives are read only where their name may cover a wanted position.    *)
Covers(a, e) == a.first <= e.position /\ e.position <= a.last

WrittenInActive(e) == e.position \in PositionsOf(active)

Written(e) ==
  \/ WrittenInActive(e)
  \/ \E a \in archives : Covers(a, e) /\ e.position \in PositionsOf(a.records)

ClampedTail == Lesser(checkpoint.tail, Head(session))

(* The start-up drain's existing_positions: archives that end at or before *)
(* the checkpoint are not read.                                            *)
Reconciled(e) ==
  \/ WrittenInActive(e)
  \/ \E a \in archives : a.last > ClampedTail /\ e.position \in PositionsOf(a.records)

Fresh == { e \in batch : IF phase = "start" THEN ~Reconciled(e) ELSE ~Written(e) }

SelectEvents ==
  /\ step = "select"
  /\ IF ShouldRotate(active) THEN step' = "link" /\ UNCHANGED <<batch, tries, cursor>>
     ELSE IF Fresh = {}      THEN step' = "free" /\ Rest
     ELSE                         step' = "append" /\ UNCHANGED <<batch, tries, cursor>>
  /\ UNCHANGED <<rows, files, checkpoint, process, faults, history>>

(* Without the repair the first new line joins what the tail holds, and    *)
(* neither is a record any more.                                           *)
AppendedUnrepaired(new) ==
  IF tail = Clean \/ new = {} THEN active \cup new
  ELSE { e \in active \cup new : e.position \notin {tail, Lowest(PositionsOf(new))} }

(* _append_lines after _repair_active_append_boundary: a bare record gets  *)
(* its newline, a fragment is truncated.                                   *)
Appended(new) == active \cup new

(* A write through the active name changes every file of that inode.       *)
WriteActive(content) ==
  /\ active' = content
  /\ archives' = { IF a.twin THEN [a EXCEPT !.records = content] ELSE a : a \in archives }

Released == IF phase = "start" THEN "page" ELSE "free"

AppendEvents ==
  /\ step = "append"
  /\ WriteActive(Appended(Fresh))
  /\ tail' = Clean
  /\ IF ShouldRotate(active') THEN step' = "seal" /\ UNCHANGED <<batch, tries, cursor>>
     ELSE /\ step' = Released
          /\ IF phase = "start" THEN UNCHANGED <<batch, tries, cursor>> ELSE Rest
  /\ UNCHANGED <<rows, checkpoint, process, faults, history>>

(* The append stops part-way: a prefix of the batch is on disk, followed   *)
(* by nothing, by a piece of the next record, or the last record of the    *)
(* prefix is whole but for its newline.                                    *)
AppendTears(p) ==
  LET prefix == { e \in Fresh : e.position <= p }
  IN  /\ step = "append" /\ faults < MaxFaults
      /\ WriteActive(Appended(prefix))
      /\ tail' \in {Clean} \cup (IF prefix # Fresh THEN {Fragment} ELSE {})
                   \cup (IF prefix # {} THEN {Highest(PositionsOf(prefix))} ELSE {})
      /\ step' = "failed" /\ faults' = faults + 1
      /\ UNCHANGED <<rows, checkpoint, process, batch, tries, cursor, history>>

(* _rotate: link the active file under an archive name of its own, or find *)
(* an archive of the same bytes; then unlink the active name.              *)
LinkArchive(from, to) ==
  /\ step = from /\ step' = to
  /\ archives' = IF \E a \in archives : a.records = active THEN archives
                 ELSE archives \cup
                      {[first |-> Lowest(PositionsOf(active)),
                        last |-> Highest(PositionsOf(active)),
                        records |-> active, twin |-> TRUE]}
  /\ UNCHANGED <<rows, active, tail, checkpoint, process, batch, tries, cursor, faults, history>>

UnlinkActive(from, to) ==
  /\ step = from /\ step' = to
  /\ active' = {} /\ tail' = Clean /\ archives' = Unlinked
  /\ IF to = "free" THEN Rest ELSE UNCHANGED <<batch, tries, cursor>>
  /\ UNCHANGED <<rows, checkpoint, process, faults, history>>

(* Rotation before the append, and as its last step.                       *)
RotateFirst == LinkArchive("link", "unlink") \/ UnlinkActive("unlink", "select")
RotateLast  == LinkArchive("seal", "drop") \/ UnlinkActive("drop", Released)

-----------------------------------------------------------------------------
(* Start-up: rebuild, drain, checkpoint, commit, in this order, before     *)
(* anything is served.                                                     *)

(* Records counted file by file, as they are read.                         *)
RebuiltUnsorted(read) ==
  LET Before(d, e) == \/ d \in Archived /\ e \notin Archived
                      \/ (d \in Archived <=> e \in Archived) /\ d.position <= e.position
  IN  { [position |-> e.position, run |-> e.run, id |-> e.id,
         version |-> Cardinality({ d \in read : d.run = e.run /\ Before(d, e) })]
        : e \in read }

(* bootstrap_from_jsonl makes a table of the records it has read: one for  *)
(* each position, in position order, versions counted again.               *)
Rebuilt(read) ==
  Versioned({ CHOOSE e \in read : e.position = p : p \in PositionsOf(read) })

ActiveOnly == active

(* Every archive and the active file; malformed lines are skipped.         *)
ReadableRecords == Journal

(* Only an empty table is rebuilt.                                         *)
Bootstrap ==
  /\ phase = "down"
  /\ phase' = "start" /\ step' = "plan"
  /\ session' = IF rows = {} THEN Rebuilt(ReadableRecords) ELSE rows
  /\ UNCHANGED <<rows, files, checkpoint, misread, pending, batch, tries, cursor, faults,
                 history>>

(* An I/O error while a file is read is logged, and the rebuild goes on    *)
(* without the lines behind it: without any of the records, the model      *)
(* allows, for it does not keep the order of a file's lines.               *)
BootstrapMisreads(unread) ==
  /\ phase = "down" /\ rows = {} /\ unread # {}
  /\ faults < MaxFaults /\ faults' = faults + 1
  /\ phase' = "start" /\ step' = "plan"
  /\ session' = Rebuilt(ReadableRecords \ unread)
  /\ misread' = IF misread = "no" THEN "start" ELSE misread
  /\ UNCHANGED <<rows, files, checkpoint, pending, batch, tries, cursor, history>>

HasJournalHistory == active # {} \/ tail # Clean \/ archives # {}

Frontiers(verified, through, legacy) ==
  [verified |-> verified, tail |-> through, legacy |-> legacy]

(* _clamp_journal_checkpoint: a frontier beyond the table's head means     *)
(* nothing.                                                                *)
Clamped ==
  LET verified == Lesser(checkpoint.verified, ClampedTail)
      legacy   == Lesser(checkpoint.legacy, ClampedTail)
  IN  Frontiers(verified, ClampedTail, IF legacy <= verified THEN 0 ELSE legacy)

DrainFromJournalEnd == Highest(PositionsOf(Journal) \cup {0})
DrainFrom == IF checkpoint = NoCheckpoint THEN 0 ELSE ClampedTail

(* A journal without a checkpoint is adopted unread, its range kept as     *)
(* debt.                                                                   *)
AdoptJournal ==
  /\ checkpoint' = Frontiers(0, Head(session), Head(session))
  /\ step' = "commit" /\ UNCHANGED cursor

(* drain_committed_events_to_journal with the options start-up passes:     *)
(* every other start drains the table from the checkpoint on.              *)
PlanDrain ==
  /\ step = "plan"
  /\ IF checkpoint = NoCheckpoint /\ HasJournalHistory
       THEN AdoptJournal
       ELSE step' = "recover" /\ cursor' = DrainFrom /\ UNCHANGED checkpoint
  /\ UNCHANGED <<rows, files, process, batch, tries, faults, history>>

(* A checkpoint file that cannot be read is taken for none.  (Without a    *)
(* journal there is nothing to tell the two apart.)                        *)
MisreadCheckpoint ==
  /\ step = "plan" /\ checkpoint # NoCheckpoint /\ HasJournalHistory
  /\ faults < MaxFaults /\ faults' = faults + 1
  /\ AdoptJournal
  /\ UNCHANGED <<rows, files, process, batch, tries, history>>

(* get_page_after_position: the next PageSize rows after the cursor.       *)
NextPage ==
  LET ahead == { r \in session : r.position > cursor }
  IN  { r \in ahead : Cardinality({ q \in ahead : q.position <= r.position }) <= PageSize }

AdvancedOverNew(page, new) == Highest(PositionsOf(new) \cup {cursor})
Advanced(page, new) == Highest(PositionsOf(page))

ReconcilePage ==
  /\ step = "page"
  /\ LET page == NextPage
         read == { RecordOf(r) : r \in page }
         new  == { e \in read : ~Reconciled(e) }
     IN  IF page = {} THEN step' = "checkpoint" /\ Rest
         ELSE /\ cursor' = Advanced(page, new)
              /\ batch' = read /\ UNCHANGED tries
              /\ step' = IF new = {} THEN "page" ELSE "append"
  /\ UNCHANGED <<rows, files, checkpoint, process, faults, history>>

WriteCheckpoint ==
  /\ step = "checkpoint" /\ step' = "commit"
  /\ checkpoint' =
       LET head == Head(session)
       IN  IF checkpoint = NoCheckpoint \/ Clamped.legacy = 0
             THEN Frontiers(head, head, 0)
             ELSE Frontiers(Clamped.verified, head, Clamped.legacy)
  /\ UNCHANGED <<rows, files, process, batch, tries, cursor, faults, history>>

CommitStartup ==
  /\ step = "commit" /\ step' = "free"
  /\ rows' = session /\ session' = {} /\ phase' = "serving"
  /\ misread' = IF misread = "start" THEN "table" ELSE misread
  /\ UNCHANGED <<files, checkpoint, pending, batch, tries, cursor, faults, history>>

-----------------------------------------------------------------------------
(* The environment.                                                        *)

(* The process dies, is stopped, or its start-up fails with an I/O error.  *)
(* The lock, the queued batches and start-up's transaction die with it.    *)
Crash ==
  /\ phase # "down"
  /\ \/ step = "failed" /\ UNCHANGED faults
     \/ step # "failed" /\ faults < MaxFaults /\ faults' = faults + 1
  /\ phase' = "down" /\ session' = {} /\ pending' = {}
  /\ misread' = IF misread = "start" THEN "no" ELSE misread
  /\ step' = "free" /\ Rest
  /\ UNCHANGED <<rows, files, checkpoint, history>>

(* The database file is lost; journal and checkpoint are other files.      *)
LoseDatabase ==
  /\ phase = "down" /\ rows # {} /\ losses < MaxLosses
  /\ lost' = rows /\ rows' = {} /\ losses' = losses + 1
  /\ UNCHANGED <<files, checkpoint, process, writer, faults, born, restores>>

(* restore_backup copies an earlier table over the file, nothing else.     *)
RestoreBackup(p) ==
  /\ phase = "down" /\ restores < MaxRestores
  /\ p < Head(rows)
  /\ rows' = { r \in rows : r.position <= p }
  /\ restores' = restores + 1
  /\ UNCHANGED <<files, checkpoint, process, writer, faults, born, lost, losses>>

HolderStep ==
  \/ RecoverLinkedRotation \/ SelectEvents \/ AppendEvents
  \/ RotateFirst \/ RotateLast
StartupStep ==
  PlanDrain \/ ReconcilePage \/ WriteCheckpoint \/ CommitStartup

Next ==
  \/ \E run \in Runs, n \in 1..MaxCommit : CommitEvents(run, n)
  \/ \E b \in pending : TakeLock(b)
  \/ HolderStep
  \/ Bootstrap
  \/ \E unread \in SUBSET Journal : BootstrapMisreads(unread)
  \/ StartupStep
  \/ MisreadCheckpoint
  \/ ObserverFails
  \/ \E p \in 0..MaxEvents : AppendTears(p)
  \/ Crash
  \/ LoseDatabase
  \/ \E p \in 0..MaxEvents : RestoreBackup(p)

(* A process that runs goes on: start-up is one coroutine, the lock's      *)
(* holder one thread, and an exception reaches whoever handles it.  Nobody *)
(* promises that a server that is down is started again.                   *)
Fairness ==
  /\ WF_vars(HolderStep) /\ WF_vars(StartupStep)
  /\ WF_vars(step = "failed" /\ (ObserverFails \/ Crash))

Spec == Init /\ [][Next]_vars /\ Fairness

-----------------------------------------------------------------------------
(* Properties.                                                             *)

(* Nothing below is promised after a restored backup, or once a rebuild    *)
(* that left records out was committed: positions are given out a second   *)
(* time (MissingEventsAreAppended).  A misread that does not reach its     *)
(* commit does no harm: the next start reads the journal again.            *)
OneHistory == restores = 0 /\ misread # "table"

(* What is served and what is journaled are one history: every journal     *)
(* record is the table's event at that position.  An observer never runs   *)
(* for a commit that failed, and a rebuild that had no read error misses   *)
(* no segment.                                                             *)
JournalIsOfDatabase ==
  OneHistory /\ phase = "serving" => Journal \subseteq { RecordOf(r) : r \in rows }

(* No position is in two segments, whatever retry, torn append, restart,   *)
(* restore or interrupted rotation came between: each event is appended    *)
(* at most once.                                                           *)
EachPositionOnce ==
  /\ \A a, b \in archives :
       a # b => PositionsOf(a.records) \cap PositionsOf(b.records) = {}
  /\ ~HasTwin => PositionsOf(active) \cap PositionsOf(Archived) = {}

(* The checkpoint admits not to have read the range from verified to       *)
(* legacy; every other event of the table up to its tail is in the         *)
(* journal, so no later start has to look below it.                        *)
OutsideLegacy(r) == r.position <= checkpoint.verified \/ checkpoint.legacy < r.position
CheckpointIsTrue ==
  OneHistory /\ checkpoint # NoCheckpoint =>
    \A r \in rows : r.position <= checkpoint.tail /\ OutsideLegacy(r) =>
      RecordOf(r) \in Journal

Ready     == phase = "start" /\ phase' = "serving"
Delivered == \A r \in rows : OutsideLegacy(r) => RecordOf(r) \in Journal

(* A start that reaches serving has closed the debt of every earlier       *)
(* process: failed observers and crashes between commit and append leave   *)
(* no committed event out of the journal, the legacy range excepted (after *)
(* a checkpoint that could not be read, the table of that start).          *)
ReadyMeansDelivered == [][OneHistory /\ Ready => Delivered']_vars

(* The same with restored backups and misread segments, as the storage     *)
(* ledger states it ("Missing SQL events are appended exactly once"): not  *)
(* what the code does, since it recognizes events by their positions (see  *)
(* the README).                                                            *)
MissingEventsAreAppended == [][Ready => Delivered']_vars

(* A table lost when nothing was owed to the journal comes back as it was, *)
(* the positions and each run's versions included, in whatever order the   *)
(* observers had appended, and in spite of earlier starts that misread it  *)
(* and failed; when records could not be read, what comes back is still    *)
(* of the lost table.                                                      *)
RebuildIsFaithful ==
  [][OneHistory /\ Ready /\ rows = {} /\ lost # {}
     /\ { RecordOf(r) : r \in lost } \subseteq Journal
       => /\ { RecordOf(r) : r \in rows' } \subseteq { RecordOf(r) : r \in lost }
          /\ misread = "no" => rows' = lost]_vars

(* Start-up does not hang: the drain passes over what is already there,    *)
(* page after page, until the server serves or the process has ended.      *)
StartCompletes == phase = "start" ~> phase # "start"
=============================================================================
