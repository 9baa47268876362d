--------------------------- MODULE ArtifactStore ---------------------------
(***************************************************************************)
(* The content-addressed artifact store of one project (artifacts/), what  *)
(* publishes into it (graph_runtime/dispatch.py, rejection_evidence.py),   *)
(* the reference rows that keep a blob (graph_runtime/store.py) and the    *)
(* collection after the deletion of a run (workflow/service.py, gc.py).    *)
(*                                                                         *)
(* A publication and a sweep exclude each other by a flock on a file,      *)
(* waited for in a thread of asyncio's default pool, which put and release *)
(* need too.  A content that is stored already is not written again and    *)
(* keeps its age.                                                          *)
(***************************************************************************)
EXTENDS Naturals, FiniteSets

CONSTANTS
  Runs,            (* the runs of the project.                             *)
  Recurring,       (* contents that may be produced again: check output, a *)
                   (* callback's payload, a decision's question context.   *)
  Unique,          (* contents that name their attempt: receipts, evidence.*)
  None,            (* no content.                                          *)
  Threads,         (* size of the pool.                                    *)
  Faults,          (* "crash", "raise", "cancel".                          *)
  MaxPublications, (* bound: publications.                                 *)
  MaxDays,         (* bound: grace periods that pass.                      *)
  MaxFaults        (* bound: faults.                                       *)

ASSUME ArtifactAssumption ==
  /\ Recurring \cap Unique = {} /\ None \notin Recurring \cup Unique
  /\ Faults \subseteq {"crash", "raise", "cancel"}
  /\ IsFiniteSet(Runs)
  /\ Threads \in Nat /\ MaxPublications \in Nat /\ MaxDays \in Nat /\ MaxFaults \in Nat

VARIABLES
  (* Durable.                                                              *)
  blob,      (* blob[c]: "none", "young", or "old" past the grace period.  *)
  row,       (* row[r]: "open", "ended" (may be deleted), "deleted".       *)
  refs,      (* graph_artifact_references: pairs of a run and a content.   *)
  needed,    (* needed[r]: contents that the finalization of r's staged    *)
             (* submission, or the replay of its rejected answer, reads.   *)
  (* The server process.                                                   *)
  pc,        (* pc[j]: the next step of a publication or a sweep.          *)
  kind, content, question,   (* what the publication of a run publishes.   *)
  lock,      (* whose file descriptor has the flock.                       *)
  abandoned, (* threads in flock whose waiter was cancelled.               *)
  aged,      (* aged[r]: blobs older than the cutoff of r's collection,    *)
             (* which is computed from the time of the deletion.           *)
  left, victim,              (* the sweep's blobs to look at, and to unlink*)
  (* Bounds and history.                                                   *)
  seen,      (* the unique contents that were given out.                   *)
  published, days, faults

Contents == Recurring \cup Unique
Pub(r)   == <<r, "publish">>
Gc(r)    == <<r, "sweep">>
Jobs     == {Pub(r) : r \in Runs} \cup {Gc(r) : r \in Runs}

(* Nobody has the flock; a descriptor nobody holds has it.                 *)
Free   == <<None, "free">>
Leaked == <<None, "leaked">>

jobs    == <<pc, kind, content, question>>
durable == <<blob, row, refs, needed>>
sweep   == <<aged, left, victim>>
bounds  == <<seen, published, days, faults>>
vars    == <<durable, jobs, lock, abandoned, sweep, bounds>>

(* check and callback, decision: the lock is held through the append.      *)
(* rejection: receipt of a rejected answer; evidence: of a rejected patch. *)
Kinds  == {"check", "callback", "decision", "rejection", "evidence"}
Locked == {"check", "callback", "decision"}
Asking == {"decision", "rejection"}     (* publish a question context too. *)
Labels == {"idle", "wait", "flock", "question", "requeue", "put", "unlock", "append",
           "release", "sweep", "unlink"}

Busy       == Cardinality({j \in Jobs : pc[j] = "flock"}) + abandoned
FreeThread == Busy < Threads

(* Blobs, rows, jobs; the pool has no more threads than it has.            *)
TypeOK ==
  /\ blob \in [Contents -> {"none", "young", "old"}]
  /\ row \in [Runs -> {"open", "ended", "deleted"}]
  /\ refs \subseteq Runs \X Contents
  /\ needed \in [Runs -> SUBSET Contents]
  /\ pc \in [Jobs -> Labels]
  /\ kind \in [Runs -> Kinds]
  /\ content \in [Runs -> Contents \cup {None}]
  /\ question \in [Runs -> Recurring \cup {None}]
  /\ lock \in Jobs \cup {Free, Leaked}
  /\ aged \in [Runs -> SUBSET Contents]
  /\ left \subseteq Contents /\ victim \in Contents \cup {None}
  /\ seen \subseteq Unique
  /\ published \in 0..MaxPublications /\ days \in 0..MaxDays /\ faults \in 0..MaxFaults
  /\ abandoned \in Nat /\ Busy <= Threads

Init ==
  /\ blob = [c \in Contents |-> "none"]
  /\ row = [r \in Runs |-> "open"]
  /\ refs = {} /\ needed = [r \in Runs |-> {}]
  /\ pc = [j \in Jobs |-> "idle"]
  /\ kind = [r \in Runs |-> "check"]
  /\ content = [r \in Runs |-> None] /\ question = [r \in Runs |-> None]
  /\ lock = Free /\ abandoned = 0
  /\ aged = [r \in Runs |-> {}] /\ left = {} /\ victim = None
  /\ seen = {} /\ published = 0 /\ days = 0 /\ faults = 0

-----------------------------------------------------------------------------
At(j, label)   == pc[j] = label
Goto(j, label) == pc' = [pc EXCEPT ![j] = label]
Fault(f)       == f \in Faults /\ faults < MaxFaults /\ faults' = faults + 1

(* A blob that is there is reused as it is; its age does not change.       *)
Stored(c) == [blob EXCEPT ![c] = IF @ = "none" THEN "young" ELSE @]

(* A deleted run's references do not count, nor do those of the run whose  *)
(* deletion is collected.                                                  *)
RetainedByAnyRow(c, r) == \E q \in Runs \ {r} : <<q, c>> \in refs
Retained(c, r) == \E q \in Runs \ {r} : row[q] # "deleted" /\ <<q, c>> \in refs

-----------------------------------------------------------------------------
(* The lock: a thread of the pool waits in flock.                          *)
TakeThread(j) ==
  /\ At(j, "wait") /\ FreeThread
  /\ Goto(j, "flock")
  /\ UNCHANGED <<durable, kind, content, question, lock, abandoned, sweep, bounds>>

(* The first step of a publication inside the lock; a rejection comes      *)
(* twice, for the question context and for the receipt.                    *)
FirstStep(r) == IF kind[r] \in Asking /\ question[r] = None THEN "question" ELSE "put"

EnterPublication(r) ==
  /\ At(Pub(r), "flock") /\ lock = Free
  /\ lock' = Pub(r)
  /\ Goto(Pub(r), FirstStep(r))
  /\ UNCHANGED <<durable, kind, content, question, abandoned, sweep, bounds>>

(* _release needs a thread of the pool.                                    *)
Unlock(r, label, next) ==
  /\ At(Pub(r), label) /\ FreeThread
  /\ lock' = Free
  /\ Goto(Pub(r), next)
  /\ UNCHANGED <<durable, kind, content, question, abandoned, sweep, bounds>>

Requeue(r)       == Unlock(r, "requeue", "wait")
LeaveUnlocked(r) == Unlock(r, "unlock", "append")
Leave(r)         == Unlock(r, "release", "idle")

-----------------------------------------------------------------------------
(* A publication of an active run: one at a time, under its worktree lock. *)
Publish(r, k, c) ==
  /\ At(Pub(r), "idle") /\ row[r] = "open" /\ published < MaxPublications
  /\ k \in {"check", "callback"} => c \in Recurring
  /\ k \notin {"check", "callback"} => c \in Unique \ seen
  /\ kind' = [kind EXCEPT ![r] = k]
  /\ content' = [content EXCEPT ![r] = c]
  /\ question' = [question EXCEPT ![r] = None]
  /\ seen' = seen \cup ({c} \cap Unique)
  /\ published' = published + 1
  /\ Goto(Pub(r), "wait")
  /\ UNCHANGED <<durable, lock, abandoned, sweep, days, faults>>

PutQuestion(r, q) ==
  /\ At(Pub(r), "question") /\ FreeThread
  /\ blob' = Stored(q)
  /\ question' = [question EXCEPT ![r] = q]
  /\ Goto(Pub(r), IF kind[r] = "rejection" THEN "requeue" ELSE "put")
  /\ UNCHANGED <<row, refs, needed, kind, content, lock, abandoned, sweep, bounds>>

(* Where the lock is released: after the append, or before it.             *)
AfterPutReleasing(k) == "unlock"
AfterPut(k) == IF k \in Locked THEN "append" ELSE "unlock"

Put(r) ==
  /\ At(Pub(r), "put") /\ FreeThread
  /\ blob' = Stored(content[r])
  /\ Goto(Pub(r), AfterPut(kind[r]))
  /\ UNCHANGED <<row, refs, needed, kind, content, question, lock, abandoned, sweep, bounds>>

AfterAppend(j) == IF lock = j THEN "release" ELSE "idle"

(* The event and its reference row are one transaction.  The context of a  *)
(* decision is in the payload, not among the indexed fields.               *)
Recorded(r) ==
  /\ refs' = refs \cup {<<r, content[r]>>}
  /\ needed' = IF kind[r] \in {"check", "evidence"} THEN needed
               ELSE [needed EXCEPT ![r] = @ \cup ({content[r], question[r]} \ {None})]

Append(r) ==
  /\ At(Pub(r), "append")
  /\ Recorded(r)
  /\ Goto(Pub(r), AfterAppend(Pub(r)))
  /\ UNCHANGED <<blob, row, kind, content, question, lock, abandoned, sweep, bounds>>

(* The finalization of a staged submission, or the next attempt's replay,  *)
(* reads what it needs; when something is missing the attempt is recovered *)
(* or the node fails.                                                      *)
Finalize(r) ==
  /\ row[r] = "open" /\ needed[r] # {}
  /\ needed' = [needed EXCEPT ![r] = {}]
  /\ UNCHANGED <<blob, row, refs, jobs, lock, abandoned, sweep, bounds>>

-----------------------------------------------------------------------------
(* A run becomes deletable, and is deleted; the collection follows the     *)
(* commit of the deletion.                                                 *)
End(r) ==
  /\ row[r] = "open"
  /\ row' = [row EXCEPT ![r] = "ended"]
  /\ UNCHANGED <<blob, refs, needed, jobs, lock, abandoned, sweep, bounds>>

(* mtime before the cutoff.                                                *)
Eligible == {c \in Contents : blob[c] = "old"}

(* The clock is read before the collection waits for the lock, so what     *)
(* becomes old while it waits is not its to sweep.                         *)
DeleteRun(r) ==
  /\ row[r] = "ended"
  /\ row' = [row EXCEPT ![r] = "deleted"]
  /\ aged' = [aged EXCEPT ![r] = Eligible]
  /\ Goto(Gc(r), "wait")
  /\ UNCHANGED <<blob, refs, needed, kind, content, question, lock, abandoned, left, victim,
                 bounds>>

EnterSweep(r) ==
  /\ At(Gc(r), "flock") /\ lock = Free
  /\ lock' = Gc(r)
  /\ Goto(Gc(r), "sweep")
  /\ left' = aged[r]
  /\ UNCHANGED <<durable, kind, content, question, abandoned, aged, victim, bounds>>

(* The probe is awaited; the unlink after it does not look again.          *)
Probe(r, c) ==
  /\ At(Gc(r), "sweep") /\ c \in left
  /\ left' = left \ {c}
  /\ IF Retained(c, r) THEN UNCHANGED <<pc, victim>>
     ELSE victim' = c /\ Goto(Gc(r), "unlink")
  /\ UNCHANGED <<durable, kind, content, question, lock, abandoned, aged, bounds>>

(* Stored again, a content is younger than the cutoff of who waits.        *)
Unlink(r) ==
  /\ At(Gc(r), "unlink")
  /\ blob' = [blob EXCEPT ![victim] = "none"]
  /\ aged' = [q \in Runs |-> aged[q] \ {victim}]
  /\ victim' = None
  /\ Goto(Gc(r), "sweep")
  /\ UNCHANGED <<row, refs, needed, kind, content, question, lock, abandoned, left, bounds>>

EndSweep(r) ==
  /\ At(Gc(r), "sweep") /\ left = {} /\ FreeThread
  /\ lock' = Free /\ aged' = [aged EXCEPT ![r] = {}]
  /\ Goto(Gc(r), "idle")
  /\ UNCHANGED <<durable, kind, content, question, abandoned, left, victim, bounds>>

-----------------------------------------------------------------------------
(* A put or an append raises, a file cannot be read: the lock is released. *)
AfterRaiseKeeping(j) == "idle"
AfterRaise(j) == IF lock = j THEN "release" ELSE "idle"

Raise(r) ==
  /\ Fault("raise")
  /\ \E label \in {"question", "put", "append"} : At(Pub(r), label)
  /\ Goto(Pub(r), AfterRaise(Pub(r)))
  /\ UNCHANGED <<durable, kind, content, question, lock, abandoned, sweep,
                 seen, published, days>>

SweepRaises(r) ==
  /\ Fault("raise")
  /\ At(Gc(r), "sweep") /\ FreeThread
  /\ lock' = Free /\ left' = {} /\ aged' = [aged EXCEPT ![r] = {}]
  /\ Goto(Gc(r), "idle")
  /\ UNCHANGED <<durable, kind, content, question, abandoned, victim, seen, published, days>>

(* A stop cancels the task of a check, or the runner's, which captures     *)
(* what it rejects.  Submissions that are staged are shielded.  A thread   *)
(* in flock does not notice: it takes the lock later and drops the         *)
(* descriptor.  An append may have committed.                              *)
Cancellable(r) == kind[r] \in {"check", "rejection", "evidence"}

CancelWaiter(r) ==
  /\ Fault("cancel") /\ Cancellable(r)
  /\ \/ At(Pub(r), "wait") /\ abandoned' = abandoned
     \/ At(Pub(r), "flock") /\ abandoned' = abandoned + 1
  /\ Goto(Pub(r), "idle")
  /\ UNCHANGED <<durable, kind, content, question, lock, sweep, seen, published, days>>

CancelHolder(r) ==
  /\ Fault("cancel") /\ Cancellable(r)
  /\ \E label \in {"question", "put", "append"} : At(Pub(r), label)
  /\ Goto(Pub(r), AfterRaise(Pub(r)))
  /\ \/ UNCHANGED <<blob, refs, needed>>
     \/ At(Pub(r), "put") /\ blob' = Stored(content[r]) /\ UNCHANGED <<refs, needed>>
     \/ At(Pub(r), "append") /\ Recorded(r) /\ UNCHANGED blob
  /\ UNCHANGED <<row, kind, content, question, lock, abandoned, sweep, seen, published, days>>

(* The release waits for a thread: cancelled there, it never runs.         *)
CancelRelease(r) ==
  /\ Fault("cancel") /\ Cancellable(r)
  /\ \E label \in {"requeue", "unlock", "release"} : At(Pub(r), label)
  /\ lock' = IF FreeThread THEN Free ELSE Leaked
  /\ Goto(Pub(r), "idle")
  /\ UNCHANGED <<durable, kind, content, question, abandoned, sweep, seen, published, days>>

AbandonedThreadAcquires ==
  /\ abandoned > 0 /\ lock = Free
  /\ lock' = Leaked /\ abandoned' = abandoned - 1
  /\ UNCHANGED <<durable, jobs, sweep, bounds>>

(* The process dies: the kernel closes its descriptors.                    *)
Crash ==
  /\ Fault("crash")
  /\ pc' = [j \in Jobs |-> "idle"]
  /\ lock' = Free /\ abandoned' = 0
  /\ aged' = [r \in Runs |-> {}] /\ left' = {} /\ victim' = None
  /\ UNCHANGED <<durable, kind, content, question, seen, published, days>>

(* A day, the grace period, passes: longer than any publication or sweep   *)
(* that has the lock or appends, not longer than a wait for the lock.      *)
DayPasses ==
  /\ days < MaxDays /\ days' = days + 1
  /\ \A j \in Jobs : pc[j] \in {"idle", "wait", "flock"}
  /\ blob' = [c \in Contents |-> IF blob[c] = "none" THEN "none" ELSE "old"]
  /\ UNCHANGED <<row, refs, needed, jobs, lock, abandoned, sweep, seen, published, faults>>

-----------------------------------------------------------------------------
Publication(r) ==
  \/ TakeThread(Pub(r)) \/ EnterPublication(r)
  \/ \E q \in Recurring : PutQuestion(r, q)
  \/ Requeue(r) \/ Put(r) \/ LeaveUnlocked(r) \/ Append(r) \/ Leave(r)

Collection(r) ==
  \/ TakeThread(Gc(r)) \/ EnterSweep(r)
  \/ \E c \in Contents : Probe(r, c)
  \/ Unlink(r) \/ EndSweep(r)

Next ==
  \/ \E r \in Runs :
       \/ \E k \in Kinds, c \in Contents : Publish(r, k, c)
       \/ Publication(r) \/ Finalize(r)
       \/ End(r) \/ DeleteRun(r) \/ Collection(r)
       \/ Raise(r) \/ SweepRaises(r) \/ CancelWaiter(r) \/ CancelHolder(r) \/ CancelRelease(r)
  \/ AbandonedThreadAcquires \/ Crash \/ DayPasses

Spec == Init /\ [][Next]_vars

(* One event loop: a publication and a deletion that began go on.          *)
Fairness == \A r \in Runs : WF_vars(Publication(r)) /\ WF_vars(Collection(r))

FairSpec == Spec /\ Fairness

-----------------------------------------------------------------------------
(* Every artifact that a run which is not deleted has recorded is there:   *)
(* authorized reads of it succeed and staged payloads and receipts can be  *)
(* read.  A content that recurs may be an old blob of a deleted run, kept  *)
(* by the lock from put to append; a receipt is appended without the lock  *)
(* and kept by the grace period.                                           *)
ReferencesResolve ==
  \A r \in Runs, c \in Contents :
     row[r] # "deleted" /\ <<r, c>> \in refs => blob[c] # "none"

(* A sweep that ends leaves no blob older than its cutoff that nobody      *)
(* refers to, unless a deletion committed since has it still to sweep:     *)
(* what collect_after_delete promises, although a run may be deleted       *)
(* between two of its probes.                                              *)
SweepIsThorough ==
  [][\A r \in Runs : EndSweep(r) =>
        \A c \in aged[r] :
           (\A q \in Runs : row[q] # "deleted" => <<q, c>> \notin refs)
           => \E q \in Runs \ {r} : pc[Gc(q)] # "idle" /\ c \in aged[q]]_vars

(* A thread that nobody waits for waits for the lock, or has left it held. *)
Leaking == abandoned > 0 \/ lock = Leaked

(* Every publication and every collection ends, crashes and failed appends *)
(* included, if no cancelled task left its thread or its lock behind.      *)
JobsEnd == \A j \in Jobs : pc[j] # "idle" ~> pc[j] = "idle" \/ Leaking

(* ArtifactRootLock.publish: the lock is held from blob creation through   *)
(* event persistence (or for a sweep), so by a task that is at work.       *)
LockIsAtWork == lock # Leaked

(* What the finalization of a staged submission will read is there: the    *)
(* question context is a protected artifact.                               *)
NeededIsStored ==
  \A r \in Runs : row[r] # "deleted" => \A c \in needed[r] : blob[c] # "none"

=============================================================================
