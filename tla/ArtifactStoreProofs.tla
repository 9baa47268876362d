------------------------ MODULE ArtifactStoreProofs ------------------------
(* Theorems about ArtifactStore for every set of runs and contents, every  *)
(* pool, and every number of publications, days and faults.                *)
EXTENDS ArtifactStore, FiniteSetTheorems, TLAPS

Typed ==
  /\ blob \in [Contents -> {"none", "young", "old"}]
  /\ row \in [Runs -> {"open", "ended", "deleted"}]
  /\ refs \subseteq Runs \X Contents
  /\ needed \in [Runs -> SUBSET Contents]
  /\ pc \in [Jobs -> Labels]
  /\ kind \in [Runs -> Kinds]
  /\ content \in [Runs -> Contents \cup {None}]
  /\ question \in [Runs -> Recurring \cup {None}]
  /\ lock \in Jobs \cup {Free, Leaked}
  /\ aged \in [Runs -> SUBSET Contents]
  /\ left \subseteq Contents /\ victim \in Contents \cup {None}
  /\ seen \subseteq Unique
  /\ published \in 0..MaxPublications /\ days \in 0..MaxDays /\ faults \in 0..MaxFaults

Pool == abandoned \in Nat /\ Busy <= Threads

(* Who is between acquire and release has the lock.                        *)
HolderLocks ==
  /\ \A r \in Runs :
       /\ pc[Pub(r)] \in {"question", "put", "requeue", "unlock", "release"} => lock = Pub(r)
       /\ pc[Pub(r)] = "append" /\ kind[r] \in Locked => lock = Pub(r)
  /\ \A r \in Runs : pc[Pub(r)] = "unlock" => kind[r] \notin Locked
  /\ \A r \in Runs : pc[Gc(r)] \in {"sweep", "unlink"} => lock = Gc(r)

(* A publication has a content, one of its own when it appends without the *)
(* lock.                                                                   *)
HasContent ==
  \A r \in Runs : pc[Pub(r)] # "idle" =>
     /\ content[r] \in Contents
     /\ kind[r] \notin Locked => content[r] \in Unique
OwnContent ==
  \A r \in Runs : content[r] \in Unique =>
     /\ content[r] \in seen
     /\ \A q \in Runs \ {r} : content[q] # content[r]

(* A content of its own is not stored before its put.                      *)
NotYetPut ==
  /\ \A c \in Unique \ seen : blob[c] = "none"
  /\ \A r \in Runs :
       /\ pc[Pub(r)] \in {"wait", "flock", "question", "requeue", "put"}
       /\ content[r] \in Unique
       => blob[content[r]] = "none"

(* What is about to be appended is stored, and is young without the lock.  *)
AppendsStored ==
  \A r \in Runs : pc[Pub(r)] \in {"unlock", "append"} =>
     /\ blob[content[r]] # "none"
     /\ kind[r] \notin Locked => blob[content[r]] = "young"

(* Only runs that are deleted are collected, and the sweep has looked at   *)
(* every blob older than its cutoff that is not left.                      *)
Referred(c) == \E q \in Runs : row[q] # "deleted" /\ <<q, c>> \in refs

CollectsDeleted == \A r \in Runs : pc[Gc(r)] # "idle" => row[r] = "deleted"
LeftIsOld ==
  /\ \A r \in Runs : \A c \in aged[r] : blob[c] = "old"
  /\ \A r \in Runs : pc[Gc(r)] \in {"sweep", "unlink"} => \A c \in left : blob[c] = "old"
VictimIsOrphan ==
  \A r \in Runs : pc[Gc(r)] = "unlink" =>
     victim \in Contents \ left /\ blob[victim] = "old" /\ ~Referred(victim)
SweptSoFar ==
  \A r \in Runs : pc[Gc(r)] \in {"sweep", "unlink"} =>
     \A c \in aged[r] :
        \/ c \in left \/ Referred(c)
        \/ pc[Gc(r)] = "unlink" /\ c = victim
        \/ \E q \in Runs \ {r} : pc[Gc(q)] # "idle" /\ c \in aged[q]

Publishing == HasContent /\ OwnContent /\ NotYetPut /\ AppendsStored
Collecting == CollectsDeleted /\ LeftIsOld /\ VictimIsOrphan /\ SweptSoFar

IInv == Typed /\ HolderLocks /\ Publishing /\ Collecting /\ ReferencesResolve

(* The names of jobs and of lock holders are different.                     *)
LEMMA Names ==
  /\ \A r \in Runs : Pub(r) \in Jobs /\ Gc(r) \in Jobs
  /\ \A r, q \in Runs : /\ Pub(r) # Gc(q)
                        /\ r # q => Pub(r) # Pub(q) /\ Gc(r) # Gc(q)
  /\ \A r \in Runs : /\ Pub(r) # Free /\ Gc(r) # Free
                     /\ Pub(r) # Leaked /\ Gc(r) # Leaked
  /\ Free # Leaked
  /\ \A j \in Jobs : \E r \in Runs : j = Pub(r) \/ j = Gc(r)
BY DEF Pub, Gc, Jobs, Free, Leaked


(* Every step keeps the types; the pool has an argument of its own below.  *)
LEMMA TypedStep ==
  ASSUME Typed, HasContent, [Next]_vars
  PROVE  Typed'
<1> USE Names, ArtifactAssumption DEF Typed, HasContent, At, Goto, Contents, durable, jobs, sweep, bounds
<1>1. ASSUME NEW r \in Runs, NEW k \in Kinds, NEW c \in Contents, Publish(r, k, c) PROVE Typed'
  BY <1>1 DEF Publish, Labels
<1>2. ASSUME NEW j \in Jobs, TakeThread(j) PROVE Typed'
  BY <1>2 DEF TakeThread, Labels
<1>3. ASSUME NEW r \in Runs, EnterPublication(r) PROVE Typed'
  BY <1>3 DEF EnterPublication, FirstStep, Labels
<1>4. ASSUME NEW r \in Runs, NEW c \in Recurring, PutQuestion(r, c) PROVE Typed'
  BY <1>4 DEF PutQuestion, Stored, Labels
<1>5. ASSUME NEW r \in Runs, Requeue(r) PROVE Typed'
  BY <1>5 DEF Requeue, Unlock, Labels
<1>6. ASSUME NEW r \in Runs, Put(r) PROVE Typed'
  BY <1>6 DEF Put, AfterPut, Stored, Labels
<1>7. ASSUME NEW r \in Runs, LeaveUnlocked(r) PROVE Typed'
  BY <1>7 DEF LeaveUnlocked, Unlock, Labels
<1>8. ASSUME NEW r \in Runs, Append(r) PROVE Typed'
  BY <1>8 DEF Append, Recorded, AfterAppend, Labels
<1>9. ASSUME NEW r \in Runs, Leave(r) PROVE Typed'
  BY <1>9 DEF Leave, Unlock, Labels
<1>10. ASSUME NEW r \in Runs, Finalize(r) PROVE Typed'
  BY <1>10 DEF Finalize, Labels
<1>11. ASSUME NEW r \in Runs, End(r) PROVE Typed'
  BY <1>11 DEF End, Labels
<1>12. ASSUME NEW r \in Runs, DeleteRun(r) PROVE Typed'
  BY <1>12 DEF DeleteRun, Eligible, Labels
<1>13. ASSUME NEW r \in Runs, EnterSweep(r) PROVE Typed'
  BY <1>13 DEF EnterSweep, Labels
<1>14. ASSUME NEW r \in Runs, NEW c \in Contents, Probe(r, c) PROVE Typed'
  <2>1. CASE Retained(c, r)
    BY <1>14, <2>1 DEF Probe, Labels
  <2>2. CASE ~Retained(c, r)
    BY <1>14, <2>2 DEF Probe, Labels
  <2> QED
    BY <2>1, <2>2
<1>15. ASSUME NEW r \in Runs, Unlink(r) PROVE Typed'
  BY <1>15 DEF Unlink, Labels
<1>16. ASSUME NEW r \in Runs, EndSweep(r) PROVE Typed'
  BY <1>16 DEF EndSweep, Labels
<1>17. ASSUME NEW r \in Runs, Raise(r) PROVE Typed'
  BY <1>17 DEF Raise, AfterRaise, Fault, Labels
<1>18. ASSUME NEW r \in Runs, SweepRaises(r) PROVE Typed'
  BY <1>18 DEF SweepRaises, Fault, Labels
<1>19. ASSUME NEW r \in Runs, CancelWaiter(r) PROVE Typed'
  BY <1>19 DEF CancelWaiter, Fault, Labels
<1>20. ASSUME NEW r \in Runs, CancelHolder(r) PROVE Typed'
  <2>1. blob' = blob \/ blob' = Stored(content[r])
    BY <1>20 DEF CancelHolder
  <2>2. blob' \in [Contents -> {"none", "young", "old"}]
    BY <2>1 DEF Stored
  <2>3. \/ refs' = refs /\ needed' = needed
        \/ Recorded(r) /\ content[r] \in Contents
    <3>1. pc[Pub(r)] # "idle"
      BY <1>20 DEF CancelHolder
    <3>2. (refs' = refs /\ needed' = needed) \/ Recorded(r)
      BY <1>20 DEF CancelHolder, Recorded
    <3> QED
      BY <3>1, <3>2
  <2>4. refs' \subseteq Runs \X Contents /\ needed' \in [Runs -> SUBSET Contents]
    BY <2>3 DEF Recorded
  <2>5. pc' \in [Jobs -> Labels]
    BY <1>20 DEF CancelHolder, AfterRaise, Labels
  <2>6. /\ UNCHANGED <<row, kind, content, question, lock, aged, left, victim, seen, published, days>>
        /\ faults' \in 0..MaxFaults
    BY <1>20 DEF CancelHolder, Fault
  <2> QED
    BY <2>2, <2>4, <2>5, <2>6
<1>21. ASSUME NEW r \in Runs, CancelRelease(r) PROVE Typed'
  BY <1>21 DEF CancelRelease, Fault, Labels
<1>22. ASSUME AbandonedThreadAcquires PROVE Typed'
  BY <1>22 DEF AbandonedThreadAcquires, Labels
<1>23. ASSUME Crash PROVE Typed'
  BY <1>23 DEF Crash, Fault, Labels
<1>24. ASSUME DayPasses PROVE Typed'
  BY <1>24 DEF DayPasses, Labels
<1>25. ASSUME UNCHANGED vars PROVE Typed'
  BY <1>25 DEF vars
<1>26. ASSUME NEW r \in Runs, Publication(r) PROVE Typed'
  BY <1>26, <1>2, <1>3, <1>4, <1>5, <1>6, <1>7, <1>8, <1>9 DEF Publication
<1>27. ASSUME NEW r \in Runs, Collection(r) PROVE Typed'
  BY <1>27, <1>2, <1>13, <1>14, <1>15, <1>16 DEF Collection
<1> QED
  BY <1>1, <1>10, <1>11, <1>12, <1>17, <1>18, <1>19, <1>20, <1>21, <1>22, <1>23, <1>24, <1>25, <1>26, <1>27 DEF Next

(* Every step keeps the lock with who is between acquire and release.      *)
LEMMA LocksStep ==
  ASSUME Typed, HolderLocks, [Next]_vars
  PROVE  HolderLocks'
<1> USE Names, ArtifactAssumption DEF Typed, HolderLocks, Locked, At, Goto, Contents, durable, jobs, sweep, bounds
<1>1. ASSUME NEW r \in Runs, NEW k \in Kinds, NEW c \in Contents, Publish(r, k, c) PROVE HolderLocks'
  BY <1>1 DEF Publish
<1>2. ASSUME NEW j \in Jobs, TakeThread(j) PROVE HolderLocks'
  BY <1>2 DEF TakeThread
<1>3. ASSUME NEW r \in Runs, EnterPublication(r) PROVE HolderLocks'
  BY <1>3 DEF EnterPublication, FirstStep
<1>4. ASSUME NEW r \in Runs, NEW c \in Recurring, PutQuestion(r, c) PROVE HolderLocks'
  BY <1>4 DEF PutQuestion, Stored
<1>5. ASSUME NEW r \in Runs, Requeue(r) PROVE HolderLocks'
  BY <1>5 DEF Requeue, Unlock
<1>6. ASSUME NEW r \in Runs, Put(r) PROVE HolderLocks'
  BY <1>6 DEF Put, AfterPut, Stored
<1>7. ASSUME NEW r \in Runs, LeaveUnlocked(r) PROVE HolderLocks'
  BY <1>7 DEF LeaveUnlocked, Unlock
<1>8. ASSUME NEW r \in Runs, Append(r) PROVE HolderLocks'
  BY <1>8 DEF Append, Recorded, AfterAppend
<1>9. ASSUME NEW r \in Runs, Leave(r) PROVE HolderLocks'
  BY <1>9 DEF Leave, Unlock
<1>10. ASSUME NEW r \in Runs, Finalize(r) PROVE HolderLocks'
  BY <1>10 DEF Finalize
<1>11. ASSUME NEW r \in Runs, End(r) PROVE HolderLocks'
  BY <1>11 DEF End
<1>12. ASSUME NEW r \in Runs, DeleteRun(r) PROVE HolderLocks'
  BY <1>12 DEF DeleteRun, Eligible
<1>13. ASSUME NEW r \in Runs, EnterSweep(r) PROVE HolderLocks'
  BY <1>13 DEF EnterSweep
<1>14. ASSUME NEW r \in Runs, NEW c \in Contents, Probe(r, c) PROVE HolderLocks'
  <2>1. CASE Retained(c, r)
    BY <1>14, <2>1 DEF Probe
  <2>2. CASE ~Retained(c, r)
    BY <1>14, <2>2 DEF Probe
  <2> QED
    BY <2>1, <2>2
<1>15. ASSUME NEW r \in Runs, Unlink(r) PROVE HolderLocks'
  BY <1>15 DEF Unlink
<1>16. ASSUME NEW r \in Runs, EndSweep(r) PROVE HolderLocks'
  BY <1>16 DEF EndSweep
<1>17. ASSUME NEW r \in Runs, Raise(r) PROVE HolderLocks'
  BY <1>17 DEF Raise, AfterRaise, Fault
<1>18. ASSUME NEW r \in Runs, SweepRaises(r) PROVE HolderLocks'
  BY <1>18 DEF SweepRaises, Fault
<1>19. ASSUME NEW r \in Runs, CancelWaiter(r) PROVE HolderLocks'
  BY <1>19 DEF CancelWaiter, Fault
<1>20. ASSUME NEW r \in Runs, CancelHolder(r) PROVE HolderLocks'
  BY <1>20 DEF CancelHolder, AfterRaise, Recorded, Fault, Stored
<1>21. ASSUME NEW r \in Runs, CancelRelease(r) PROVE HolderLocks'
  BY <1>21 DEF CancelRelease, Fault
<1>22. ASSUME AbandonedThreadAcquires PROVE HolderLocks'
  BY <1>22 DEF AbandonedThreadAcquires
<1>23. ASSUME Crash PROVE HolderLocks'
  BY <1>23 DEF Crash, Fault
<1>24. ASSUME DayPasses PROVE HolderLocks'
  BY <1>24 DEF DayPasses
<1>25. ASSUME UNCHANGED vars PROVE HolderLocks'
  BY <1>25 DEF vars
<1>26. ASSUME NEW r \in Runs, Publication(r) PROVE HolderLocks'
  BY <1>26, <1>2, <1>3, <1>4, <1>5, <1>6, <1>7, <1>8, <1>9 DEF Publication
<1>27. ASSUME NEW r \in Runs, Collection(r) PROVE HolderLocks'
  BY <1>27, <1>2, <1>13, <1>14, <1>15, <1>16 DEF Collection
<1> QED
  BY <1>1, <1>10, <1>11, <1>12, <1>17, <1>18, <1>19, <1>20, <1>21, <1>22, <1>23, <1>24, <1>25, <1>26, <1>27 DEF Next

(* A publication keeps its content until it is idle again.                 *)
LEMMA ContentStep ==
  ASSUME Typed, HasContent, [Next]_vars
  PROVE  HasContent'
<1> USE Names, ArtifactAssumption DEF Typed, HasContent, Locked, Kinds, At, Goto, Contents, durable, jobs, sweep, bounds
<1>1. ASSUME NEW r \in Runs, NEW k \in Kinds, NEW c \in Contents, Publish(r, k, c) PROVE HasContent'
  BY <1>1 DEF Publish
<1>2. ASSUME NEW j \in Jobs, TakeThread(j) PROVE HasContent'
  BY <1>2 DEF TakeThread
<1>3. ASSUME NEW r \in Runs, EnterPublication(r) PROVE HasContent'
  BY <1>3 DEF EnterPublication, FirstStep
<1>4. ASSUME NEW r \in Runs, NEW c \in Recurring, PutQuestion(r, c) PROVE HasContent'
  BY <1>4 DEF PutQuestion, Stored
<1>5. ASSUME NEW r \in Runs, Requeue(r) PROVE HasContent'
  BY <1>5 DEF Requeue, Unlock
<1>6. ASSUME NEW r \in Runs, Put(r) PROVE HasContent'
  BY <1>6 DEF Put, AfterPut, Stored
<1>7. ASSUME NEW r \in Runs, LeaveUnlocked(r) PROVE HasContent'
  BY <1>7 DEF LeaveUnlocked, Unlock
<1>8. ASSUME NEW r \in Runs, Append(r) PROVE HasContent'
  BY <1>8 DEF Append, Recorded, AfterAppend
<1>9. ASSUME NEW r \in Runs, Leave(r) PROVE HasContent'
  BY <1>9 DEF Leave, Unlock
<1>10. ASSUME NEW r \in Runs, Finalize(r) PROVE HasContent'
  BY <1>10 DEF Finalize
<1>11. ASSUME NEW r \in Runs, End(r) PROVE HasContent'
  BY <1>11 DEF End
<1>12. ASSUME NEW r \in Runs, DeleteRun(r) PROVE HasContent'
  BY <1>12 DEF DeleteRun, Eligible
<1>13. ASSUME NEW r \in Runs, EnterSweep(r) PROVE HasContent'
  BY <1>13 DEF EnterSweep
<1>14. ASSUME NEW r \in Runs, NEW c \in Contents, Probe(r, c) PROVE HasContent'
  <2>1. CASE Retained(c, r)
    BY <1>14, <2>1 DEF Probe
  <2>2. CASE ~Retained(c, r)
    BY <1>14, <2>2 DEF Probe
  <2> QED
    BY <2>1, <2>2
<1>15. ASSUME NEW r \in Runs, Unlink(r) PROVE HasContent'
  BY <1>15 DEF Unlink
<1>16. ASSUME NEW r \in Runs, EndSweep(r) PROVE HasContent'
  BY <1>16 DEF EndSweep
<1>17. ASSUME NEW r \in Runs, Raise(r) PROVE HasContent'
  BY <1>17 DEF Raise, AfterRaise, Fault
<1>18. ASSUME NEW r \in Runs, SweepRaises(r) PROVE HasContent'
  BY <1>18 DEF SweepRaises, Fault
<1>19. ASSUME NEW r \in Runs, CancelWaiter(r) PROVE HasContent'
  BY <1>19 DEF CancelWaiter, Fault
<1>20. ASSUME NEW r \in Runs, CancelHolder(r) PROVE HasContent'
  BY <1>20 DEF CancelHolder, AfterRaise, Recorded, Fault, Stored
<1>21. ASSUME NEW r \in Runs, CancelRelease(r) PROVE HasContent'
  BY <1>21 DEF CancelRelease, Fault
<1>22. ASSUME AbandonedThreadAcquires PROVE HasContent'
  BY <1>22 DEF AbandonedThreadAcquires
<1>23. ASSUME Crash PROVE HasContent'
  BY <1>23 DEF Crash, Fault
<1>24. ASSUME DayPasses PROVE HasContent'
  BY <1>24 DEF DayPasses
<1>25. ASSUME UNCHANGED vars PROVE HasContent'
  BY <1>25 DEF vars
<1>26. ASSUME NEW r \in Runs, Publication(r) PROVE HasContent'
  BY <1>26, <1>2, <1>3, <1>4, <1>5, <1>6, <1>7, <1>8, <1>9 DEF Publication
<1>27. ASSUME NEW r \in Runs, Collection(r) PROVE HasContent'
  BY <1>27, <1>2, <1>13, <1>14, <1>15, <1>16 DEF Collection
<1> QED
  BY <1>1, <1>10, <1>11, <1>12, <1>17, <1>18, <1>19, <1>20, <1>21, <1>22, <1>23, <1>24, <1>25, <1>26, <1>27 DEF Next

(* No content of an attempt's own is given out twice.                      *)
LEMMA OwnStep ==
  ASSUME Typed, OwnContent, [Next]_vars
  PROVE  OwnContent'
<1> USE Names, ArtifactAssumption DEF Typed, OwnContent, At, Goto, Contents, durable, jobs, sweep, bounds
<1>1. ASSUME NEW r \in Runs, NEW k \in Kinds, NEW c \in Contents, Publish(r, k, c) PROVE OwnContent'
  BY <1>1 DEF Publish
<1>2. ASSUME NEW j \in Jobs, TakeThread(j) PROVE OwnContent'
  BY <1>2 DEF TakeThread
<1>3. ASSUME NEW r \in Runs, EnterPublication(r) PROVE OwnContent'
  BY <1>3 DEF EnterPublication, FirstStep
<1>4. ASSUME NEW r \in Runs, NEW c \in Recurring, PutQuestion(r, c) PROVE OwnContent'
  BY <1>4 DEF PutQuestion, Stored
<1>5. ASSUME NEW r \in Runs, Requeue(r) PROVE OwnContent'
  BY <1>5 DEF Requeue, Unlock
<1>6. ASSUME NEW r \in Runs, Put(r) PROVE OwnContent'
  BY <1>6 DEF Put, AfterPut, Stored
<1>7. ASSUME NEW r \in Runs, LeaveUnlocked(r) PROVE OwnContent'
  BY <1>7 DEF LeaveUnlocked, Unlock
<1>8. ASSUME NEW r \in Runs, Append(r) PROVE OwnContent'
  BY <1>8 DEF Append, Recorded, AfterAppend
<1>9. ASSUME NEW r \in Runs, Leave(r) PROVE OwnContent'
  BY <1>9 DEF Leave, Unlock
<1>10. ASSUME NEW r \in Runs, Finalize(r) PROVE OwnContent'
  BY <1>10 DEF Finalize
<1>11. ASSUME NEW r \in Runs, End(r) PROVE OwnContent'
  BY <1>11 DEF End
<1>12. ASSUME NEW r \in Runs, DeleteRun(r) PROVE OwnContent'
  BY <1>12 DEF DeleteRun, Eligible
<1>13. ASSUME NEW r \in Runs, EnterSweep(r) PROVE OwnContent'
  BY <1>13 DEF EnterSweep
<1>14. ASSUME NEW r \in Runs, NEW c \in Contents, Probe(r, c) PROVE OwnContent'
  <2>1. CASE Retained(c, r)
    BY <1>14, <2>1 DEF Probe
  <2>2. CASE ~Retained(c, r)
    BY <1>14, <2>2 DEF Probe
  <2> QED
    BY <2>1, <2>2
<1>15. ASSUME NEW r \in Runs, Unlink(r) PROVE OwnContent'
  BY <1>15 DEF Unlink
<1>16. ASSUME NEW r \in Runs, EndSweep(r) PROVE OwnContent'
  BY <1>16 DEF EndSweep
<1>17. ASSUME NEW r \in Runs, Raise(r) PROVE OwnContent'
  BY <1>17 DEF Raise, AfterRaise, Fault
<1>18. ASSUME NEW r \in Runs, SweepRaises(r) PROVE OwnContent'
  BY <1>18 DEF SweepRaises, Fault
<1>19. ASSUME NEW r \in Runs, CancelWaiter(r) PROVE OwnContent'
  BY <1>19 DEF CancelWaiter, Fault
<1>20. ASSUME NEW r \in Runs, CancelHolder(r) PROVE OwnContent'
  BY <1>20 DEF CancelHolder, AfterRaise, Recorded, Fault, Stored
<1>21. ASSUME NEW r \in Runs, CancelRelease(r) PROVE OwnContent'
  BY <1>21 DEF CancelRelease, Fault
<1>22. ASSUME AbandonedThreadAcquires PROVE OwnContent'
  BY <1>22 DEF AbandonedThreadAcquires
<1>23. ASSUME Crash PROVE OwnContent'
  BY <1>23 DEF Crash, Fault
<1>24. ASSUME DayPasses PROVE OwnContent'
  BY <1>24 DEF DayPasses
<1>25. ASSUME UNCHANGED vars PROVE OwnContent'
  BY <1>25 DEF vars
<1>26. ASSUME NEW r \in Runs, Publication(r) PROVE OwnContent'
  BY <1>26, <1>2, <1>3, <1>4, <1>5, <1>6, <1>7, <1>8, <1>9 DEF Publication
<1>27. ASSUME NEW r \in Runs, Collection(r) PROVE OwnContent'
  BY <1>27, <1>2, <1>13, <1>14, <1>15, <1>16 DEF Collection
<1> QED
  BY <1>1, <1>10, <1>11, <1>12, <1>17, <1>18, <1>19, <1>20, <1>21, <1>22, <1>23, <1>24, <1>25, <1>26, <1>27 DEF Next

(* Only its own put stores a content that names its attempt.               *)
LEMMA PutStep ==
  ASSUME Typed, OwnContent, NotYetPut, [Next]_vars
  PROVE  NotYetPut'
<1> USE Names, ArtifactAssumption DEF Typed, OwnContent, NotYetPut, Locked, Kinds, At, Goto, Contents, durable, jobs, sweep, bounds
<1>1. ASSUME NEW r \in Runs, NEW k \in Kinds, NEW c \in Contents, Publish(r, k, c) PROVE NotYetPut'
  BY <1>1 DEF Publish
<1>2. ASSUME NEW j \in Jobs, TakeThread(j) PROVE NotYetPut'
  BY <1>2 DEF TakeThread
<1>3. ASSUME NEW r \in Runs, EnterPublication(r) PROVE NotYetPut'
  BY <1>3 DEF EnterPublication, FirstStep
<1>4. ASSUME NEW r \in Runs, NEW c \in Recurring, PutQuestion(r, c) PROVE NotYetPut'
  BY <1>4 DEF PutQuestion, Stored
<1>5. ASSUME NEW r \in Runs, Requeue(r) PROVE NotYetPut'
  BY <1>5 DEF Requeue, Unlock
<1>6. ASSUME NEW r \in Runs, Put(r) PROVE NotYetPut'
  BY <1>6 DEF Put, AfterPut, Stored
<1>7. ASSUME NEW r \in Runs, LeaveUnlocked(r) PROVE NotYetPut'
  BY <1>7 DEF LeaveUnlocked, Unlock
<1>8. ASSUME NEW r \in Runs, Append(r) PROVE NotYetPut'
  BY <1>8 DEF Append, Recorded, AfterAppend
<1>9. ASSUME NEW r \in Runs, Leave(r) PROVE NotYetPut'
  BY <1>9 DEF Leave, Unlock
<1>10. ASSUME NEW r \in Runs, Finalize(r) PROVE NotYetPut'
  BY <1>10 DEF Finalize
<1>11. ASSUME NEW r \in Runs, End(r) PROVE NotYetPut'
  BY <1>11 DEF End
<1>12. ASSUME NEW r \in Runs, DeleteRun(r) PROVE NotYetPut'
  BY <1>12 DEF DeleteRun, Eligible
<1>13. ASSUME NEW r \in Runs, EnterSweep(r) PROVE NotYetPut'
  BY <1>13 DEF EnterSweep
<1>14. ASSUME NEW r \in Runs, NEW c \in Contents, Probe(r, c) PROVE NotYetPut'
  <2>1. CASE Retained(c, r)
    BY <1>14, <2>1 DEF Probe
  <2>2. CASE ~Retained(c, r)
    BY <1>14, <2>2 DEF Probe
  <2> QED
    BY <2>1, <2>2
<1>15. ASSUME NEW r \in Runs, Unlink(r) PROVE NotYetPut'
  BY <1>15 DEF Unlink
<1>16. ASSUME NEW r \in Runs, EndSweep(r) PROVE NotYetPut'
  BY <1>16 DEF EndSweep
<1>17. ASSUME NEW r \in Runs, Raise(r) PROVE NotYetPut'
  BY <1>17 DEF Raise, AfterRaise, Fault
<1>18. ASSUME NEW r \in Runs, SweepRaises(r) PROVE NotYetPut'
  BY <1>18 DEF SweepRaises, Fault
<1>19. ASSUME NEW r \in Runs, CancelWaiter(r) PROVE NotYetPut'
  BY <1>19 DEF CancelWaiter, Fault
<1>20. ASSUME NEW r \in Runs, CancelHolder(r) PROVE NotYetPut'
  BY <1>20 DEF CancelHolder, AfterRaise, Recorded, Fault, Stored
<1>21. ASSUME NEW r \in Runs, CancelRelease(r) PROVE NotYetPut'
  BY <1>21 DEF CancelRelease, Fault
<1>22. ASSUME AbandonedThreadAcquires PROVE NotYetPut'
  BY <1>22 DEF AbandonedThreadAcquires
<1>23. ASSUME Crash PROVE NotYetPut'
  BY <1>23 DEF Crash, Fault
<1>24. ASSUME DayPasses PROVE NotYetPut'
  BY <1>24 DEF DayPasses
<1>25. ASSUME UNCHANGED vars PROVE NotYetPut'
  BY <1>25 DEF vars
<1>26. ASSUME NEW r \in Runs, Publication(r) PROVE NotYetPut'
  BY <1>26, <1>2, <1>3, <1>4, <1>5, <1>6, <1>7, <1>8, <1>9 DEF Publication
<1>27. ASSUME NEW r \in Runs, Collection(r) PROVE NotYetPut'
  BY <1>27, <1>2, <1>13, <1>14, <1>15, <1>16 DEF Collection
<1> QED
  BY <1>1, <1>10, <1>11, <1>12, <1>17, <1>18, <1>19, <1>20, <1>21, <1>22, <1>23, <1>24, <1>25, <1>26, <1>27 DEF Next

(* Between put and append neither a sweep, which needs the lock or an old  *)
(* blob, nor a day takes the blob away.                                    *)
LEMMA AppendsStep ==
  ASSUME IInv, [Next]_vars
  PROVE  AppendsStored'
<1> USE Names, ArtifactAssumption DEF IInv, Publishing, Collecting, Typed, HolderLocks, HasContent, NotYetPut, AppendsStored, LeftIsOld, VictimIsOrphan, Locked, At, Goto, Contents, durable, jobs, sweep, bounds
<1>1. ASSUME NEW r \in Runs, NEW k \in Kinds, NEW c \in Contents, Publish(r, k, c) PROVE AppendsStored'
  BY <1>1 DEF Publish
<1>2. ASSUME NEW j \in Jobs, TakeThread(j) PROVE AppendsStored'
  BY <1>2 DEF TakeThread
<1>3. ASSUME NEW r \in Runs, EnterPublication(r) PROVE AppendsStored'
  BY <1>3 DEF EnterPublication, FirstStep
<1>4. ASSUME NEW r \in Runs, NEW c \in Recurring, PutQuestion(r, c) PROVE AppendsStored'
  BY <1>4 DEF PutQuestion, Stored
<1>5. ASSUME NEW r \in Runs, Requeue(r) PROVE AppendsStored'
  BY <1>5 DEF Requeue, Unlock
<1>6. ASSUME NEW r \in Runs, Put(r) PROVE AppendsStored'
  BY <1>6 DEF Put, AfterPut, Stored
<1>7. ASSUME NEW r \in Runs, LeaveUnlocked(r) PROVE AppendsStored'
  BY <1>7 DEF LeaveUnlocked, Unlock
<1>8. ASSUME NEW r \in Runs, Append(r) PROVE AppendsStored'
  BY <1>8 DEF Append, Recorded, AfterAppend
<1>9. ASSUME NEW r \in Runs, Leave(r) PROVE AppendsStored'
  BY <1>9 DEF Leave, Unlock
<1>10. ASSUME NEW r \in Runs, Finalize(r) PROVE AppendsStored'
  BY <1>10 DEF Finalize
<1>11. ASSUME NEW r \in Runs, End(r) PROVE AppendsStored'
  BY <1>11 DEF End
<1>12. ASSUME NEW r \in Runs, DeleteRun(r) PROVE AppendsStored'
  BY <1>12 DEF DeleteRun, Eligible
<1>13. ASSUME NEW r \in Runs, EnterSweep(r) PROVE AppendsStored'
  BY <1>13 DEF EnterSweep
<1>14. ASSUME NEW r \in Runs, NEW c \in Contents, Probe(r, c) PROVE AppendsStored'
  <2>1. CASE Retained(c, r)
    BY <1>14, <2>1 DEF Probe
  <2>2. CASE ~Retained(c, r)
    BY <1>14, <2>2 DEF Probe
  <2> QED
    BY <2>1, <2>2
<1>15. ASSUME NEW r \in Runs, Unlink(r) PROVE AppendsStored'
  BY <1>15 DEF Unlink
<1>16. ASSUME NEW r \in Runs, EndSweep(r) PROVE AppendsStored'
  BY <1>16 DEF EndSweep
<1>17. ASSUME NEW r \in Runs, Raise(r) PROVE AppendsStored'
  BY <1>17 DEF Raise, AfterRaise, Fault
<1>18. ASSUME NEW r \in Runs, SweepRaises(r) PROVE AppendsStored'
  BY <1>18 DEF SweepRaises, Fault
<1>19. ASSUME NEW r \in Runs, CancelWaiter(r) PROVE AppendsStored'
  BY <1>19 DEF CancelWaiter, Fault
<1>20. ASSUME NEW r \in Runs, CancelHolder(r) PROVE AppendsStored'
  BY <1>20 DEF CancelHolder, AfterRaise, Recorded, Fault, Stored
<1>21. ASSUME NEW r \in Runs, CancelRelease(r) PROVE AppendsStored'
  BY <1>21 DEF CancelRelease, Fault
<1>22. ASSUME AbandonedThreadAcquires PROVE AppendsStored'
  BY <1>22 DEF AbandonedThreadAcquires
<1>23. ASSUME Crash PROVE AppendsStored'
  BY <1>23 DEF Crash, Fault
<1>24. ASSUME DayPasses PROVE AppendsStored'
  BY <1>24 DEF DayPasses
<1>25. ASSUME UNCHANGED vars PROVE AppendsStored'
  BY <1>25 DEF vars
<1>26. ASSUME NEW r \in Runs, Publication(r) PROVE AppendsStored'
  BY <1>26, <1>2, <1>3, <1>4, <1>5, <1>6, <1>7, <1>8, <1>9 DEF Publication
<1>27. ASSUME NEW r \in Runs, Collection(r) PROVE AppendsStored'
  BY <1>27, <1>2, <1>13, <1>14, <1>15, <1>16 DEF Collection
<1> QED
  BY <1>1, <1>10, <1>11, <1>12, <1>17, <1>18, <1>19, <1>20, <1>21, <1>22, <1>23, <1>24, <1>25, <1>26, <1>27 DEF Next

(* A collection follows the commit of a deletion.                          *)
LEMMA DeletedStep ==
  ASSUME Typed, CollectsDeleted, [Next]_vars
  PROVE  CollectsDeleted'
<1> USE Names, ArtifactAssumption DEF Typed, CollectsDeleted, At, Goto, Contents, durable, jobs, sweep, bounds
<1>1. ASSUME NEW r \in Runs, NEW k \in Kinds, NEW c \in Contents, Publish(r, k, c) PROVE CollectsDeleted'
  BY <1>1 DEF Publish
<1>2. ASSUME NEW j \in Jobs, TakeThread(j) PROVE CollectsDeleted'
  BY <1>2 DEF TakeThread
<1>3. ASSUME NEW r \in Runs, EnterPublication(r) PROVE CollectsDeleted'
  BY <1>3 DEF EnterPublication, FirstStep
<1>4. ASSUME NEW r \in Runs, NEW c \in Recurring, PutQuestion(r, c) PROVE CollectsDeleted'
  BY <1>4 DEF PutQuestion, Stored
<1>5. ASSUME NEW r \in Runs, Requeue(r) PROVE CollectsDeleted'
  BY <1>5 DEF Requeue, Unlock
<1>6. ASSUME NEW r \in Runs, Put(r) PROVE CollectsDeleted'
  BY <1>6 DEF Put, AfterPut, Stored
<1>7. ASSUME NEW r \in Runs, LeaveUnlocked(r) PROVE CollectsDeleted'
  BY <1>7 DEF LeaveUnlocked, Unlock
<1>8. ASSUME NEW r \in Runs, Append(r) PROVE CollectsDeleted'
  BY <1>8 DEF Append, Recorded, AfterAppend
<1>9. ASSUME NEW r \in Runs, Leave(r) PROVE CollectsDeleted'
  BY <1>9 DEF Leave, Unlock
<1>10. ASSUME NEW r \in Runs, Finalize(r) PROVE CollectsDeleted'
  BY <1>10 DEF Finalize
<1>11. ASSUME NEW r \in Runs, End(r) PROVE CollectsDeleted'
  BY <1>11 DEF End
<1>12. ASSUME NEW r \in Runs, DeleteRun(r) PROVE CollectsDeleted'
  BY <1>12 DEF DeleteRun, Eligible
<1>13. ASSUME NEW r \in Runs, EnterSweep(r) PROVE CollectsDeleted'
  BY <1>13 DEF EnterSweep
<1>14. ASSUME NEW r \in Runs, NEW c \in Contents, Probe(r, c) PROVE CollectsDeleted'
  <2>1. CASE Retained(c, r)
    BY <1>14, <2>1 DEF Probe
  <2>2. CASE ~Retained(c, r)
    BY <1>14, <2>2 DEF Probe
  <2> QED
    BY <2>1, <2>2
<1>15. ASSUME NEW r \in Runs, Unlink(r) PROVE CollectsDeleted'
  BY <1>15 DEF Unlink
<1>16. ASSUME NEW r \in Runs, EndSweep(r) PROVE CollectsDeleted'
  BY <1>16 DEF EndSweep
<1>17. ASSUME NEW r \in Runs, Raise(r) PROVE CollectsDeleted'
  BY <1>17 DEF Raise, AfterRaise, Fault
<1>18. ASSUME NEW r \in Runs, SweepRaises(r) PROVE CollectsDeleted'
  BY <1>18 DEF SweepRaises, Fault
<1>19. ASSUME NEW r \in Runs, CancelWaiter(r) PROVE CollectsDeleted'
  BY <1>19 DEF CancelWaiter, Fault
<1>20. ASSUME NEW r \in Runs, CancelHolder(r) PROVE CollectsDeleted'
  BY <1>20 DEF CancelHolder, AfterRaise, Recorded, Fault, Stored
<1>21. ASSUME NEW r \in Runs, CancelRelease(r) PROVE CollectsDeleted'
  BY <1>21 DEF CancelRelease, Fault
<1>22. ASSUME AbandonedThreadAcquires PROVE CollectsDeleted'
  BY <1>22 DEF AbandonedThreadAcquires
<1>23. ASSUME Crash PROVE CollectsDeleted'
  BY <1>23 DEF Crash, Fault
<1>24. ASSUME DayPasses PROVE CollectsDeleted'
  BY <1>24 DEF DayPasses
<1>25. ASSUME UNCHANGED vars PROVE CollectsDeleted'
  BY <1>25 DEF vars
<1>26. ASSUME NEW r \in Runs, Publication(r) PROVE CollectsDeleted'
  BY <1>26, <1>2, <1>3, <1>4, <1>5, <1>6, <1>7, <1>8, <1>9 DEF Publication
<1>27. ASSUME NEW r \in Runs, Collection(r) PROVE CollectsDeleted'
  BY <1>27, <1>2, <1>13, <1>14, <1>15, <1>16 DEF Collection
<1> QED
  BY <1>1, <1>10, <1>11, <1>12, <1>17, <1>18, <1>19, <1>20, <1>21, <1>22, <1>23, <1>24, <1>25, <1>26, <1>27 DEF Next

(* The blobs that are left for the sweep stay old while it has the lock.   *)
LEMMA LeftStep ==
  ASSUME Typed, HolderLocks, LeftIsOld, VictimIsOrphan, [Next]_vars
  PROVE  LeftIsOld'
<1> USE Names, ArtifactAssumption DEF Typed, HolderLocks, LeftIsOld, VictimIsOrphan, At, Goto, Contents, durable, jobs, sweep, bounds
<1>1. ASSUME NEW r \in Runs, NEW k \in Kinds, NEW c \in Contents, Publish(r, k, c) PROVE LeftIsOld'
  BY <1>1 DEF Publish
<1>2. ASSUME NEW j \in Jobs, TakeThread(j) PROVE LeftIsOld'
  BY <1>2 DEF TakeThread
<1>3. ASSUME NEW r \in Runs, EnterPublication(r) PROVE LeftIsOld'
  BY <1>3 DEF EnterPublication, FirstStep
<1>4. ASSUME NEW r \in Runs, NEW c \in Recurring, PutQuestion(r, c) PROVE LeftIsOld'
  BY <1>4 DEF PutQuestion, Stored
<1>5. ASSUME NEW r \in Runs, Requeue(r) PROVE LeftIsOld'
  BY <1>5 DEF Requeue, Unlock
<1>6. ASSUME NEW r \in Runs, Put(r) PROVE LeftIsOld'
  BY <1>6 DEF Put, AfterPut, Stored
<1>7. ASSUME NEW r \in Runs, LeaveUnlocked(r) PROVE LeftIsOld'
  BY <1>7 DEF LeaveUnlocked, Unlock
<1>8. ASSUME NEW r \in Runs, Append(r) PROVE LeftIsOld'
  BY <1>8 DEF Append, Recorded, AfterAppend
<1>9. ASSUME NEW r \in Runs, Leave(r) PROVE LeftIsOld'
  BY <1>9 DEF Leave, Unlock
<1>10. ASSUME NEW r \in Runs, Finalize(r) PROVE LeftIsOld'
  BY <1>10 DEF Finalize
<1>11. ASSUME NEW r \in Runs, End(r) PROVE LeftIsOld'
  BY <1>11 DEF End
<1>12. ASSUME NEW r \in Runs, DeleteRun(r) PROVE LeftIsOld'
  BY <1>12 DEF DeleteRun, Eligible
<1>13. ASSUME NEW r \in Runs, EnterSweep(r) PROVE LeftIsOld'
  BY <1>13 DEF EnterSweep
<1>14. ASSUME NEW r \in Runs, NEW c \in Contents, Probe(r, c) PROVE LeftIsOld'
  <2>1. CASE Retained(c, r)
    BY <1>14, <2>1 DEF Probe
  <2>2. CASE ~Retained(c, r)
    BY <1>14, <2>2 DEF Probe
  <2> QED
    BY <2>1, <2>2
<1>15. ASSUME NEW r \in Runs, Unlink(r) PROVE LeftIsOld'
  BY <1>15 DEF Unlink
<1>16. ASSUME NEW r \in Runs, EndSweep(r) PROVE LeftIsOld'
  BY <1>16 DEF EndSweep
<1>17. ASSUME NEW r \in Runs, Raise(r) PROVE LeftIsOld'
  BY <1>17 DEF Raise, AfterRaise, Fault
<1>18. ASSUME NEW r \in Runs, SweepRaises(r) PROVE LeftIsOld'
  BY <1>18 DEF SweepRaises, Fault
<1>19. ASSUME NEW r \in Runs, CancelWaiter(r) PROVE LeftIsOld'
  BY <1>19 DEF CancelWaiter, Fault
<1>20. ASSUME NEW r \in Runs, CancelHolder(r) PROVE LeftIsOld'
  BY <1>20 DEF CancelHolder, AfterRaise, Recorded, Fault, Stored
<1>21. ASSUME NEW r \in Runs, CancelRelease(r) PROVE LeftIsOld'
  BY <1>21 DEF CancelRelease, Fault
<1>22. ASSUME AbandonedThreadAcquires PROVE LeftIsOld'
  BY <1>22 DEF AbandonedThreadAcquires
<1>23. ASSUME Crash PROVE LeftIsOld'
  BY <1>23 DEF Crash, Fault
<1>24. ASSUME DayPasses PROVE LeftIsOld'
  BY <1>24 DEF DayPasses
<1>25. ASSUME UNCHANGED vars PROVE LeftIsOld'
  BY <1>25 DEF vars
<1>26. ASSUME NEW r \in Runs, Publication(r) PROVE LeftIsOld'
  BY <1>26, <1>2, <1>3, <1>4, <1>5, <1>6, <1>7, <1>8, <1>9 DEF Publication
<1>27. ASSUME NEW r \in Runs, Collection(r) PROVE LeftIsOld'
  BY <1>27, <1>2, <1>13, <1>14, <1>15, <1>16 DEF Collection
<1> QED
  BY <1>1, <1>10, <1>11, <1>12, <1>17, <1>18, <1>19, <1>20, <1>21, <1>22, <1>23, <1>24, <1>25, <1>26, <1>27 DEF Next

(* Nobody can refer to the blob to be unlinked between probe and unlink:   *)
(* an append needs the lock, or appends a young blob.                      *)
LEMMA VictimStep ==
  ASSUME IInv, [Next]_vars
  PROVE  VictimIsOrphan'
<1> USE Names, ArtifactAssumption DEF IInv, Publishing, Collecting, Typed, HolderLocks, HasContent, AppendsStored, CollectsDeleted, LeftIsOld, VictimIsOrphan, Referred, At, Goto, Contents, durable, jobs, sweep, bounds
<1>1. ASSUME NEW r \in Runs, NEW k \in Kinds, NEW c \in Contents, Publish(r, k, c) PROVE VictimIsOrphan'
  BY <1>1 DEF Publish
<1>2. ASSUME NEW j \in Jobs, TakeThread(j) PROVE VictimIsOrphan'
  BY <1>2 DEF TakeThread
<1>3. ASSUME NEW r \in Runs, EnterPublication(r) PROVE VictimIsOrphan'
  BY <1>3 DEF EnterPublication, FirstStep
<1>4. ASSUME NEW r \in Runs, NEW c \in Recurring, PutQuestion(r, c) PROVE VictimIsOrphan'
  BY <1>4 DEF PutQuestion, Stored
<1>5. ASSUME NEW r \in Runs, Requeue(r) PROVE VictimIsOrphan'
  BY <1>5 DEF Requeue, Unlock
<1>6. ASSUME NEW r \in Runs, Put(r) PROVE VictimIsOrphan'
  BY <1>6 DEF Put, AfterPut, Stored
<1>7. ASSUME NEW r \in Runs, LeaveUnlocked(r) PROVE VictimIsOrphan'
  BY <1>7 DEF LeaveUnlocked, Unlock
<1>8. ASSUME NEW r \in Runs, Append(r) PROVE VictimIsOrphan'
  BY <1>8 DEF Append, Recorded, AfterAppend
<1>9. ASSUME NEW r \in Runs, Leave(r) PROVE VictimIsOrphan'
  BY <1>9 DEF Leave, Unlock
<1>10. ASSUME NEW r \in Runs, Finalize(r) PROVE VictimIsOrphan'
  BY <1>10 DEF Finalize
<1>11. ASSUME NEW r \in Runs, End(r) PROVE VictimIsOrphan'
  BY <1>11 DEF End
<1>12. ASSUME NEW r \in Runs, DeleteRun(r) PROVE VictimIsOrphan'
  BY <1>12 DEF DeleteRun, Eligible
<1>13. ASSUME NEW r \in Runs, EnterSweep(r) PROVE VictimIsOrphan'
  BY <1>13 DEF EnterSweep
<1>14. ASSUME NEW r \in Runs, NEW c \in Contents, Probe(r, c) PROVE VictimIsOrphan'
  <2>1. CASE Retained(c, r)
    BY <1>14, <2>1 DEF Probe
  <2>2. CASE ~Retained(c, r)
    <3>1. lock = Gc(r) /\ row[r] = "deleted" /\ c \in left /\ blob[c] = "old"
      BY <1>14 DEF Probe
    <3>2. ~Referred(c)
      BY <2>2, <3>1 DEF Retained
    <3>3. \A q \in Runs \ {r} : pc[Gc(q)] # "unlink"
      BY <3>1
    <3>4. /\ victim' = c /\ left' = left \ {c} /\ pc' = [pc EXCEPT ![Gc(r)] = "unlink"]
          /\ UNCHANGED <<blob, row, refs>>
      BY <1>14, <2>2 DEF Probe
    <3> QED
      BY <3>1, <3>2, <3>3, <3>4
  <2> QED
    BY <2>1, <2>2
<1>15. ASSUME NEW r \in Runs, Unlink(r) PROVE VictimIsOrphan'
  BY <1>15 DEF Unlink
<1>16. ASSUME NEW r \in Runs, EndSweep(r) PROVE VictimIsOrphan'
  BY <1>16 DEF EndSweep
<1>17. ASSUME NEW r \in Runs, Raise(r) PROVE VictimIsOrphan'
  BY <1>17 DEF Raise, AfterRaise, Fault
<1>18. ASSUME NEW r \in Runs, SweepRaises(r) PROVE VictimIsOrphan'
  BY <1>18 DEF SweepRaises, Fault
<1>19. ASSUME NEW r \in Runs, CancelWaiter(r) PROVE VictimIsOrphan'
  BY <1>19 DEF CancelWaiter, Fault
<1>20. ASSUME NEW r \in Runs, CancelHolder(r) PROVE VictimIsOrphan'
  BY <1>20 DEF CancelHolder, AfterRaise, Recorded, Fault, Stored
<1>21. ASSUME NEW r \in Runs, CancelRelease(r) PROVE VictimIsOrphan'
  BY <1>21 DEF CancelRelease, Fault
<1>22. ASSUME AbandonedThreadAcquires PROVE VictimIsOrphan'
  BY <1>22 DEF AbandonedThreadAcquires
<1>23. ASSUME Crash PROVE VictimIsOrphan'
  BY <1>23 DEF Crash, Fault
<1>24. ASSUME DayPasses PROVE VictimIsOrphan'
  BY <1>24 DEF DayPasses
<1>25. ASSUME UNCHANGED vars PROVE VictimIsOrphan'
  BY <1>25 DEF vars
<1>26. ASSUME NEW r \in Runs, Publication(r) PROVE VictimIsOrphan'
  BY <1>26, <1>2, <1>3, <1>4, <1>5, <1>6, <1>7, <1>8, <1>9 DEF Publication
<1>27. ASSUME NEW r \in Runs, Collection(r) PROVE VictimIsOrphan'
  BY <1>27, <1>2, <1>13, <1>14, <1>15, <1>16 DEF Collection
<1> QED
  BY <1>1, <1>10, <1>11, <1>12, <1>17, <1>18, <1>19, <1>20, <1>21, <1>22, <1>23, <1>24, <1>25, <1>26, <1>27 DEF Next

(* A step that takes nothing from the sweep, its rows or its references.   *)
LEMMA SweptFrame ==
  ASSUME SweptSoFar, UNCHANGED <<aged, left, victim, row>>, refs \subseteq refs',
         \A q \in Runs : pc'[Gc(q)] = pc[Gc(q)]
  PROVE  SweptSoFar'
BY DEF SweptSoFar, Referred

(* What the sweep has passed is referred to, or another deletion collects. *)
LEMMA SweptStep ==
  ASSUME IInv, [Next]_vars
  PROVE  SweptSoFar'
<1> USE Names, ArtifactAssumption DEF IInv, Publishing, Collecting, Typed, HolderLocks, CollectsDeleted, LeftIsOld, VictimIsOrphan, SweptSoFar, Referred, At, Goto, Contents, durable, jobs, sweep, bounds
<1>1. ASSUME NEW r \in Runs, NEW k \in Kinds, NEW c \in Contents, Publish(r, k, c) PROVE SweptSoFar'
  <2>1. \A q \in Runs : pc'[Gc(q)] = pc[Gc(q)]
    BY <1>1 DEF Publish
  <2>2. UNCHANGED <<aged, left, victim, row>> /\ refs \subseteq refs'
    BY <1>1 DEF Publish
  <2> QED
    BY <2>1, <2>2, SweptFrame
<1>2. ASSUME NEW j \in Jobs, TakeThread(j) PROVE SweptSoFar'
  <2>1. /\ pc[j] = "wait" /\ pc' = [pc EXCEPT ![j] = "flock"]
        /\ UNCHANGED <<aged, left, victim, row, refs>>
    BY <1>2 DEF TakeThread
  <2>2. \A q \in Runs :
          /\ pc'[Gc(q)] = pc[Gc(q)] \/ (pc[Gc(q)] = "wait" /\ pc'[Gc(q)] = "flock")
    BY <2>1
  <2>3. \A q \in Runs :
          /\ pc'[Gc(q)] \in {"sweep", "unlink"} => pc'[Gc(q)] = pc[Gc(q)]
          /\ pc[Gc(q)] # "idle" => pc'[Gc(q)] # "idle"
    BY <2>2
  <2> QED
    BY <2>1, <2>3
<1>3. ASSUME NEW r \in Runs, EnterPublication(r) PROVE SweptSoFar'
  <2>1. \A q \in Runs : pc'[Gc(q)] = pc[Gc(q)]
    BY <1>3 DEF EnterPublication, FirstStep
  <2>2. UNCHANGED <<aged, left, victim, row>> /\ refs \subseteq refs'
    BY <1>3 DEF EnterPublication, FirstStep
  <2> QED
    BY <2>1, <2>2, SweptFrame
<1>4. ASSUME NEW r \in Runs, NEW c \in Recurring, PutQuestion(r, c) PROVE SweptSoFar'
  BY <1>4 DEF PutQuestion, Stored
<1>5. ASSUME NEW r \in Runs, Requeue(r) PROVE SweptSoFar'
  BY <1>5 DEF Requeue, Unlock
<1>6. ASSUME NEW r \in Runs, Put(r) PROVE SweptSoFar'
  BY <1>6 DEF Put, AfterPut, Stored
<1>7. ASSUME NEW r \in Runs, LeaveUnlocked(r) PROVE SweptSoFar'
  BY <1>7 DEF LeaveUnlocked, Unlock
<1>8. ASSUME NEW r \in Runs, Append(r) PROVE SweptSoFar'
  <2>1. \A q \in Runs : pc'[Gc(q)] = pc[Gc(q)]
    BY <1>8 DEF Append, Recorded, AfterAppend
  <2>2. UNCHANGED <<aged, left, victim, row>> /\ refs \subseteq refs'
    BY <1>8 DEF Append, Recorded, AfterAppend
  <2> QED
    BY <2>1, <2>2, SweptFrame
<1>9. ASSUME NEW r \in Runs, Leave(r) PROVE SweptSoFar'
  BY <1>9 DEF Leave, Unlock
<1>10. ASSUME NEW r \in Runs, Finalize(r) PROVE SweptSoFar'
  BY <1>10 DEF Finalize
<1>11. ASSUME NEW r \in Runs, End(r) PROVE SweptSoFar'
  BY <1>11 DEF End
<1>12. ASSUME NEW r \in Runs, DeleteRun(r) PROVE SweptSoFar'
  BY <1>12 DEF DeleteRun, Eligible
<1>13. ASSUME NEW r \in Runs, EnterSweep(r) PROVE SweptSoFar'
  BY <1>13 DEF EnterSweep
<1>14. ASSUME NEW r \in Runs, NEW c \in Contents, Probe(r, c) PROVE SweptSoFar'
  <2>1. CASE Retained(c, r)
    <3>1. left' = left \ {c} /\ UNCHANGED <<pc, aged, victim, blob, row, refs>>
      BY <1>14, <2>1 DEF Probe
    <3>2. Referred(c)
      BY <2>1 DEF Retained
    <3> QED
      BY <3>1, <3>2
  <2>2. CASE ~Retained(c, r)
    <3>1. /\ victim' = c /\ left' = left \ {c} /\ pc' = [pc EXCEPT ![Gc(r)] = "unlink"]
          /\ UNCHANGED <<blob, aged, row, refs>>
      BY <1>14, <2>2 DEF Probe
    <3>2. lock = Gc(r) /\ pc[Gc(r)] = "sweep"
      BY <1>14 DEF Probe
    <3>3. /\ \A q \in Runs \ {r} : pc'[Gc(q)] = pc[Gc(q)] /\ pc[Gc(q)] \notin {"sweep", "unlink"}
          /\ pc'[Gc(r)] = "unlink"
      BY <3>1, <3>2
    <3>4. \A d \in aged[r] :
             \/ d \in left \/ Referred(d)
             \/ \E q \in Runs \ {r} : pc[Gc(q)] # "idle" /\ d \in aged[q]
      BY <3>2
    <3>5. \A d \in aged'[r] :
             \/ d \in left' \/ Referred(d)' \/ d = victim'
             \/ \E q \in Runs \ {r} : pc'[Gc(q)] # "idle" /\ d \in aged'[q]
      BY <3>1, <3>3, <3>4
    <3> QED
      BY <3>3, <3>5
  <2> QED
    BY <2>1, <2>2
<1>15. ASSUME NEW r \in Runs, Unlink(r) PROVE SweptSoFar'
  <2>1. /\ aged' = [q \in Runs |-> aged[q] \ {victim}] /\ pc' = [pc EXCEPT ![Gc(r)] = "sweep"]
        /\ UNCHANGED <<left, row, refs>>
    BY <1>15 DEF Unlink
  <2>2. lock = Gc(r) /\ pc[Gc(r)] = "unlink"
    BY <1>15 DEF Unlink
  <2>3. /\ \A q \in Runs \ {r} : pc'[Gc(q)] = pc[Gc(q)] /\ pc[Gc(q)] \notin {"sweep", "unlink"}
        /\ \A q \in Runs : aged'[q] = aged[q] \ {victim}
    BY <2>1, <2>2
  <2>4. \A d \in aged[r] :
           \/ d \in left \/ Referred(d) \/ d = victim
           \/ \E q \in Runs \ {r} : pc[Gc(q)] # "idle" /\ d \in aged[q]
    BY <2>2
  <2>5. \A d \in aged'[r] :
           \/ d \in left' \/ Referred(d)'
           \/ \E q \in Runs \ {r} : pc'[Gc(q)] # "idle" /\ d \in aged'[q]
    BY <2>1, <2>3, <2>4
  <2> QED
    BY <2>3, <2>5
<1>16. ASSUME NEW r \in Runs, EndSweep(r) PROVE SweptSoFar'
  BY <1>16 DEF EndSweep
<1>17. ASSUME NEW r \in Runs, Raise(r) PROVE SweptSoFar'
  <2>1. \A q \in Runs : pc'[Gc(q)] = pc[Gc(q)]
    BY <1>17 DEF Raise, AfterRaise, Fault
  <2>2. UNCHANGED <<aged, left, victim, row>> /\ refs \subseteq refs'
    BY <1>17 DEF Raise, AfterRaise, Fault
  <2> QED
    BY <2>1, <2>2, SweptFrame
<1>18. ASSUME NEW r \in Runs, SweepRaises(r) PROVE SweptSoFar'
  BY <1>18 DEF SweepRaises, Fault
<1>19. ASSUME NEW r \in Runs, CancelWaiter(r) PROVE SweptSoFar'
  <2>1. \A q \in Runs : pc'[Gc(q)] = pc[Gc(q)]
    BY <1>19 DEF CancelWaiter, Fault
  <2>2. UNCHANGED <<aged, left, victim, row>> /\ refs \subseteq refs'
    BY <1>19 DEF CancelWaiter, Fault
  <2> QED
    BY <2>1, <2>2, SweptFrame
<1>20. ASSUME NEW r \in Runs, CancelHolder(r) PROVE SweptSoFar'
  <2>1. \A q \in Runs : pc'[Gc(q)] = pc[Gc(q)]
    BY <1>20 DEF CancelHolder, AfterRaise
  <2>2. UNCHANGED <<aged, left, victim, row>> /\ refs \subseteq refs'
    BY <1>20 DEF CancelHolder, Recorded
  <2> QED
    BY <2>1, <2>2, SweptFrame
<1>21. ASSUME NEW r \in Runs, CancelRelease(r) PROVE SweptSoFar'
  BY <1>21 DEF CancelRelease, Fault
<1>22. ASSUME AbandonedThreadAcquires PROVE SweptSoFar'
  BY <1>22 DEF AbandonedThreadAcquires
<1>23. ASSUME Crash PROVE SweptSoFar'
  BY <1>23 DEF Crash, Fault
<1>24. ASSUME DayPasses PROVE SweptSoFar'
  <2>1. \A r \in Runs : pc'[Gc(r)] \notin {"sweep", "unlink"}
    BY <1>24 DEF DayPasses
  <2> QED
    BY <2>1
<1>25. ASSUME UNCHANGED vars PROVE SweptSoFar'
  BY <1>25 DEF vars
<1>26. ASSUME NEW r \in Runs, Publication(r) PROVE SweptSoFar'
  BY <1>26, <1>2, <1>3, <1>4, <1>5, <1>6, <1>7, <1>8, <1>9 DEF Publication
<1>27. ASSUME NEW r \in Runs, Collection(r) PROVE SweptSoFar'
  BY <1>27, <1>2, <1>13, <1>14, <1>15, <1>16 DEF Collection
<1> QED
  BY <1>1, <1>10, <1>11, <1>12, <1>17, <1>18, <1>19, <1>20, <1>21, <1>22, <1>23, <1>24, <1>25, <1>26, <1>27 DEF Next

(* No step breaks a reference.                                             *)
LEMMA RefsStep ==
  ASSUME IInv, [Next]_vars
  PROVE  ReferencesResolve'
<1> USE Names, ArtifactAssumption DEF IInv, Publishing, Collecting, Typed, HasContent, AppendsStored, VictimIsOrphan, Referred, ReferencesResolve, At, Goto, Contents, durable, jobs, sweep, bounds
<1>1. ASSUME NEW r \in Runs, NEW k \in Kinds, NEW c \in Contents, Publish(r, k, c) PROVE ReferencesResolve'
  BY <1>1 DEF Publish
<1>2. ASSUME NEW j \in Jobs, TakeThread(j) PROVE ReferencesResolve'
  BY <1>2 DEF TakeThread
<1>3. ASSUME NEW r \in Runs, EnterPublication(r) PROVE ReferencesResolve'
  BY <1>3 DEF EnterPublication, FirstStep
<1>4. ASSUME NEW r \in Runs, NEW c \in Recurring, PutQuestion(r, c) PROVE ReferencesResolve'
  BY <1>4 DEF PutQuestion, Stored
<1>5. ASSUME NEW r \in Runs, Requeue(r) PROVE ReferencesResolve'
  BY <1>5 DEF Requeue, Unlock
<1>6. ASSUME NEW r \in Runs, Put(r) PROVE ReferencesResolve'
  BY <1>6 DEF Put, AfterPut, Stored
<1>7. ASSUME NEW r \in Runs, LeaveUnlocked(r) PROVE ReferencesResolve'
  BY <1>7 DEF LeaveUnlocked, Unlock
<1>8. ASSUME NEW r \in Runs, Append(r) PROVE ReferencesResolve'
  BY <1>8 DEF Append, Recorded, AfterAppend
<1>9. ASSUME NEW r \in Runs, Leave(r) PROVE ReferencesResolve'
  BY <1>9 DEF Leave, Unlock
<1>10. ASSUME NEW r \in Runs, Finalize(r) PROVE ReferencesResolve'
  BY <1>10 DEF Finalize
<1>11. ASSUME NEW r \in Runs, End(r) PROVE ReferencesResolve'
  BY <1>11 DEF End
<1>12. ASSUME NEW r \in Runs, DeleteRun(r) PROVE ReferencesResolve'
  BY <1>12 DEF DeleteRun, Eligible
<1>13. ASSUME NEW r \in Runs, EnterSweep(r) PROVE ReferencesResolve'
  BY <1>13 DEF EnterSweep
<1>14. ASSUME NEW r \in Runs, NEW c \in Contents, Probe(r, c) PROVE ReferencesResolve'
  <2>1. CASE Retained(c, r)
    BY <1>14, <2>1 DEF Probe
  <2>2. CASE ~Retained(c, r)
    BY <1>14, <2>2 DEF Probe
  <2> QED
    BY <2>1, <2>2
<1>15. ASSUME NEW r \in Runs, Unlink(r) PROVE ReferencesResolve'
  BY <1>15 DEF Unlink
<1>16. ASSUME NEW r \in Runs, EndSweep(r) PROVE ReferencesResolve'
  BY <1>16 DEF EndSweep
<1>17. ASSUME NEW r \in Runs, Raise(r) PROVE ReferencesResolve'
  BY <1>17 DEF Raise, AfterRaise, Fault
<1>18. ASSUME NEW r \in Runs, SweepRaises(r) PROVE ReferencesResolve'
  BY <1>18 DEF SweepRaises, Fault
<1>19. ASSUME NEW r \in Runs, CancelWaiter(r) PROVE ReferencesResolve'
  BY <1>19 DEF CancelWaiter, Fault
<1>20. ASSUME NEW r \in Runs, CancelHolder(r) PROVE ReferencesResolve'
  BY <1>20 DEF CancelHolder, AfterRaise, Recorded, Fault, Stored
<1>21. ASSUME NEW r \in Runs, CancelRelease(r) PROVE ReferencesResolve'
  BY <1>21 DEF CancelRelease, Fault
<1>22. ASSUME AbandonedThreadAcquires PROVE ReferencesResolve'
  BY <1>22 DEF AbandonedThreadAcquires
<1>23. ASSUME Crash PROVE ReferencesResolve'
  BY <1>23 DEF Crash, Fault
<1>24. ASSUME DayPasses PROVE ReferencesResolve'
  BY <1>24 DEF DayPasses
<1>25. ASSUME UNCHANGED vars PROVE ReferencesResolve'
  BY <1>25 DEF vars
<1>26. ASSUME NEW r \in Runs, Publication(r) PROVE ReferencesResolve'
  BY <1>26, <1>2, <1>3, <1>4, <1>5, <1>6, <1>7, <1>8, <1>9 DEF Publication
<1>27. ASSUME NEW r \in Runs, Collection(r) PROVE ReferencesResolve'
  BY <1>27, <1>2, <1>13, <1>14, <1>15, <1>16 DEF Collection
<1> QED
  BY <1>1, <1>10, <1>11, <1>12, <1>17, <1>18, <1>19, <1>20, <1>21, <1>22, <1>23, <1>24, <1>25, <1>26, <1>27 DEF Next

(* The threads of the pool that wait in flock for a task that waits too.    *)
Waiting == {j \in Jobs : pc[j] = "flock"}

(* There are finitely many jobs.                                           *)
LEMMA WaitingIsFinite == IsFiniteSet(Waiting) /\ Cardinality(Waiting) \in Nat
<1>1. IsFiniteSet(Runs)
  BY ArtifactAssumption
<1>2. IsFiniteSet({Pub(r) : r \in Runs})
  <2> DEFINE f == [r \in Runs |-> Pub(r)]
  <2>1. f \in Surjection(Runs, {Pub(r) : r \in Runs})
    BY DEF Surjection
  <2> QED
    BY <1>1, <2>1, FS_Surjection DEF ExistsSurjection
<1>3. IsFiniteSet({Gc(r) : r \in Runs})
  <2> DEFINE f == [r \in Runs |-> Gc(r)]
  <2>1. f \in Surjection(Runs, {Gc(r) : r \in Runs})
    BY DEF Surjection
  <2> QED
    BY <1>1, <2>1, FS_Surjection DEF ExistsSurjection
<1>4. IsFiniteSet(Jobs)
  BY <1>2, <1>3, FS_Union DEF Jobs
<1> QED
  BY <1>4, FS_Subset, FS_CardinalityType DEF Waiting

(* Busy, and Busy', in terms of Waiting.                                   *)
LEMMA CountsWaiting ==
  Busy = Cardinality(Waiting) + abandoned /\ Busy' = Cardinality(Waiting') + abandoned'
BY DEF Busy, Waiting

(* A step after which fewer tasks wait.                                    *)
LEMMA FewerWait ==
  ASSUME Pool, Waiting' \subseteq Waiting, abandoned' = abandoned
  PROVE  Pool'
<1>1. Cardinality(Waiting') <= Cardinality(Waiting) /\ Cardinality(Waiting') \in Nat
  BY WaitingIsFinite, FS_Subset, FS_CardinalityType
<1> QED
  BY <1>1, WaitingIsFinite, CountsWaiting, ArtifactAssumption DEF Pool

(* No step takes a thread that the pool does not have.                     *)
LEMMA PoolStep ==
  ASSUME Typed, Pool, [Next]_vars
  PROVE  Pool'
<1> USE Names, ArtifactAssumption DEF Typed, Pool, At, Goto, Contents, durable, jobs, sweep, bounds
<1>1. ASSUME NEW r \in Runs, NEW k \in Kinds, NEW c \in Contents, Publish(r, k, c) PROVE Pool'
  <2>1. Waiting' \subseteq Waiting /\ abandoned' = abandoned
    BY <1>1 DEF Waiting, Publish
  <2> QED
    BY <2>1, FewerWait
<1>2. ASSUME NEW j \in Jobs, TakeThread(j) PROVE Pool'
  <2>1. Waiting' = Waiting \cup {j} /\ j \notin Waiting
    BY <1>2 DEF Waiting, TakeThread
  <2>2. Cardinality(Waiting') = Cardinality(Waiting) + 1
    BY <2>1, WaitingIsFinite, FS_AddElement
  <2>3. Cardinality(Waiting) + abandoned < Threads /\ abandoned' = abandoned
    BY <1>2, CountsWaiting DEF TakeThread, FreeThread
  <2> QED
    BY <2>2, <2>3, CountsWaiting, WaitingIsFinite
<1>3. ASSUME NEW r \in Runs, EnterPublication(r) PROVE Pool'
  <2>1. Waiting' \subseteq Waiting /\ abandoned' = abandoned
    BY <1>3 DEF Waiting, EnterPublication, FirstStep
  <2> QED
    BY <2>1, FewerWait
<1>4. ASSUME NEW r \in Runs, NEW c \in Recurring, PutQuestion(r, c) PROVE Pool'
  <2>1. Waiting' \subseteq Waiting /\ abandoned' = abandoned
    BY <1>4 DEF Waiting, PutQuestion, Stored
  <2> QED
    BY <2>1, FewerWait
<1>5. ASSUME NEW r \in Runs, Requeue(r) PROVE Pool'
  <2>1. Waiting' \subseteq Waiting /\ abandoned' = abandoned
    BY <1>5 DEF Waiting, Requeue, Unlock
  <2> QED
    BY <2>1, FewerWait
<1>6. ASSUME NEW r \in Runs, Put(r) PROVE Pool'
  <2>1. Waiting' \subseteq Waiting /\ abandoned' = abandoned
    BY <1>6 DEF Waiting, Put, AfterPut, Stored
  <2> QED
    BY <2>1, FewerWait
<1>7. ASSUME NEW r \in Runs, LeaveUnlocked(r) PROVE Pool'
  <2>1. Waiting' \subseteq Waiting /\ abandoned' = abandoned
    BY <1>7 DEF Waiting, LeaveUnlocked, Unlock
  <2> QED
    BY <2>1, FewerWait
<1>8. ASSUME NEW r \in Runs, Append(r) PROVE Pool'
  <2>1. Waiting' \subseteq Waiting /\ abandoned' = abandoned
    BY <1>8 DEF Waiting, Append, Recorded, AfterAppend
  <2> QED
    BY <2>1, FewerWait
<1>9. ASSUME NEW r \in Runs, Leave(r) PROVE Pool'
  <2>1. Waiting' \subseteq Waiting /\ abandoned' = abandoned
    BY <1>9 DEF Waiting, Leave, Unlock
  <2> QED
    BY <2>1, FewerWait
<1>10. ASSUME NEW r \in Runs, Finalize(r) PROVE Pool'
  <2>1. Waiting' \subseteq Waiting /\ abandoned' = abandoned
    BY <1>10 DEF Waiting, Finalize
  <2> QED
    BY <2>1, FewerWait
<1>11. ASSUME NEW r \in Runs, End(r) PROVE Pool'
  <2>1. Waiting' \subseteq Waiting /\ abandoned' = abandoned
    BY <1>11 DEF Waiting, End
  <2> QED
    BY <2>1, FewerWait
<1>12. ASSUME NEW r \in Runs, DeleteRun(r) PROVE Pool'
  <2>1. Waiting' \subseteq Waiting /\ abandoned' = abandoned
    BY <1>12 DEF Waiting, DeleteRun
  <2> QED
    BY <2>1, FewerWait
<1>13. ASSUME NEW r \in Runs, EnterSweep(r) PROVE Pool'
  <2>1. Waiting' \subseteq Waiting /\ abandoned' = abandoned
    BY <1>13 DEF Waiting, EnterSweep
  <2> QED
    BY <2>1, FewerWait
<1>14. ASSUME NEW r \in Runs, NEW c \in Contents, Probe(r, c) PROVE Pool'
  <2>1. Waiting' \subseteq Waiting /\ abandoned' = abandoned
    BY <1>14 DEF Waiting, Probe, Retained
  <2> QED
    BY <2>1, FewerWait
<1>15. ASSUME NEW r \in Runs, Unlink(r) PROVE Pool'
  <2>1. Waiting' \subseteq Waiting /\ abandoned' = abandoned
    BY <1>15 DEF Waiting, Unlink
  <2> QED
    BY <2>1, FewerWait
<1>16. ASSUME NEW r \in Runs, EndSweep(r) PROVE Pool'
  <2>1. Waiting' \subseteq Waiting /\ abandoned' = abandoned
    BY <1>16 DEF Waiting, EndSweep
  <2> QED
    BY <2>1, FewerWait
<1>17. ASSUME NEW r \in Runs, Raise(r) PROVE Pool'
  <2>1. Waiting' \subseteq Waiting /\ abandoned' = abandoned
    BY <1>17 DEF Waiting, Raise, AfterRaise, Fault
  <2> QED
    BY <2>1, FewerWait
<1>18. ASSUME NEW r \in Runs, SweepRaises(r) PROVE Pool'
  <2>1. Waiting' \subseteq Waiting /\ abandoned' = abandoned
    BY <1>18 DEF Waiting, SweepRaises, Fault
  <2> QED
    BY <2>1, FewerWait
<1>19. ASSUME NEW r \in Runs, CancelWaiter(r) PROVE Pool'
  <2>1. CASE At(Pub(r), "wait")
    <3>1. Waiting' \subseteq Waiting /\ abandoned' = abandoned
      BY <1>19, <2>1 DEF Waiting, CancelWaiter
    <3> QED
      BY <3>1, FewerWait
  <2>2. CASE At(Pub(r), "flock")
    <3>1. /\ Pub(r) \in Waiting /\ Waiting' = Waiting \ {Pub(r)}
          /\ abandoned' = abandoned + 1
      BY <1>19, <2>2 DEF Waiting, CancelWaiter
    <3>2. Cardinality(Waiting') = Cardinality(Waiting) - 1
      BY <3>1, WaitingIsFinite, FS_RemoveElement
    <3> QED
      BY <3>1, <3>2, WaitingIsFinite, CountsWaiting
  <2> QED
    BY <1>19, <2>1, <2>2 DEF CancelWaiter
<1>20. ASSUME NEW r \in Runs, CancelHolder(r) PROVE Pool'
  <2>1. Waiting' \subseteq Waiting /\ abandoned' = abandoned
    BY <1>20 DEF Waiting, CancelHolder, AfterRaise, Recorded, Fault, Stored
  <2> QED
    BY <2>1, FewerWait
<1>21. ASSUME NEW r \in Runs, CancelRelease(r) PROVE Pool'
  <2>1. Waiting' \subseteq Waiting /\ abandoned' = abandoned
    BY <1>21 DEF Waiting, CancelRelease, Fault
  <2> QED
    BY <2>1, FewerWait
<1>22. ASSUME AbandonedThreadAcquires PROVE Pool'
  <2>1. Waiting' = Waiting /\ abandoned \in Nat \ {0} /\ abandoned' = abandoned - 1
    BY <1>22 DEF Waiting, AbandonedThreadAcquires
  <2> QED
    BY <2>1, CountsWaiting, WaitingIsFinite
<1>23. ASSUME Crash PROVE Pool'
  <2>1. Waiting' = {} /\ abandoned' = 0
    BY <1>23 DEF Waiting, Crash
  <2> QED
    BY <2>1, FS_EmptySet, CountsWaiting
<1>24. ASSUME DayPasses PROVE Pool'
  <2>1. Waiting' \subseteq Waiting /\ abandoned' = abandoned
    BY <1>24 DEF Waiting, DayPasses
  <2> QED
    BY <2>1, FewerWait
<1>25. ASSUME UNCHANGED vars PROVE Pool'
  <2>1. Waiting' \subseteq Waiting /\ abandoned' = abandoned
    BY <1>25 DEF Waiting, vars
  <2> QED
    BY <2>1, FewerWait
<1>26. ASSUME NEW r \in Runs, Publication(r) PROVE Pool'
  BY <1>26, <1>2, <1>3, <1>4, <1>5, <1>6, <1>7, <1>8, <1>9 DEF Publication
<1>27. ASSUME NEW r \in Runs, Collection(r) PROVE Pool'
  BY <1>27, <1>2, <1>13, <1>14, <1>15, <1>16 DEF Collection
<1> QED
  BY <1>1, <1>10, <1>11, <1>12, <1>17, <1>18, <1>19, <1>20, <1>21, <1>22, <1>23, <1>24, <1>25, <1>26, <1>27 DEF Next

-----------------------------------------------------------------------------
(* Nothing is stored, referred to or at work at first.                     *)
LEMMA InitInv == Init => IInv /\ Pool
<1> SUFFICES ASSUME Init PROVE IInv /\ Pool
  OBVIOUS
<1>1. Typed
  BY ArtifactAssumption, Names DEF Init, Typed, Labels, Kinds, Contents
<1>2. \A j \in Jobs : pc[j] = "idle"
  BY DEF Init
<1>3. HolderLocks /\ Collecting
  BY <1>2, Names
     DEF HolderLocks, Collecting, CollectsDeleted, LeftIsOld, VictimIsOrphan, SweptSoFar, Init
<1>4. Publishing
  BY <1>2, Names, ArtifactAssumption
     DEF Publishing, HasContent, OwnContent, NotYetPut, AppendsStored, Init, Contents
<1>5. ReferencesResolve
  BY DEF Init, ReferencesResolve
<1>6. Pool
  <2>1. Waiting = {} /\ abandoned = 0
    BY <1>2 DEF Waiting, Init
  <2> QED
    BY <2>1, FS_EmptySet, CountsWaiting, ArtifactAssumption DEF Pool
<1> QED
  BY <1>1, <1>3, <1>4, <1>5, <1>6 DEF IInv

(* Every step keeps the invariant.                                         *)
LEMMA NextInv == IInv /\ Pool /\ [Next]_vars => IInv' /\ Pool'
<1> SUFFICES ASSUME IInv, Pool, [Next]_vars PROVE IInv' /\ Pool'
  OBVIOUS
<1>1. /\ Typed /\ HolderLocks /\ HasContent /\ OwnContent /\ NotYetPut
      /\ CollectsDeleted /\ LeftIsOld /\ VictimIsOrphan
  BY DEF IInv, Publishing, Collecting
<1>2. Typed' /\ HolderLocks'
  BY <1>1, TypedStep, LocksStep
<1>3. HasContent' /\ OwnContent' /\ NotYetPut' /\ AppendsStored'
  BY <1>1, ContentStep, OwnStep, PutStep, AppendsStep
<1>4. CollectsDeleted' /\ LeftIsOld' /\ VictimIsOrphan' /\ SweptSoFar'
  BY <1>1, DeletedStep, LeftStep, VictimStep, SweptStep
<1>5. ReferencesResolve' /\ Pool'
  BY <1>1, RefsStep, PoolStep
<1> QED
  BY <1>2, <1>3, <1>4, <1>5 DEF IInv, Publishing, Collecting

(* The invariant: locks, contents and the sweep together keep the          *)
(* references; none of the parts that the others use holds alone.          *)
THEOREM StoreInvariant == Spec => [](IInv /\ Pool)
BY InitInv, NextInv, PTL DEF Spec

(* Types, and never more busy threads than the pool has, whatever is       *)
(* cancelled: coordination.py waits for the flock in to_thread.            *)
THEOREM StoreTypes == Spec => []TypeOK
<1>1. Typed /\ Pool => TypeOK
  BY DEF Typed, Pool, TypeOK
<1>2. IInv => Typed
  BY DEF IInv
<1> QED
  BY <1>1, <1>2, StoreInvariant, PTL

(* What an undeleted run has recorded is stored: publication and sweep     *)
(* never race, for any number of runs, crashes and cancelled tasks.        *)
THEOREM ReferencesAreKept == Spec => []ReferencesResolve
<1>1. IInv => ReferencesResolve
  BY DEF IInv
<1> QED
  BY <1>1, StoreInvariant, PTL

(* A collection that ends leaves nothing that was old when its run was     *)
(* deleted and that nobody refers to, unless a later deletion has it still *)
(* to sweep: gc.py's probes and unlinks race deletions of other runs.      *)
THEOREM SweepsAreThorough == Spec => SweepIsThorough
<1> DEFINE A ==
      \A r \in Runs : EndSweep(r) =>
        \A c \in aged[r] :
           (\A q \in Runs : row[q] # "deleted" => <<q, c>> \notin refs)
           => \E q \in Runs \ {r} : pc[Gc(q)] # "idle" /\ c \in aged[q]
<1>1. IInv => A
  <2> SUFFICES ASSUME IInv, NEW r \in Runs, EndSweep(r), NEW c \in aged[r],
                      \A q \in Runs : row[q] # "deleted" => <<q, c>> \notin refs
               PROVE  \E q \in Runs \ {r} : pc[Gc(q)] # "idle" /\ c \in aged[q]
    OBVIOUS
  <2>1. pc[Gc(r)] = "sweep" /\ left = {}
    BY DEF EndSweep, At
  <2>2. SweptSoFar
    BY DEF IInv, Collecting
  <2> QED
    BY <2>1, <2>2 DEF SweptSoFar, Referred
<1> QED
  <2>1. IInv /\ [Next]_vars => [A]_vars
    BY <1>1
  <2> QED
    BY <2>1, StoreInvariant, PTL DEF Spec, SweepIsThorough

=============================================================================
