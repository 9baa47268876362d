------------------------- MODULE EventJournalProofs -------------------------
(* Theorems about EventJournal for every set of runs, every number of      *)
(* events, segment and page size, and every number of faults, losses and   *)
(* restored backups.                                                       *)
EXTENDS EventJournal, FiniteSetTheorems, TLAPS

RecordsOf(table) == { RecordOf(r) : r \in table }
OnePerPosition(S) == \A d, e \in S : d.position = e.position => d = e

(* Positions are those of committed events.                                *)
Born(S) == \A e \in S : e.position <= born
Bounded ==
  /\ Born(rows) /\ Born(session) /\ Born(Journal) /\ Born(batch)
  /\ \A b \in pending : Born(b.events)

(* Where start-up and the lock's holder can be.                            *)
LockHolder ==
  /\ phase = "down" => step = "free" /\ pending = {}
  /\ phase = "start" =>
       /\ step \in {"plan", "recover", "page", "append", "failed", "seal", "drop",
                    "checkpoint", "commit"}
       /\ pending = {}
       /\ step = "recover" => batch = {}
  /\ phase = "serving" =>
       step \in {"free", "recover", "select", "append", "failed", "link", "unlink",
                 "seal", "drop"}
  /\ phase # "start" => session = {}
  /\ step \in {"free", "plan", "checkpoint", "commit"} => batch = {}
  /\ step \in {"link", "unlink", "seal", "drop"} => active # {}

(* A checkpoint that exists is made of positions.                          *)
FrontierKnown ==
  /\ checkpoint # NoCheckpoint =>
       checkpoint.verified >= 0 /\ checkpoint.tail >= 0 /\ checkpoint.legacy >= 0
  /\ phase = "serving" \/ step = "commit" => checkpoint # NoCheckpoint
  /\ step = "commit" => checkpoint.tail = Head(session)
  /\ phase = "serving" => checkpoint.tail <= Head(rows)

(* An archive's name covers its records.                                   *)
Segments ==
  \A a \in archives : a.records # {} /\ \A e \in a.records : Covers(a, e)

(* An archive that is still the active file's other name has its content,  *)
(* and nobody is about to write; who unlinks the active file has archived  *)
(* what is in it.                                                          *)
Twins ==
  /\ \A a \in archives : a.twin => a.records = active
  /\ HasTwin => step \in {"free", "plan", "recover", "commit", "unlink", "drop"}
  /\ step \in {"unlink", "drop"} => \E a \in archives : a.records = active

(* The drain has left behind what the archives it does not read may hold.  *)
DrainAhead ==
  phase = "start" /\ step \notin {"plan", "checkpoint", "commit"} =>
    /\ ClampedTail <= cursor
    /\ \A e \in batch : ClampedTail < e.position

TablesUnique == OnePerPosition(rows) /\ OnePerPosition(session)

(* Start-up works on the table, or on what the journal has of a lost one.  *)
StartTable ==
  phase = "start" => IF rows = {} THEN RecordsOf(session) \subseteq Journal
                                  ELSE session = rows

(* A misread concerns the start that goes on, which found no table.        *)
MisreadKnown ==
  /\ misread \in {"no", "start", "table"}
  /\ misread = "start" => phase = "start" /\ rows = {}

(* With one history, whatever is journaled or about to be is an event of   *)
(* the table at hand, and a journal whose table is lost still has one      *)
(* record for each position.                                               *)
OneJournal ==
  OneHistory =>
    /\ OnePerPosition(Journal)
    /\ phase = "down" /\ rows # {} => Journal \subseteq RecordsOf(rows)
    /\ phase = "start" =>
         /\ batch \subseteq RecordsOf(session)
         /\ misread = "no" => Journal \subseteq RecordsOf(session)
    /\ phase = "serving" =>
         /\ Journal \cup batch \subseteq RecordsOf(rows)
         /\ \A b \in pending : b.events \subseteq RecordsOf(rows)
    /\ rows = {} /\ lost # {} => Journal \subseteq RecordsOf(lost)

(* The drain has journaled what it has passed.                             *)
Passed(r) == DrainFrom < r.position /\ r.position <= cursor
Drained ==
  OneHistory /\ phase = "start" =>
    /\ step = "recover" => cursor = DrainFrom
    /\ step \in {"page", "seal", "drop"} =>
         \A r \in session : Passed(r) => RecordOf(r) \in Journal
    /\ step = "append" =>
         \A r \in session : Passed(r) => RecordOf(r) \in Journal \cup batch
    /\ step = "checkpoint" =>
         \A r \in session : DrainFrom < r.position => RecordOf(r) \in Journal

(* Versions count a run's events, in the table, the rebuilt and the lost   *)
(* one.                                                                    *)
UpTo(S, e) == { d \in S : d.run = e.run /\ d.position <= e.position }
Counted(table) == \A r \in table : r.version = Cardinality(UpTo(RecordsOf(table), r))
VersionsCount == Counted(rows) /\ Counted(session) /\ Counted(lost)

-----------------------------------------------------------------------------
(* Greatest and least positions, and the head of a table.                  *)

(* A set of positions that is not empty has a greatest and a least element:*)
(* the intervals that end, or begin, at its elements are well-founded.     *)
LEMMA HighestIsMax ==
  ASSUME NEW n \in Nat, NEW S \in SUBSET (0..n), S # {}
  PROVE  Highest(S) \in S /\ \A m \in S : m <= Highest(S)
<1> DEFINE Up == { m..n : m \in S }
<1>1. \A m \in S : IsFiniteSet(m..n) /\ m..n \in SUBSET Nat
  BY FS_Interval
<1>2. Up \subseteq FiniteSubsetsOf(Nat) /\ Up # {}
  <2>1. \A m \in S : m..n \in FiniteSubsetsOf(Nat)
    BY <1>1 DEF FiniteSubsetsOf
  <2>2. QED BY <2>1
<1>3. IsWellFoundedOn(StrictSubsetOrdering(Nat), FiniteSubsetsOf(Nat))
  BY FS_StrictSubsetOrderingWellFounded
<1> HIDE DEF Up
<1>4. PICK X \in Up : \A Y \in Up : ~ (<<Y, X>> \in StrictSubsetOrdering(Nat))
  BY <1>2, <1>3, WFMin
<1>5. PICK k \in S : X = k..n
  BY DEF Up
<1>6. ASSUME NEW m \in S, m > k PROVE FALSE
  <2>1. m..n \in Up BY DEF Up
  <2>2. m..n \subseteq k..n /\ k \in k..n /\ k \notin m..n BY <1>6
  <2>3. m..n \in SUBSET Nat /\ k..n \in SUBSET Nat OBVIOUS
  <2>4. <<m..n, k..n>> \in StrictSubsetOrdering(Nat)
    BY <2>2, <2>3 DEF StrictSubsetOrdering
  <2>5. QED BY <1>4, <1>5, <2>1, <2>4
<1>7. k \in S /\ \A m \in S : m <= k
  BY <1>6
<1>8. QED
  BY <1>7 DEF Highest

LEMMA LowestIsMin ==
  ASSUME NEW n \in Nat, NEW S \in SUBSET (0..n), S # {}
  PROVE  Lowest(S) \in S /\ \A m \in S : Lowest(S) <= m
<1> DEFINE Down == { 0..m : m \in S }
<1>1. \A m \in S : IsFiniteSet(0..m) /\ 0..m \in SUBSET Nat
  BY FS_Interval
<1>2. Down \subseteq FiniteSubsetsOf(Nat) /\ Down # {}
  <2>1. \A m \in S : 0..m \in FiniteSubsetsOf(Nat)
    BY <1>1 DEF FiniteSubsetsOf
  <2>2. QED BY <2>1
<1>3. IsWellFoundedOn(StrictSubsetOrdering(Nat), FiniteSubsetsOf(Nat))
  BY FS_StrictSubsetOrderingWellFounded
<1> HIDE DEF Down
<1>4. PICK X \in Down : \A Y \in Down : ~ (<<Y, X>> \in StrictSubsetOrdering(Nat))
  BY <1>2, <1>3, WFMin
<1>5. PICK k \in S : X = 0..k
  BY DEF Down
<1>6. ASSUME NEW m \in S, m < k PROVE FALSE
  <2>1. 0..m \in Down BY DEF Down
  <2>2. 0..m \subseteq 0..k /\ k \in 0..k /\ k \notin 0..m BY <1>6
  <2>3. 0..m \in SUBSET Nat /\ 0..k \in SUBSET Nat OBVIOUS
  <2>4. <<0..m, 0..k>> \in StrictSubsetOrdering(Nat)
    BY <2>2, <2>3 DEF StrictSubsetOrdering
  <2>5. QED BY <1>4, <1>5, <2>1, <2>4
<1>7. k \in S /\ \A m \in S : k <= m
  BY <1>6
<1>8. QED
  BY <1>7 DEF Lowest, IsLeast

LEMMA HeadIsLast ==
  ASSUME NEW table \in SUBSET Stored
  PROVE  /\ Head(table) \in 0..MaxEvents
         /\ \A r \in table : r.position <= Head(table)
         /\ Head(table) = 0 \/ \E r \in table : r.position = Head(table)
<1> DEFINE S == PositionsOf(table) \cup {0}
<1>1. S \in SUBSET (0..MaxEvents) /\ S # {}
  BY JournalAssumption DEF PositionsOf, Stored, Position
<1>2. Highest(S) \in S /\ \A m \in S : m <= Highest(S)
  BY <1>1, HighestIsMax, JournalAssumption
<1>3. \A r \in table : r.position \in S
  BY DEF PositionsOf
<1>4. Head(table) = Highest(S)
  BY DEF Head
<1>5. \A p \in S : p = 0 \/ \E r \in table : r.position = p
  BY DEF PositionsOf
<1> HIDE DEF S
<1>6. QED BY <1>1, <1>2, <1>3, <1>4, <1>5

LEMMA PositionsBounds ==
  ASSUME NEW S, S # {}, \A e \in S : e.position \in Position
  PROVE  /\ Highest(PositionsOf(S)) \in Position /\ Lowest(PositionsOf(S)) \in Position
         /\ \E e \in S : e.position = Highest(PositionsOf(S))
         /\ \A e \in S : /\ Lowest(PositionsOf(S)) <= e.position
                         /\ e.position <= Highest(PositionsOf(S))
<1> DEFINE P == PositionsOf(S)
<1>1. P \in SUBSET (0..MaxEvents) /\ P # {} /\ P \subseteq Position
  BY JournalAssumption DEF PositionsOf, Position
<1>2. Highest(P) \in P /\ \A m \in P : m <= Highest(P)
  BY <1>1, HighestIsMax, JournalAssumption
<1>3. Lowest(P) \in P /\ \A m \in P : Lowest(P) <= m
  BY <1>1, LowestIsMin, JournalAssumption
<1>4. \A e \in S : e.position \in P
  BY DEF PositionsOf
<1>5. \A p \in P : \E e \in S : e.position = p
  BY DEF PositionsOf
<1> HIDE DEF P
<1>6. Highest(P) \in Position /\ Lowest(P) \in Position
  BY <1>1, <1>2, <1>3
<1>7. QED BY <1>2, <1>3, <1>4, <1>5, <1>6 DEF P

-----------------------------------------------------------------------------
(* Tables: their records, and their versions.                              *)

LEMMA RowRecords ==
  ASSUME NEW table \in SUBSET Stored
  PROVE  /\ RecordsOf(table) \in SUBSET Record
         /\ \A r \in table : RecordOf(r) \in RecordsOf(table)
         /\ \A e \in RecordsOf(table) : \E r \in table :
              /\ e = RecordOf(r)
              /\ r.position = e.position /\ r.run = e.run /\ r.id = e.id
         /\ OnePerPosition(table) => OnePerPosition(RecordsOf(table))
BY DEF RecordsOf, RecordOf, Stored, Record, OnePerPosition

(* The records of a run up to a position are counted by at most that       *)
(* position.                                                               *)
LEMMA UpToCounts ==
  ASSUME NEW S, OnePerPosition(S), \A e \in S : e.position \in Position,
         NEW p \in Position,
         NEW U \in SUBSET S, \A d \in U : d.position <= p
  PROVE  /\ IsFiniteSet(U) /\ Cardinality(U) \in 0..p
         /\ U # {} => Cardinality(U) >= 1
<1> DEFINE f == [d \in U |-> d.position]
<1>1. p \in Nat /\ 1..p \in SUBSET Nat
  BY JournalAssumption DEF Position
<1>2. f \in [U -> 1..p]
  BY <1>1 DEF Position
<1>3. \A d, e \in U : f[d] = f[e] => d = e
  BY DEF OnePerPosition
<1>4. f \in Injection(U, 1..p)
  BY <1>2, <1>3 DEF Injection, IsInjective
<1>5. IsFiniteSet(1..p) /\ Cardinality(1..p) = p
  BY <1>1, FS_Interval
<1> HIDE DEF f
<1>6. IsFiniteSet(U) /\ Cardinality(U) <= p
  BY <1>4, <1>5, FS_Injection
<1>7. Cardinality(U) \in Nat
  BY <1>6, FS_CardinalityType
<1>8. U # {} => Cardinality(U) # 0
  BY <1>6, FS_EmptySet
<1>9. QED BY <1>1, <1>6, <1>7, <1>8

LEMMA VersionBelowPosition ==
  ASSUME NEW table \in SUBSET Stored, OnePerPosition(table), Counted(table)
  PROVE  \A r \in table : r.version <= r.position
<1> TAKE r \in table
<1> DEFINE S == RecordsOf(table)
<1>1. OnePerPosition(S) /\ \A e \in S : e.position \in Position
  BY RowRecords DEF Record
<1>2. r.position \in Position
  BY DEF Stored
<1>3. UpTo(S, r) \in SUBSET S /\ \A d \in UpTo(S, r) : d.position <= r.position
  BY DEF UpTo
<1>4. Cardinality(UpTo(S, r)) \in 0..r.position
  BY <1>1, <1>2, <1>3, UpToCounts
<1>5. QED BY <1>2, <1>4 DEF Counted, Position

(* What Versioned makes of records: those records, counted.                *)
LEMMA VersionedTable ==
  ASSUME NEW S \in SUBSET Record, OnePerPosition(S)
  PROVE  /\ Versioned(S) \in SUBSET Stored
         /\ RecordsOf(Versioned(S)) = S
         /\ OnePerPosition(Versioned(S))
         /\ Counted(Versioned(S))
<1> DEFINE Row(e) == [position |-> e.position, run |-> e.run, id |-> e.id,
                      version |-> Cardinality(UpTo(S, e))]
<1>1. Versioned(S) = { Row(e) : e \in S }
  BY DEF Versioned, UpTo
<1>2. \A e \in S : Cardinality(UpTo(S, e)) \in Position
  <2> TAKE e \in S
  <2>1. e.position \in Position BY DEF Record
  <2>2. UpTo(S, e) \in SUBSET S /\ \A d \in UpTo(S, e) : d.position <= e.position
    BY DEF UpTo
  <2>3. e \in UpTo(S, e) BY <2>1 DEF UpTo, Position
  <2>4. Cardinality(UpTo(S, e)) \in 0..e.position /\ Cardinality(UpTo(S, e)) >= 1
    <3>1. \A d \in S : d.position \in Position BY DEF Record
    <3>2. QED BY <2>1, <2>2, <2>3, <3>1, UpToCounts
  <2>5. QED BY <2>1, <2>4, JournalAssumption DEF Position
<1>3. \A e \in S : Row(e) \in Stored /\ RecordOf(Row(e)) = e
  BY <1>2 DEF Stored, Record, RecordOf
<1>4. Versioned(S) \in SUBSET Stored
  BY <1>1, <1>3
<1>5. RecordsOf(Versioned(S)) = S
  <2>1. RecordsOf(Versioned(S)) = { RecordOf(r) : r \in { Row(e) : e \in S } }
    BY <1>1 DEF RecordsOf
  <2> HIDE DEF Row
  <2>2. \A x : x \in { RecordOf(r) : r \in { Row(e) : e \in S } } <=> x \in S
    BY <1>3
  <2>3. QED BY <2>1, <2>2
<1>6. OnePerPosition(Versioned(S))
  BY <1>1 DEF OnePerPosition
<1>7. \A e \in S : Row(e).version = Cardinality(UpTo(S, Row(e)))
  BY DEF UpTo
<1>8. Counted(Versioned(S))
  BY <1>1, <1>5, <1>7 DEF Counted
<1>9. QED BY <1>4, <1>5, <1>6, <1>8

(* A counted table is determined by its records.                           *)
LEMMA CountedTable ==
  ASSUME NEW table \in SUBSET Stored, Counted(table)
  PROVE  table = Versioned(RecordsOf(table))
<1> DEFINE S == RecordsOf(table)
           Row(e) == [position |-> e.position, run |-> e.run, id |-> e.id,
                      version |-> Cardinality(UpTo(S, e))]
<1>1. Versioned(S) = { Row(e) : e \in S }
  BY DEF Versioned, UpTo
<1>2. \A r \in table : r = Row(RecordOf(r))
  <2> TAKE r \in table
  <2>1. r = [position |-> r.position, run |-> r.run, id |-> r.id, version |-> r.version]
    BY DEF Stored
  <2>2. UpTo(S, RecordOf(r)) = UpTo(S, r) BY DEF UpTo, RecordOf
  <2>3. r.version = Cardinality(UpTo(S, r)) BY DEF Counted
  <2>4. QED BY <2>1, <2>2, <2>3 DEF RecordOf
<1>3. S = { RecordOf(r) : r \in table } BY DEF RecordsOf
<1> HIDE DEF Row, S
<1>4. \A x : x \in { Row(e) : e \in S } <=> x \in table
  BY <1>2, <1>3
<1>5. table = { Row(e) : e \in S }
  BY <1>4
<1>6. QED BY <1>1, <1>5 DEF S

(* The last version of a run is the number of its events.                  *)
LEMMA LastVersionCounts ==
  ASSUME NEW run, rows \in SUBSET Stored, OnePerPosition(rows), Counted(rows)
  PROVE  LET R == { d \in RecordsOf(rows) : d.run = run }
         IN  /\ IsFiniteSet(R) /\ LastVersion(run) = Cardinality(R)
             /\ LastVersion(run) \in 0..Head(rows)
<1> DEFINE S == RecordsOf(rows)
           R == { d \in S : d.run = run }
           V == { r.version : r \in { q \in rows : q.run = run } } \cup {0}
<1>1. OnePerPosition(S) /\ \A e \in S : e.position \in Position
  BY RowRecords DEF Record
<1>2. V \in SUBSET (0..MaxEvents) /\ V # {}
  BY JournalAssumption DEF Stored, Position
<1>3. LastVersion(run) \in V /\ \A v \in V : v <= LastVersion(run)
  BY <1>2, HighestIsMax, JournalAssumption DEF LastVersion
<1>4. \A v \in V : v = 0 \/ \E r \in rows : r.run = run /\ v = r.version
  OBVIOUS
<1>5. \A r \in rows : r.run = run => r.version \in V
  OBVIOUS
<1> HIDE DEF V
<1>6. Head(rows) \in 0..MaxEvents /\ \A r \in rows : r.position <= Head(rows)
  BY HeadIsLast
<1>7. \A r \in rows : r.version <= r.position /\ r.version \in Nat /\ r.position \in Nat
  BY VersionBelowPosition, JournalAssumption DEF Stored, Position
<1>8. LastVersion(run) \in 0..Head(rows)
  BY <1>3, <1>4, <1>6, <1>7
<1>9. CASE R = {}
  <2>1. \A r \in rows : r.run # run
    <3>1. \A r \in rows : RecordOf(r) \in S /\ RecordOf(r).run = r.run
      BY DEF RecordsOf, RecordOf
    <3>2. QED BY <1>9, <3>1
  <2>2. LastVersion(run) = 0 BY <2>1, <1>3, <1>4
  <2>3. QED BY <1>8, <1>9, <2>2, FS_EmptySet
<1>10. CASE R # {}
  <2>1. \A e \in R : e.position \in Position BY <1>1
  <2> HIDE DEF R
  <2>2. PICK d0 \in R : \A d \in R : d.position <= d0.position
    BY <1>10, <2>1, PositionsBounds
  <2> USE DEF R
  <2>3. d0.position \in Position BY <1>1
  <2>4. IsFiniteSet(R)
    BY <1>1, <2>2, <2>3, UpToCounts, R \in SUBSET S
  <2>5. UpTo(S, d0) = R BY <2>2 DEF UpTo
  <2>6. PICK r0 \in rows : r0.position = d0.position /\ r0.run = d0.run
    BY RowRecords
  <2>7. UpTo(S, r0) = R /\ r0.run = run BY <2>5, <2>6 DEF UpTo
  <2>8. Cardinality(R) \in V BY <1>5, <2>7 DEF Counted
  <2>9. ASSUME NEW r \in rows, r.run = run PROVE r.version <= Cardinality(R)
    <3>1. UpTo(S, r) \in SUBSET R BY <2>9 DEF UpTo
    <3>2. r.version = Cardinality(UpTo(S, r)) BY DEF Counted
    <3>3. QED BY <2>4, <3>1, <3>2, FS_Subset
  <2>10. Cardinality(R) \in Nat BY <2>4, FS_CardinalityType
  <2>11. \A v \in V : v <= Cardinality(R) BY <1>4, <2>9, <2>10
  <2>12. LastVersion(run) <= Cardinality(R) /\ Cardinality(R) <= LastVersion(run)
    BY <1>3, <2>8, <2>11
  <2>13. LastVersion(run) = Cardinality(R)
    BY <1>8, <2>10, <2>12, <1>6
  <2>14. QED BY <1>8, <2>4, <2>13
<1>11. QED BY <1>9, <1>10

(* A commit extends the table: positions follow the head, and the versions *)
(* go on counting.                                                         *)
LEMMA CommittedTable ==
  ASSUME rows \in SUBSET Stored, OnePerPosition(rows), Counted(rows),
         born \in 0..MaxEvents, Born(rows),
         NEW run \in Runs, NEW n \in 1..MaxCommit, born + n <= MaxEvents
  PROVE  LET new == { [position |-> Head(rows) + k, run |-> run, id |-> born + k,
                       version |-> LastVersion(run) + k] : k \in 1..n }
         IN  /\ new \in SUBSET Stored
             /\ \A r \in new : Head(rows) < r.position /\ r.position <= born + n
             /\ OnePerPosition(rows \cup new)
             /\ Counted(rows \cup new)
<1> DEFINE h == Head(rows)
           v == LastVersion(run)
           row == [k \in 1..n |-> [position |-> h + k, run |-> run, id |-> born + k,
                                   version |-> v + k]]
           new == { row[k] : k \in 1..n }
           S == RecordsOf(rows)
           T == RecordsOf(rows \cup new)
           R == { d \in S : d.run = run }
<1>1. n \in Nat /\ MaxEvents \in Nat /\ born \in Nat
  BY JournalAssumption
<1>2. h \in Nat /\ h <= born /\ \A r \in rows : r.position <= h
  BY <1>1, HeadIsLast DEF Born
<1>3. IsFiniteSet(R) /\ v = Cardinality(R) /\ v \in Nat /\ v <= h
  BY <1>2, LastVersionCounts
<1> HIDE DEF h, v
<1>4. \A k \in 1..n : row[k] \in Stored /\ h < row[k].position /\ row[k].position <= born + n
  BY <1>1, <1>2, <1>3 DEF Stored, Position
<1>5. \A k \in 1..n : row[k].position = h + k /\ row[k].version = v + k /\ row[k].run = run
  OBVIOUS
<1> HIDE DEF row
<1>6. new \in SUBSET Stored /\ \A r \in new : h < r.position /\ r.position <= born + n
  BY <1>4
<1>7. \A r \in rows : r.position \in Int
  BY DEF Stored, Position
<1>8. OnePerPosition(rows \cup new)
  <2>1. ASSUME NEW d \in rows \cup new, NEW e \in rows \cup new, d.position = e.position
        PROVE  d = e
    <3>1. CASE d \in rows /\ e \in rows BY <2>1, <3>1 DEF OnePerPosition
    <3>2. CASE d \in new /\ e \in new BY <2>1, <3>2, <1>5, <1>2
    <3>3. CASE d \in rows /\ e \in new BY <2>1, <3>3, <1>2, <1>4, <1>7
    <3>4. CASE d \in new /\ e \in rows BY <2>1, <3>4, <1>2, <1>4, <1>7
    <3>5. QED BY <3>1, <3>2, <3>3, <3>4
  <2>2. QED BY <2>1 DEF OnePerPosition
<1>9. T = S \cup { RecordOf(row[k]) : k \in 1..n }
  BY DEF RecordsOf
<1>10. \A k \in 1..n : /\ RecordOf(row[k]).position = h + k
                       /\ RecordOf(row[k]).run = run
  BY <1>5 DEF RecordOf
<1>11. \A d \in S : d.position \in Int /\ d.position <= h
  BY <1>2, <1>7 DEF RecordsOf, RecordOf
<1>12. ASSUME NEW r \in rows PROVE r.version = Cardinality(UpTo(T, r))
  <2>1. r.position <= h /\ r.position \in Int BY <1>2, <1>7
  <2>2. \A k \in 1..n : RecordOf(row[k]) \notin UpTo(T, r)
    BY <1>2, <1>10, <2>1 DEF UpTo
  <2>3. UpTo(T, r) = UpTo(S, r) BY <1>9, <2>2 DEF UpTo
  <2>4. QED BY <2>3 DEF Counted
<1>13. ASSUME NEW k \in 1..n PROVE row[k].version = Cardinality(UpTo(T, row[k]))
  <2> DEFINE Added == { RecordOf(row[j]) : j \in 1..k }
             f == [j \in 1..k |-> RecordOf(row[j])]
  <2>1. k \in Nat /\ 1..k \subseteq 1..n OBVIOUS
  <2>2. UpTo(T, row[k]) = R \cup Added
    <3>1. \A j \in 1..n : j <= k <=> RecordOf(row[j]).position <= row[k].position
      BY <1>2, <1>5, <1>10
    <3>2. \A d \in S : d.position <= row[k].position
      BY <1>2, <1>5, <1>11
    <3>3. \A d \in R : d \in UpTo(T, row[k])
      BY <1>5, <1>9, <3>2 DEF UpTo
    <3>4. \A d \in Added : d \in UpTo(T, row[k])
      BY <1>5, <1>9, <1>10, <2>1, <3>1 DEF UpTo
    <3>5. \A d \in UpTo(T, row[k]) : d \in R \/ d \in Added
      BY <1>5, <1>9, <1>10, <3>1 DEF UpTo
    <3>6. QED BY <3>3, <3>4, <3>5
  <2>3. \A j \in 1..k : f[j] = RecordOf(row[j]) /\ f[j].position = h + j
    BY <1>10, <2>1
  <2>4. f \in Bijection(1..k, Added)
    <3>1. f \in [1..k -> Added] OBVIOUS
    <3>2. \A i, j \in 1..k : f[i] = f[j] => i = j BY <1>2, <2>3
    <3>3. \A d \in Added : \E j \in 1..k : f[j] = d OBVIOUS
    <3>4. QED BY <3>1, <3>2, <3>3 DEF Bijection, Injection, Surjection, IsInjective
  <2>5. ExistsBijection(1..k, Added) BY <2>4 DEF ExistsBijection
  <2>6. IsFiniteSet(Added) /\ Cardinality(Added) = k
    BY <2>1, <2>5, FS_CountingElements, FS_NatBijection
  <2>7. R \cap Added = {}
    <3>1. \A j \in 1..k : RecordOf(row[j]).position > h BY <1>2, <1>10, <2>1
    <3>2. \A d \in Added : d.position > h BY <3>1
    <3>3. \A d \in R : d.position <= h /\ d.position \in Int BY <1>11
    <3>4. \A d : ~(d \in R /\ d \in Added)
      <4> HIDE DEF R, Added
      <4>1. QED BY <3>2, <3>3, <1>2
    <3>5. QED BY <3>4
  <2>8. Cardinality(R \cup Added) = v + k
    <3>1. Cardinality(R \cap Added) = 0 BY <2>7, FS_EmptySet
    <3> HIDE DEF R, Added
    <3>2. Cardinality(R \cup Added) = Cardinality(R) + Cardinality(Added) - Cardinality(R \cap Added)
      BY <1>3, <2>6, FS_Union
    <3>3. QED BY <1>3, <2>1, <2>6, <3>1, <3>2
  <2>9. QED BY <1>5, <2>2, <2>8
<1>14. Counted(rows \cup new)
  BY <1>12, <1>13 DEF Counted
<1>15. new = { [position |-> h + k, run |-> run, id |-> born + k,
                version |-> v + k] : k \in 1..n }
  BY DEF row
<1>16. QED BY <1>6, <1>8, <1>14, <1>15 DEF h, v

(* What a backup keeps is a table.                                         *)
LEMMA KeptTable ==
  ASSUME NEW table \in SUBSET Stored, OnePerPosition(table), Counted(table), NEW p \in Int
  PROVE  LET kept == { r \in table : r.position <= p }
         IN  OnePerPosition(kept) /\ Counted(kept)
<1> DEFINE kept == { r \in table : r.position <= p }
<1>1. OnePerPosition(kept) BY DEF OnePerPosition
<1>2. ASSUME NEW r \in kept
      PROVE  UpTo(RecordsOf(kept), r) = UpTo(RecordsOf(table), r)
  <2>1. \A d : d \in RecordsOf(kept) <=> d \in RecordsOf(table) /\ d.position <= p
    <3>1. \A q \in table : RecordOf(q).position = q.position BY DEF RecordOf
    <3>2. \A d : d \in RecordsOf(kept) <=> \E q \in table : q.position <= p /\ d = RecordOf(q)
      BY DEF RecordsOf
    <3>3. \A d : d \in RecordsOf(table) <=> \E q \in table : d = RecordOf(q)
      BY DEF RecordsOf
    <3>4. QED BY <3>1, <3>2, <3>3
  <2>2. \A d \in RecordsOf(table) : d.position \in Int
    BY DEF RecordsOf, RecordOf, Stored, Position
  <2>3. r \in table /\ r.position \in Int /\ r.position <= p BY DEF Stored, Position
  <2>4. \A d \in UpTo(RecordsOf(table), r) : d.position <= p
    BY <2>2, <2>3 DEF UpTo
  <2>5. QED BY <2>1, <2>4 DEF UpTo
<1>3. Counted(kept) BY <1>2 DEF Counted
<1>4. QED BY <1>1, <1>3

-----------------------------------------------------------------------------
(* The files.                                                              *)

LEMMA JournalMembers ==
  /\ \A e : e \in Journal <=> e \in active \/ \E a \in archives : e \in a.records
  /\ \A e : e \in Journal' <=> e \in active' \/ \E a \in archives' : e \in a.records
BY DEF Journal, Archived

NewSegment == [first |-> Lowest(PositionsOf(active)), last |-> Highest(PositionsOf(active)),
               records |-> active, twin |-> TRUE]

Kept     == active' = active /\ archives' = archives
Unlinks  == /\ step \in {"unlink", "drop"} \/ (step = "recover" /\ HasTwin)
            /\ active' = {} /\ archives' = Unlinked
Links    == /\ step \in {"link", "seal"} /\ active' = active
            /\ archives' = archives \cup {NewSegment}
Writes   == /\ step = "append" /\ archives' = archives
            /\ \E new \in SUBSET Fresh : active' = active \cup new

(* A start, of a table that is there or is rebuilt from what was read.     *)
Boots == Bootstrap \/ \E unread \in SUBSET Journal : BootstrapMisreads(unread)

StartsUp ==
  /\ phase = "down" /\ phase' = "start" /\ step' = "plan"
  /\ UNCHANGED <<rows, files, checkpoint, pending, batch, tries, cursor, history>>
  /\ \/ session' = rows
     \/ rows = {} /\ \E read \in SUBSET Journal : session' = Rebuilt(read)

LEMMA BootsStartUp == Boots => StartsUp
<1>1. CASE Bootstrap
  BY <1>1 DEF Bootstrap, ReadableRecords, StartsUp
<1>2. ASSUME NEW unread \in SUBSET Journal, BootstrapMisreads(unread) PROVE StartsUp
  BY <1>2 DEF BootstrapMisreads, ReadableRecords, StartsUp
<1>3. QED BY <1>1, <1>2 DEF Boots

(* Every step leaves the files alone, unlinks the active name, links it as *)
(* an archive, or appends some of the events that are not there.           *)
LEMMA FilesStep ==
  ASSUME Twins, [Next]_vars
  PROVE  Kept \/ Unlinks \/ Links \/ Writes
<1> USE DEF vars, files, process, writer, history
<1>1. ASSUME NEW run \in Runs, NEW n \in 1..MaxCommit, CommitEvents(run, n) PROVE Kept
  BY <1>1 DEF CommitEvents, Kept
<1>2. ASSUME NEW b \in pending, TakeLock(b) PROVE Kept
  BY <1>2 DEF TakeLock, Kept
<1>3. CASE RecoverLinkedRotation
  BY <1>3 DEF RecoverLinkedRotation, Kept, Unlinks
<1>4. CASE SelectEvents
  BY <1>4 DEF SelectEvents, Kept
<1>5. ASSUME step = "append", NEW content, WriteActive(content)
      PROVE  active' = content /\ archives' = archives
  <2>1. \A a \in archives : ~a.twin
    BY <1>5 DEF Twins, HasTwin
  <2>2. QED BY <1>5, <2>1 DEF WriteActive
<1>6. CASE AppendEvents
  <2>1. step = "append" /\ WriteActive(Appended(Fresh))
    BY <1>6 DEF AppendEvents
  <2>2. QED BY <1>5, <2>1 DEF Appended, Writes
<1>7. ASSUME NEW p \in 0..MaxEvents, AppendTears(p) PROVE Writes
  <2> DEFINE prefix == { e \in Fresh : e.position <= p }
  <2>1. step = "append" /\ WriteActive(Appended(prefix))
    BY <1>7 DEF AppendTears
  <2>2. prefix \in SUBSET Fresh
    OBVIOUS
  <2>3. active' = active \cup prefix /\ archives' = archives
    BY <1>5, <2>1 DEF Appended
  <2>4. QED BY <2>1, <2>2, <2>3 DEF Writes
<1>8. ASSUME NEW from \in {"link", "seal"}, NEW to, LinkArchive(from, to) PROVE Kept \/ Links
  BY <1>8 DEF LinkArchive, Kept, Links, NewSegment
<1>9. ASSUME NEW from \in {"unlink", "drop"}, NEW to, UnlinkActive(from, to) PROVE Unlinks
  <2>1. step = from /\ active' = {} /\ archives' = Unlinked
    BY <1>9 DEF UnlinkActive
  <2> HIDE DEF vars, files, process, writer, history
  <2>2. step \in {"unlink", "drop"}
    BY <2>1
  <2>3. QED BY <2>1, <2>2 DEF Unlinks
<1>10. CASE Boots
  BY <1>10, BootsStartUp DEF StartsUp, Kept
<1>11. CASE StartupStep \/ MisreadCheckpoint
  BY <1>11 DEF StartupStep, PlanDrain, ReconcilePage, WriteCheckpoint, CommitStartup,
     MisreadCheckpoint, Kept
<1>12. CASE ObserverFails
  BY <1>12 DEF ObserverFails, Kept
<1>13. CASE Crash
  BY <1>13 DEF Crash, Kept
<1>14. CASE LoseDatabase
  BY <1>14 DEF LoseDatabase, Kept
<1>15. ASSUME NEW p \in 0..MaxEvents, RestoreBackup(p) PROVE Kept
  BY <1>15 DEF RestoreBackup, Kept
<1>16. CASE UNCHANGED vars
  BY <1>16 DEF Kept
<1>17. CASE RotateFirst \/ RotateLast
  BY <1>8, <1>9, <1>17 DEF RotateFirst, RotateLast
<1>18. QED
  BY <1>1, <1>2, <1>3, <1>4, <1>6, <1>7, <1>10, <1>11, <1>12, <1>13, <1>14, <1>15,
     <1>16, <1>17 DEF Next, HolderStep, Boots

(* The journal only grows, by events that are appended.                    *)
LEMMA JournalGrows ==
  ASSUME archives \in SUBSET Segment, Twins, [Next]_vars
  PROVE  /\ Journal \subseteq Journal'
         /\ step # "append" => Journal' = Journal
         /\ Journal' \subseteq Journal \cup Fresh
<1>1. CASE Kept
  BY <1>1, JournalMembers DEF Kept
<1>2. CASE Unlinks
  <2>1. \E a \in archives : a.records = active
    BY <1>2 DEF Unlinks, Twins, HasTwin
  <2>2. \A a \in archives : [a EXCEPT !.twin = FALSE].records = a.records
    BY DEF Segment
  <2>3. \A e : (\E a \in archives' : e \in a.records) <=> (\E a \in archives : e \in a.records)
    BY <1>2, <2>2 DEF Unlinks, Unlinked
  <2>4. Journal' = Journal
    BY <1>2, <2>1, <2>3, JournalMembers DEF Unlinks
  <2>5. QED BY <2>4
<1>3. CASE Links
  <2>1. NewSegment.records = active
    BY DEF NewSegment
  <2>2. Journal' = Journal
    BY <1>3, <2>1, JournalMembers DEF Links
  <2>3. QED BY <2>2
<1>4. CASE Writes
  BY <1>4, JournalMembers DEF Writes
<1>5. QED
  BY <1>1, <1>2, <1>3, <1>4, FilesStep

LEMMA JournalType ==
  ASSUME active \in SUBSET Record, archives \in SUBSET Segment
  PROVE  Journal \in SUBSET Record
<1>1. \A a \in archives : a.records \subseteq Record
  BY DEF Segment
<1>2. QED BY <1>1, JournalMembers

(* A table rebuilt from what was read has one record of it for each of its *)
(* positions, every record if no position is there twice.                  *)
LEMMA RebuiltTable ==
  ASSUME NEW read \in SUBSET Record
  PROVE  /\ Rebuilt(read) \in SUBSET Stored
         /\ OnePerPosition(Rebuilt(read)) /\ Counted(Rebuilt(read))
         /\ RecordsOf(Rebuilt(read)) \subseteq read
         /\ OnePerPosition(read) => RecordsOf(Rebuilt(read)) = read
<1> DEFINE Pick(p) == CHOOSE e \in read : e.position = p
           P == PositionsOf(read)
           S == { Pick(p) : p \in P }
<1>1. \A p \in P : Pick(p) \in read /\ Pick(p).position = p
  BY DEF PositionsOf
<1>2. \A e \in read : e.position \in P
  BY DEF PositionsOf
<1>3. Rebuilt(read) = Versioned(S)
  BY DEF Rebuilt
<1> HIDE DEF Pick, P
<1>4. S \subseteq read
  BY <1>1
<1>5. OnePerPosition(S)
  BY <1>1 DEF OnePerPosition
<1>6. ASSUME OnePerPosition(read) PROVE S = read
  <2>1. \A e \in read : e = Pick(e.position)
    BY <1>1, <1>2, <1>6 DEF OnePerPosition
  <2>2. QED BY <1>2, <1>4, <2>1
<1> HIDE DEF S
<1>7. /\ Versioned(S) \in SUBSET Stored /\ RecordsOf(Versioned(S)) = S
      /\ OnePerPosition(Versioned(S)) /\ Counted(Versioned(S))
  BY <1>4, <1>5, VersionedTable
<1>8. QED BY <1>3, <1>4, <1>6, <1>7

-----------------------------------------------------------------------------
(* Every step keeps the types.                                             *)

(* What the table, the journal, the checkpoint and the holder's batch must *)
(* be for the types to be kept.                                            *)
Tables  == TablesUnique /\ VersionsCount /\ Bounded
Holder  == LockHolder /\ FrontierKnown

LEMMA FreshType ==
  ASSUME batch \in SUBSET Record
  PROVE  Fresh \in SUBSET batch /\ Fresh \in SUBSET Record
BY DEF Fresh

(* The head of the table and the frontiers of a clamped checkpoint.        *)
LEMMA ClampedType ==
  ASSUME checkpoint \in Frontier, session \in SUBSET Stored, FrontierKnown
  PROVE  /\ Head(session) \in 0..MaxEvents
         /\ ClampedTail \in -1..MaxEvents /\ ClampedTail <= Head(session)
         /\ ClampedTail <= checkpoint.tail
         /\ ClampedTail = checkpoint.tail \/ ClampedTail = Head(session)
         /\ DrainFrom \in 0..MaxEvents /\ ClampedTail <= DrainFrom
         /\ checkpoint # NoCheckpoint =>
              ClampedTail \in 0..MaxEvents /\ DrainFrom = ClampedTail
         /\ checkpoint = NoCheckpoint => DrainFrom = 0
<1>1. Head(session) \in 0..MaxEvents
  BY HeadIsLast
<1>2. checkpoint.tail \in -1..MaxEvents /\ (checkpoint # NoCheckpoint => checkpoint.tail >= 0)
  BY DEF Frontier, FrontierKnown
<1>3. checkpoint = NoCheckpoint => checkpoint.tail = -1
  BY DEF NoCheckpoint
<1>4. MaxEvents \in Nat
  BY JournalAssumption
<1>5. /\ ClampedTail \in -1..MaxEvents /\ ClampedTail <= Head(session)
      /\ ClampedTail <= checkpoint.tail
      /\ ClampedTail = checkpoint.tail \/ ClampedTail = Head(session)
      /\ checkpoint # NoCheckpoint => ClampedTail \in 0..MaxEvents
  BY <1>1, <1>2, <1>4 DEF ClampedTail, Lesser
<1>6. checkpoint = NoCheckpoint => ClampedTail <= 0
  BY <1>3, <1>5
<1>7. QED
  BY <1>1, <1>4, <1>5, <1>6 DEF DrainFrom

(* The steps that touch the table, its uncommitted copy or the lost one.   *)
SameTables == rows' = rows /\ session' = session /\ lost' = lost /\ born' = born

LEMMA TablesStep ==
  ASSUME [Next]_vars
  PROVE  \/ SameTables
         \/ \E run \in Runs, n \in 1..MaxCommit : CommitEvents(run, n)
         \/ Boots \/ CommitStartup \/ Crash \/ LoseDatabase
         \/ \E p \in 0..MaxEvents : RestoreBackup(p)
<1> USE DEF vars, files, process, writer, history, SameTables
<1>1. ASSUME NEW b \in pending, TakeLock(b) PROVE SameTables
  BY <1>1 DEF TakeLock
<1>2. CASE HolderStep
  <2>1. ASSUME NEW from, NEW to, LinkArchive(from, to) PROVE SameTables
    BY <2>1 DEF LinkArchive
  <2>2. ASSUME NEW from, NEW to, UnlinkActive(from, to) PROVE SameTables
    BY <2>2 DEF UnlinkActive
  <2>3. CASE RecoverLinkedRotation \/ SelectEvents \/ AppendEvents
    BY <2>3 DEF RecoverLinkedRotation, SelectEvents, AppendEvents
  <2>4. QED BY <1>2, <2>1, <2>2, <2>3 DEF HolderStep, RotateFirst, RotateLast
<1>3. CASE PlanDrain \/ ReconcilePage \/ WriteCheckpoint \/ MisreadCheckpoint
  BY <1>3 DEF PlanDrain, ReconcilePage, WriteCheckpoint, MisreadCheckpoint
<1>4. CASE ObserverFails
  BY <1>4 DEF ObserverFails
<1>5. ASSUME NEW p \in 0..MaxEvents, AppendTears(p) PROVE SameTables
  BY <1>5 DEF AppendTears
<1>6. CASE UNCHANGED vars
  BY <1>6
<1>7. QED
  BY <1>1, <1>2, <1>3, <1>4, <1>5, <1>6 DEF Next, StartupStep, Boots

TableTypes ==
  /\ rows \in SUBSET Stored /\ session \in SUBSET Stored /\ lost \in SUBSET Stored
  /\ born \in 0..MaxEvents
FileTypes ==
  active \in SUBSET Record /\ tail \in -1..MaxEvents /\ archives \in SUBSET Segment
ProcessTypes ==
  /\ checkpoint \in Frontier
  /\ phase \in {"down", "start", "serving"}
  /\ pending \in SUBSET [events : SUBSET Record, tries : 0..1]
  /\ batch \in SUBSET Record
  /\ tries \in 0..1 /\ cursor \in 0..MaxEvents
  /\ faults \in 0..MaxFaults /\ losses \in 0..MaxLosses /\ restores \in 0..MaxRestores
StepType ==
  step \in {"free", "plan", "recover", "select", "page", "append", "failed",
            "link", "unlink", "seal", "drop", "checkpoint", "commit"}

(* The tables stay tables: records of their own positions, counted.        *)
Countable(table) == OnePerPosition(table) /\ Counted(table)
LEMMA TableTypesStep ==
  ASSUME TableTypes, FileTypes, Tables, [Next]_vars
  PROVE  /\ TableTypes'
         /\ TablesUnique' /\ VersionsCount'
<1> DEFINE Good(table) == table \in SUBSET Stored /\ Countable(table)
           Lost(table) == table \in SUBSET Stored /\ Counted(table)
<1> USE DEF files, process, writer, history, vars, Countable
<1>1. Good(rows) /\ Good(session) /\ Lost(lost) /\ born \in 0..MaxEvents
  BY DEF TableTypes, Tables, TablesUnique, VersionsCount
<1>2. Good({})
  BY DEF OnePerPosition, Counted
<1>3. CASE SameTables
  BY <1>1, <1>3 DEF SameTables, TableTypes, TablesUnique, VersionsCount
<1>4. ASSUME NEW run \in Runs, NEW n \in 1..MaxCommit, CommitEvents(run, n)
      PROVE  Good(rows') /\ session' = session /\ lost' = lost /\ born' \in 0..MaxEvents
  <2> DEFINE new == { [position |-> Head(rows) + k, run |-> run, id |-> born + k,
                       version |-> LastVersion(run) + k] : k \in 1..n }
  <2>1. /\ rows' = rows \cup new /\ born' = born + n /\ born + n <= MaxEvents
        /\ session' = session /\ lost' = lost
    BY <1>4 DEF CommitEvents
  <2>2. new \in SUBSET Stored /\ OnePerPosition(rows \cup new) /\ Counted(rows \cup new)
    <3>1. Born(rows) BY DEF Tables, Bounded
    <3>2. QED BY <1>1, <2>1, <3>1, CommittedTable
  <2> HIDE DEF new
  <2>3. born' \in 0..MaxEvents
    BY <1>1, <2>1, JournalAssumption
  <2>4. QED BY <1>1, <2>1, <2>2, <2>3
<1>5. CASE Boots
  <2>1. \A read \in SUBSET Journal : Good(Rebuilt(read))
    BY JournalType, RebuiltTable DEF FileTypes
  <2>2. /\ rows' = rows /\ lost' = lost /\ born' = born
        /\ session' = rows \/ \E read \in SUBSET Journal : session' = Rebuilt(read)
    BY <1>5, BootsStartUp DEF StartsUp
  <2>3. Good(session')
    BY <1>1, <2>1, <2>2
  <2>4. QED BY <1>1, <2>2, <2>3 DEF TableTypes, TablesUnique, VersionsCount
<1>6. CASE CommitStartup
  <2>1. rows' = session /\ session' = {} /\ lost' = lost /\ born' = born
    BY <1>6 DEF CommitStartup
  <2>2. QED BY <1>1, <1>2, <2>1 DEF TableTypes, TablesUnique, VersionsCount
<1>7. CASE Crash
  <2>1. rows' = rows /\ session' = {} /\ lost' = lost /\ born' = born
    BY <1>7 DEF Crash
  <2>2. QED BY <1>1, <1>2, <2>1 DEF TableTypes, TablesUnique, VersionsCount
<1>8. CASE LoseDatabase
  <2>1. rows' = {} /\ session' = session /\ lost' = rows /\ born' = born
    BY <1>8 DEF LoseDatabase
  <2>2. QED BY <1>1, <1>2, <2>1 DEF TableTypes, TablesUnique, VersionsCount
<1>9. ASSUME NEW p \in 0..MaxEvents, RestoreBackup(p)
      PROVE  Good(rows') /\ session' = session /\ lost' = lost /\ born' = born
  <2>1. /\ rows' = { r \in rows : r.position <= p }
        /\ session' = session /\ lost' = lost /\ born' = born
    BY <1>9 DEF RestoreBackup
  <2>2. p \in Int OBVIOUS
  <2>3. QED BY <1>1, <2>1, <2>2, KeptTable
<1>10. ASSUME Good(rows'), session' = session, lost' = lost, born' \in 0..MaxEvents
       PROVE  TableTypes' /\ TablesUnique' /\ VersionsCount'
  BY <1>1, <1>10 DEF TableTypes, TablesUnique, VersionsCount
<1>11. ASSUME NEW run \in Runs, NEW n \in 1..MaxCommit, CommitEvents(run, n)
       PROVE  TableTypes' /\ TablesUnique' /\ VersionsCount'
  BY <1>4, <1>10, <1>11
<1>12. ASSUME NEW p \in 0..MaxEvents, RestoreBackup(p)
       PROVE  TableTypes' /\ TablesUnique' /\ VersionsCount'
  BY <1>1, <1>9, <1>10, <1>12
<1>13. QED
  BY <1>3, <1>5, <1>6, <1>7, <1>8, <1>11, <1>12, TablesStep

(* A rotated file gets a name that covers its records.                     *)
LEMMA SegmentNamed ==
  ASSUME active \in SUBSET Record, active # {}
  PROVE  /\ NewSegment \in Segment /\ NewSegment.twin
         /\ NewSegment.records = active
         /\ \A e \in active : Covers(NewSegment, e)
<1>1. /\ Highest(PositionsOf(active)) \in Position /\ Lowest(PositionsOf(active)) \in Position
      /\ \A e \in active : /\ Lowest(PositionsOf(active)) <= e.position
                           /\ e.position <= Highest(PositionsOf(active))
  BY PositionsBounds DEF Record
<1>2. QED BY <1>1 DEF NewSegment, Segment, Covers

LEMMA UnlinkedSegments ==
  ASSUME archives \in SUBSET Segment
  PROVE  /\ Unlinked \in SUBSET Segment
         /\ \A b \in Unlinked : \E a \in archives :
              /\ b.records = a.records /\ b.first = a.first /\ b.last = a.last
              /\ ~b.twin
         /\ \A a \in archives : \E b \in Unlinked : b.records = a.records
<1> DEFINE Plain(a) == [a EXCEPT !.twin = FALSE]
<1>1. \A a \in archives : /\ Plain(a) \in Segment /\ ~Plain(a).twin
                          /\ Plain(a).records = a.records
                          /\ Plain(a).first = a.first /\ Plain(a).last = a.last
  BY DEF Segment
<1>2. Unlinked = { Plain(a) : a \in archives }
  BY DEF Unlinked
<1> HIDE DEF Plain
<1>3. QED BY <1>1, <1>2

LEMMA FileTypesStep ==
  ASSUME FileTypes, ProcessTypes, LockHolder, Twins, [Next]_vars
  PROVE  FileTypes'
<1> USE DEF FileTypes
<1>1. active' \in SUBSET Record /\ archives' \in SUBSET Segment
  <2>1. CASE Kept BY <2>1 DEF Kept
  <2>2. CASE Unlinks BY <2>2, UnlinkedSegments DEF Unlinks
  <2>3. CASE Links
    <3>1. active # {} BY <2>3 DEF Links, LockHolder
    <3>2. QED BY <2>3, <3>1, SegmentNamed DEF Links
  <2>4. CASE Writes
    <3>1. batch \in SUBSET Record BY DEF ProcessTypes
    <3>2. QED BY <2>4, <3>1, FreshType DEF Writes
  <2>5. QED BY <2>1, <2>2, <2>3, <2>4, FilesStep
<1>2. tail' \in -1..MaxEvents
  <2> USE DEF files, process, writer, history, vars
  <2>1. Clean \in -1..MaxEvents /\ Fragment \in -1..MaxEvents
    BY JournalAssumption DEF Clean, Fragment
  <2>2. ASSUME NEW p \in 0..MaxEvents, AppendTears(p) PROVE tail' \in -1..MaxEvents
    <3> DEFINE prefix == { e \in Fresh : e.position <= p }
    <3>1. \/ tail' = Clean \/ tail' = Fragment
          \/ prefix # {} /\ tail' = Highest(PositionsOf(prefix))
      BY <2>2 DEF AppendTears
    <3>2. prefix \in SUBSET Record
      BY FreshType DEF ProcessTypes
    <3>3. prefix # {} => Highest(PositionsOf(prefix)) \in Position
      BY <3>2, PositionsBounds DEF Record
    <3>4. QED BY <2>1, <3>1, <3>3, JournalAssumption DEF Position
  <2>3. ASSUME NEW from, NEW to, LinkArchive(from, to) PROVE tail' = tail
    BY <2>3 DEF LinkArchive
  <2>4. ASSUME NEW from, NEW to, UnlinkActive(from, to) PROVE tail' = Clean
    BY <2>4 DEF UnlinkActive
  <2>5. CASE HolderStep
    <3>1. CASE RecoverLinkedRotation \/ SelectEvents \/ AppendEvents
      BY <3>1, <2>1 DEF RecoverLinkedRotation, SelectEvents, AppendEvents
    <3>2. QED BY <2>1, <2>3, <2>4, <2>5, <3>1 DEF HolderStep, RotateFirst, RotateLast
  <2>6. CASE ~HolderStep /\ ~(\E p \in 0..MaxEvents : AppendTears(p))
    BY <2>6 DEF Next, CommitEvents, TakeLock, Bootstrap, BootstrapMisreads, StartupStep,
       PlanDrain, MisreadCheckpoint, ReconcilePage, WriteCheckpoint, CommitStartup,
       ObserverFails, Crash, LoseDatabase, RestoreBackup
  <2>7. QED BY <2>2, <2>5, <2>6
<1>3. QED BY <1>1, <1>2

LEMMA StepTypeStep ==
  ASSUME StepType, LockHolder, [Next]_vars
  PROVE  StepType'
<1> USE DEF StepType, files, process, writer, history, vars
<1>1. CASE HolderStep
  BY <1>1 DEF HolderStep, RotateFirst, RotateLast, RecoverLinkedRotation, SelectEvents,
     AppendEvents, LinkArchive, UnlinkActive, Released
<1>2. CASE StartupStep
  BY <1>2 DEF StartupStep, PlanDrain, AdoptJournal, ReconcilePage, WriteCheckpoint,
     CommitStartup
<1>3. CASE ~HolderStep /\ ~StartupStep
  BY <1>3 DEF Next, CommitEvents, TakeLock, Bootstrap, BootstrapMisreads, MisreadCheckpoint,
     AdoptJournal, ObserverFails, AppendTears, Crash, LoseDatabase, RestoreBackup
<1>4. QED BY <1>1, <1>2, <1>3

(* A page is what follows the cursor, without a gap, and is not empty      *)
(* while anything follows it.                                              *)
LEMMA PageIsNext ==
  ASSUME session \in SUBSET Stored, OnePerPosition(session), cursor \in 0..MaxEvents
  PROVE  /\ NextPage \in SUBSET session
         /\ \A r \in NextPage : cursor < r.position
         /\ \A r \in NextPage, q \in session :
              cursor < q.position /\ q.position <= r.position => q \in NextPage
         /\ NextPage = {} => \A q \in session : q.position <= cursor
<1> DEFINE ahead == { r \in session : r.position > cursor }
           Through(r) == { q \in ahead : q.position <= r.position }
<1>1. NextPage = { r \in ahead : Cardinality(Through(r)) <= PageSize }
  BY DEF NextPage
<1>2. \A r \in session : r.position \in Position /\ r.position \in Int
  BY DEF Stored, Position
<1>3. OnePerPosition(ahead) /\ \A r \in ahead : r.position \in Position
  BY <1>2 DEF OnePerPosition
<1>4. \A r \in ahead : IsFiniteSet(Through(r)) /\ Cardinality(Through(r)) \in Nat
  <2> TAKE r \in ahead
  <2> DEFINE U == Through(r)
  <2>1. U \in SUBSET ahead /\ \A d \in U : d.position <= r.position
    OBVIOUS
  <2>2. r.position \in Position BY <1>3
  <2> HIDE DEF U, ahead
  <2>3. IsFiniteSet(U) BY <1>3, <2>1, <2>2, UpToCounts
  <2>4. QED BY <2>3, FS_CardinalityType DEF U
<1>5. ASSUME NEW r \in NextPage, NEW q \in session,
             cursor < q.position, q.position <= r.position
      PROVE  q \in NextPage
  <2>1. r \in ahead /\ q \in ahead /\ Cardinality(Through(r)) <= PageSize
    BY <1>1, <1>2, <1>5
  <2>2. Through(q) \in SUBSET Through(r)
    <3>1. \A d \in session : d.position <= q.position => d.position <= r.position
      BY <1>2, <1>5, <2>1
    <3>2. QED BY <3>1
  <2> HIDE DEF Through
  <2>3. Cardinality(Through(q)) <= Cardinality(Through(r))
    BY <1>4, <2>1, <2>2, FS_Subset
  <2>4. QED BY <1>1, <1>4, <2>1, <2>3, JournalAssumption
<1>6. ASSUME NEW q \in session, q.position > cursor PROVE NextPage # {}
  <2>1. ahead # {} BY <1>6
  <2> DEFINE low == Lowest(PositionsOf(ahead))
  <2>2. PICK r \in ahead : \A d \in ahead : r.position <= d.position
    <3> HIDE DEF ahead
    <3>1. PositionsOf(ahead) \in SUBSET (0..MaxEvents) /\ PositionsOf(ahead) # {}
      BY <1>3, <2>1, JournalAssumption DEF PositionsOf, Position
    <3>2. low \in PositionsOf(ahead) /\ \A m \in PositionsOf(ahead) : low <= m
      BY <3>1, LowestIsMin, JournalAssumption
    <3>3. QED BY <3>2 DEF PositionsOf
  <2>3. Through(r) = {r}
    <3>1. \A d \in ahead : d.position <= r.position => d.position = r.position
      BY <1>2, <2>2
    <3>2. QED BY <1>2, <1>3, <3>1 DEF OnePerPosition
  <2>4. Cardinality(Through(r)) = 1 BY <2>3, FS_Singleton
  <2>5. r \in NextPage BY <1>1, <2>4, JournalAssumption
  <2>6. QED BY <2>5
<1>7. NextPage \in SUBSET session /\ \A r \in NextPage : cursor < r.position
  BY <1>1, <1>2
<1>8. NextPage = {} => \A q \in session : q.position <= cursor
  BY <1>2, <1>6
<1>9. QED BY <1>5, <1>7, <1>8

LEMMA PageRead ==
  ASSUME TableTypes, OnePerPosition(session), cursor \in 0..MaxEvents,
         ReconcilePage, NextPage # {}
  PROVE  /\ cursor' \in Position /\ cursor < cursor' /\ step' \in {"page", "append"}
         /\ batch' = RecordsOf(NextPage) /\ batch' \in SUBSET Record
         /\ batch' \in SUBSET RecordsOf(session)
         /\ \A e \in batch' : cursor < e.position
         /\ \A r \in session :
              cursor < r.position /\ r.position <= cursor' => RecordOf(r) \in batch'
         /\ step' = "page" => \A e \in batch' : Reconciled(e)
<1> DEFINE page == NextPage
<1>1. /\ page \in SUBSET session /\ \A r \in page : cursor < r.position
      /\ \A r \in page, q \in session :
           cursor < q.position /\ q.position <= r.position => q \in page
  BY PageIsNext DEF TableTypes
<1>2. /\ cursor' = Highest(PositionsOf(page)) /\ batch' = RecordsOf(page)
      /\ step' = IF { e \in RecordsOf(page) : ~Reconciled(e) } = {} THEN "page" ELSE "append"
  BY DEF ReconcilePage, Advanced, RecordsOf
<1>3. page \in SUBSET Stored /\ \A r \in page : r.position \in Position
  BY <1>1 DEF TableTypes, Stored
<1> HIDE DEF page
<1>4. /\ cursor' \in Position /\ \E r \in page : r.position = cursor'
      /\ \A r \in page : r.position <= cursor'
  BY <1>2, <1>3, PositionsBounds DEF page
<1>5. cursor < cursor'
  BY <1>1, <1>4
<1>6. /\ batch' \in SUBSET Record
      /\ \A r \in page : RecordOf(r) \in batch'
      /\ \A e \in batch' : \E r \in page : e = RecordOf(r) /\ r.position = e.position
  BY <1>2, <1>3, RowRecords
<1>7. batch' \in SUBSET RecordsOf(session)
  BY <1>1, <1>2 DEF RecordsOf
<1>8. step' = "page" => \A e \in batch' : Reconciled(e)
  BY <1>2
<1>9. \A e \in batch' : cursor < e.position
  BY <1>1, <1>6
<1>10. \A r \in session :
         cursor < r.position /\ r.position <= cursor' => RecordOf(r) \in batch'
  BY <1>1, <1>4, <1>6
<1>11. step' \in {"page", "append"}
  BY <1>2
<1>12. QED BY <1>2, <1>4, <1>5, <1>6, <1>7, <1>8, <1>9, <1>10, <1>11 DEF page

(* The checkpoint a completed drain writes.                                *)
LEMMA CheckpointWritten ==
  ASSUME checkpoint \in Frontier, session \in SUBSET Stored, FrontierKnown, WriteCheckpoint
  PROVE  /\ checkpoint' \in Frontier /\ checkpoint' # NoCheckpoint
         /\ checkpoint'.verified >= 0 /\ checkpoint'.legacy >= 0
         /\ checkpoint'.tail = Head(session)
<1>1. /\ Head(session) \in 0..MaxEvents
      /\ checkpoint # NoCheckpoint => ClampedTail \in 0..MaxEvents
  BY ClampedType
<1>2. /\ checkpoint.verified \in -1..MaxEvents /\ checkpoint.legacy \in -1..MaxEvents
      /\ checkpoint # NoCheckpoint => checkpoint.verified >= 0 /\ checkpoint.legacy >= 0
  BY DEF Frontier, FrontierKnown
<1>3. MaxEvents \in Nat
  BY JournalAssumption
<1>4. checkpoint # NoCheckpoint =>
        Clamped.verified \in 0..MaxEvents /\ Clamped.legacy \in 0..MaxEvents
  BY <1>1, <1>2, <1>3 DEF Clamped, Frontiers, Lesser
<1>5. \/ checkpoint' = Frontiers(Head(session), Head(session), 0)
      \/ /\ checkpoint # NoCheckpoint
         /\ checkpoint' = Frontiers(Clamped.verified, Head(session), Clamped.legacy)
  BY DEF WriteCheckpoint
<1> HIDE DEF Clamped
<1>6. ASSUME NEW v \in 0..MaxEvents, NEW t \in 0..MaxEvents, NEW l \in 0..MaxEvents
      PROVE  /\ Frontiers(v, t, l) \in Frontier /\ Frontiers(v, t, l) # NoCheckpoint
             /\ Frontiers(v, t, l).verified = v /\ Frontiers(v, t, l).legacy = l
             /\ Frontiers(v, t, l).tail = t
  <2>1. Frontiers(v, t, l).tail = t /\ NoCheckpoint.tail = -1
    BY DEF Frontiers, NoCheckpoint
  <2>2. Frontiers(v, t, l) # NoCheckpoint BY <2>1
  <2>3. QED BY <2>2, <1>3 DEF Frontiers, Frontier
<1>7. 0 \in 0..MaxEvents BY <1>3
<1>8. QED BY <1>1, <1>4, <1>5, <1>6, <1>7

LEMMA ProcessTypesStep ==
  ASSUME TableTypes, ProcessTypes, Tables, Holder, [Next]_vars
  PROVE  ProcessTypes'
<1> USE JournalAssumption DEF ProcessTypes, files, process, writer, history, vars
<1>1. 0 \in 0..MaxEvents /\ {} \in SUBSET Record
  OBVIOUS
<1>2. ASSUME NEW run \in Runs, NEW n \in 1..MaxCommit, CommitEvents(run, n) PROVE ProcessTypes'
  <2> DEFINE new == { [position |-> Head(rows) + k, run |-> run, id |-> born + k,
                       version |-> LastVersion(run) + k] : k \in 1..n }
             b == [events |-> { RecordOf(r) : r \in new }, tries |-> 0]
  <2>1. pending' = pending \cup {b} /\ born + n <= MaxEvents
    BY <1>2 DEF CommitEvents
  <2>2. Countable(rows) /\ Born(rows)
    BY DEF Tables, TablesUnique, VersionsCount, Countable, Bounded
  <2>3. new \in SUBSET Stored
    BY <2>1, <2>2, CommittedTable DEF TableTypes, Countable
  <2> HIDE DEF new
  <2>4. b \in [events : SUBSET Record, tries : 0..1]
    <3>1. { RecordOf(r) : r \in new } = RecordsOf(new) BY DEF RecordsOf
    <3>2. { RecordOf(r) : r \in new } \in SUBSET Record BY <2>3, <3>1, RowRecords
    <3>3. QED BY <3>2
  <2> HIDE DEF b
  <2>5. pending' \in SUBSET [events : SUBSET Record, tries : 0..1]
    BY <2>1, <2>4
  <2>6. QED BY <1>2, <2>5 DEF CommitEvents
<1>3. ASSUME NEW b \in pending, TakeLock(b) PROVE ProcessTypes'
  BY <1>3 DEF TakeLock
<1>4. CASE RecoverLinkedRotation \/ SelectEvents
  BY <1>1, <1>4 DEF RecoverLinkedRotation, SelectEvents, Rest
<1>5. CASE AppendEvents
  BY <1>1, <1>5 DEF AppendEvents, Rest
<1>6. ASSUME NEW from, NEW to, LinkArchive(from, to) PROVE ProcessTypes'
  BY <1>6 DEF LinkArchive
<1>7. ASSUME NEW from, NEW to, UnlinkActive(from, to) PROVE ProcessTypes'
  BY <1>1, <1>7 DEF UnlinkActive, Rest
<1>8. CASE Boots
  <2>1. faults' = faults \/ (faults < MaxFaults /\ faults' = faults + 1)
    BY <1>8 DEF Boots, Bootstrap, BootstrapMisreads
  <2>2. QED BY <1>8, <2>1, BootsStartUp DEF StartsUp
<1>9. /\ Head(session) \in 0..MaxEvents /\ DrainFrom \in 0..MaxEvents
  BY ClampedType DEF TableTypes, Holder
<1>10. CASE PlanDrain \/ MisreadCheckpoint
  <2>1. Frontiers(0, Head(session), Head(session)) \in Frontier
    BY <1>9 DEF Frontiers, Frontier
  <2>2. checkpoint' \in Frontier /\ cursor' \in 0..MaxEvents
    BY <1>9, <1>10, <2>1 DEF PlanDrain, MisreadCheckpoint, AdoptJournal
  <2>3. faults' \in 0..MaxFaults BY <1>10 DEF PlanDrain, MisreadCheckpoint
  <2>4. QED BY <1>10, <2>2, <2>3 DEF PlanDrain, MisreadCheckpoint
<1>11. CASE ReconcilePage
  <2>1. UNCHANGED <<checkpoint, phase, pending, faults, losses, restores>>
    BY <1>11 DEF ReconcilePage
  <2>2. CASE NextPage = {}
    BY <1>1, <1>11, <2>1, <2>2 DEF ReconcilePage, Rest
  <2>3. CASE NextPage # {}
    <3>1. OnePerPosition(session) BY DEF Tables, TablesUnique
    <3>2. cursor' \in Position /\ batch' \in SUBSET Record
      BY <1>11, <2>3, <3>1, PageRead
    <3>3. tries' = tries BY <1>11, <2>3 DEF ReconcilePage
    <3>4. QED BY <2>1, <3>2, <3>3 DEF Position
  <2>4. QED BY <2>2, <2>3
<1>12. CASE WriteCheckpoint
  <2>1. checkpoint' \in Frontier
    BY <1>12, CheckpointWritten DEF TableTypes, Holder
  <2>2. QED BY <1>12, <2>1 DEF WriteCheckpoint
<1>13. CASE CommitStartup
  BY <1>13 DEF CommitStartup
<1>14. CASE ObserverFails
  <2>1. MayRetry => [events |-> batch, tries |-> tries + 1] \in [events : SUBSET Record, tries : 0..1]
    BY DEF MayRetry
  <2>2. pending' \in SUBSET [events : SUBSET Record, tries : 0..1]
    BY <1>14, <2>1 DEF ObserverFails
  <2>3. faults' \in 0..MaxFaults
    BY <1>14 DEF ObserverFails
  <2>4. QED BY <1>1, <1>14, <2>2, <2>3 DEF ObserverFails, Rest
<1>15. ASSUME NEW p \in 0..MaxEvents, AppendTears(p) PROVE ProcessTypes'
  BY <1>15 DEF AppendTears
<1>16. CASE Crash
  <2>1. faults' \in 0..MaxFaults BY <1>16 DEF Crash
  <2>2. QED BY <1>1, <1>16, <2>1 DEF Crash, Rest
<1>17. CASE LoseDatabase
  BY <1>17 DEF LoseDatabase
<1>18. ASSUME NEW p \in 0..MaxEvents, RestoreBackup(p) PROVE ProcessTypes'
  BY <1>18 DEF RestoreBackup
<1>19. CASE UNCHANGED vars
  BY <1>19
<1>20. CASE HolderStep
  BY <1>4, <1>5, <1>6, <1>7, <1>20 DEF HolderStep, RotateFirst, RotateLast
<1>21. CASE StartupStep
  BY <1>10, <1>11, <1>12, <1>13, <1>21 DEF StartupStep
<1>22. QED
  <2> HIDE DEF ProcessTypes, vars
  <2>1. QED
    BY <1>2, <1>3, <1>8, <1>10, <1>14, <1>15, <1>16, <1>17, <1>18, <1>19, <1>20, <1>21
       DEF Next, Boots

-----------------------------------------------------------------------------
(* Every step keeps what is known of the lock's holder and the checkpoint. *)

LEMMA RotatesSomething ==
  /\ ShouldRotate(active) => active # {}
  /\ ShouldRotate(active') => active' # {}
<1>1. \A S : Cardinality(S) >= SegmentSize => S # {}
  BY FS_EmptySet, JournalAssumption
<1>2. QED BY <1>1 DEF ShouldRotate

LEMMA LockHolderStep ==
  ASSUME ProcessTypes, StepType, LockHolder, Twins, [Next]_vars
  PROVE  LockHolder'
<1> USE DEF LockHolder, files, process, writer, history, vars
<1>1. ASSUME NEW run \in Runs, NEW n \in 1..MaxCommit, CommitEvents(run, n) PROVE LockHolder'
  BY <1>1 DEF CommitEvents
<1>2. ASSUME NEW b \in pending, TakeLock(b) PROVE LockHolder'
  BY <1>2 DEF TakeLock
<1>3. CASE RecoverLinkedRotation
  <2>1. phase \in {"start", "serving"} BY <1>3 DEF ProcessTypes, RecoverLinkedRotation
  <2>2. QED BY <1>3, <2>1 DEF RecoverLinkedRotation
<1>4. CASE SelectEvents
  <2>1. phase = "serving" BY <1>4 DEF ProcessTypes, SelectEvents
  <2>2. QED BY <1>4, <2>1, RotatesSomething DEF SelectEvents, Rest
<1>5. CASE AppendEvents
  <2>1. phase \in {"start", "serving"} BY <1>5 DEF ProcessTypes, AppendEvents
  <2>2. /\ UNCHANGED <<phase, session, pending>>
        /\ \/ /\ step' = "seal" /\ active' # {}
              /\ UNCHANGED <<batch, cursor>>
           \/ /\ phase = "start" /\ step' = "page" /\ UNCHANGED <<batch, cursor>>
           \/ /\ phase = "serving" /\ step' = "free" /\ batch' = {} /\ cursor' = 0
    BY <1>5, <2>1, RotatesSomething DEF AppendEvents, Released, Rest
  <2>3. QED BY <2>1, <2>2
<1>6. CASE LinkArchive("link", "unlink")
  <2>1. phase = "serving" BY <1>6 DEF ProcessTypes, LinkArchive
  <2>2. QED BY <1>6, <2>1 DEF LinkArchive
<1>7. CASE LinkArchive("seal", "drop")
  BY <1>7 DEF LinkArchive
<1>8. CASE UnlinkActive("unlink", "select")
  <2>1. phase = "serving" BY <1>8 DEF ProcessTypes, UnlinkActive
  <2>2. QED BY <1>8, <2>1 DEF UnlinkActive
<1>9. CASE UnlinkActive("drop", Released)
  <2>1. phase \in {"start", "serving"} BY <1>9 DEF ProcessTypes, UnlinkActive
  <2>2. /\ UNCHANGED <<phase, session, pending>>
        /\ \/ /\ phase = "start" /\ step' = "page" /\ UNCHANGED <<batch, cursor>>
           \/ /\ phase = "serving" /\ step' = "free" /\ batch' = {} /\ cursor' = 0
    BY <1>9, <2>1 DEF UnlinkActive, Released, Rest
  <2>3. QED BY <2>1, <2>2
<1>10. CASE Boots
  BY <1>10, BootsStartUp DEF StartsUp
<1>11. CASE PlanDrain \/ MisreadCheckpoint
  <2>1. phase = "start" BY <1>11 DEF ProcessTypes, PlanDrain, MisreadCheckpoint
  <2>2. QED BY <1>11, <2>1 DEF PlanDrain, MisreadCheckpoint, AdoptJournal
<1>12. CASE ReconcilePage
  <2>1. phase = "start" BY <1>12 DEF ProcessTypes, ReconcilePage
  <2>2. /\ UNCHANGED <<phase, session, pending>>
        /\ step' \in {"page", "append"} \/ (step' = "checkpoint" /\ batch' = {})
    BY <1>12 DEF ReconcilePage, Rest
  <2>3. QED BY <2>1, <2>2
<1>13. CASE WriteCheckpoint
  <2>1. phase = "start" BY <1>13 DEF ProcessTypes, WriteCheckpoint
  <2>2. QED BY <1>13, <2>1 DEF WriteCheckpoint
<1>14. CASE CommitStartup
  BY <1>14 DEF CommitStartup
<1>15. CASE ObserverFails
  BY <1>15 DEF ObserverFails, Rest
<1>16. ASSUME NEW p \in 0..MaxEvents, AppendTears(p) PROVE LockHolder'
  <2>1. phase \in {"start", "serving"} BY <1>16 DEF ProcessTypes, AppendTears
  <2>2. step' = "failed" /\ UNCHANGED <<phase, session, pending, batch, cursor>>
    BY <1>16 DEF AppendTears
  <2>3. QED BY <2>1, <2>2
<1>17. CASE Crash
  BY <1>17 DEF Crash, Rest
<1>18. CASE LoseDatabase
  BY <1>18 DEF LoseDatabase
<1>19. ASSUME NEW p \in 0..MaxEvents, RestoreBackup(p) PROVE LockHolder'
  BY <1>19 DEF RestoreBackup
<1>20. CASE UNCHANGED vars
  BY <1>20
<1>21. CASE HolderStep
  BY <1>3, <1>4, <1>5, <1>6, <1>7, <1>8, <1>9, <1>21 DEF HolderStep, RotateFirst, RotateLast
<1>22. CASE StartupStep
  BY <1>11, <1>12, <1>13, <1>14, <1>22 DEF StartupStep
<1>23. QED
  <2> HIDE DEF LockHolder, vars
  <2>1. QED
    BY <1>1, <1>2, <1>10, <1>11, <1>15, <1>16, <1>17, <1>18, <1>19, <1>20, <1>21, <1>22
       DEF Next, Boots

LEMMA HeadGrows ==
  ASSUME NEW older \in SUBSET Stored, NEW newer \in SUBSET Stored, older \subseteq newer
  PROVE  Head(older) <= Head(newer)
<1>1. /\ Head(older) \in 0..MaxEvents /\ Head(newer) \in 0..MaxEvents
      /\ Head(older) = 0 \/ \E r \in older : r.position = Head(older)
      /\ \A r \in newer : r.position <= Head(newer)
  BY HeadIsLast
<1>2. QED BY <1>1

LEMMA FrontierStep ==
  ASSUME TableTypes, TableTypes', ProcessTypes, LockHolder, FrontierKnown, [Next]_vars
  PROVE  FrontierKnown'
<1> USE DEF files, process, writer, history, vars
<1> DEFINE Same == UNCHANGED <<checkpoint, phase, rows, session>> /\ step' # "commit"
<1>1. CASE Same
  BY <1>1 DEF FrontierKnown, Head
<1>2. CASE UNCHANGED vars
  BY <1>2 DEF FrontierKnown, Head
<1>3. ASSUME NEW run \in Runs, NEW n \in 1..MaxCommit, CommitEvents(run, n) PROVE FrontierKnown'
  <2>1. rows \subseteq rows' /\ UNCHANGED <<checkpoint, phase, session, step>> /\ phase = "serving"
    BY <1>3 DEF CommitEvents
  <2>2. Head(rows) <= Head(rows') /\ Head(rows) \in 0..MaxEvents /\ Head(rows') \in 0..MaxEvents
    BY <2>1, HeadGrows, HeadIsLast DEF TableTypes
  <2>3. Head(rows)' = Head(rows') /\ Head(session)' = Head(session)
    BY <2>1 DEF Head
  <2>4. step # "commit" /\ checkpoint.tail \in Int
    BY <2>1 DEF LockHolder, ProcessTypes, Frontier
  <2>5. QED BY <2>1, <2>2, <2>3, <2>4 DEF FrontierKnown
<1>4. ASSUME NEW b \in pending, TakeLock(b) PROVE Same
  BY <1>4 DEF TakeLock
<1>5. CASE HolderStep
  <2>1. RecoverLinkedRotation \/ SelectEvents \/ AppendEvents => Same
    BY DEF RecoverLinkedRotation, SelectEvents, AppendEvents, Released
  <2>2. ASSUME NEW from, NEW to \in {"unlink", "drop"}, LinkArchive(from, to) PROVE Same
    BY <2>2 DEF LinkArchive
  <2>3. ASSUME NEW from, NEW to \in {"select", "page", "free"}, UnlinkActive(from, to) PROVE Same
    BY <2>3 DEF UnlinkActive
  <2>4. Released \in {"page", "free"} BY DEF Released
  <2>5. RotateFirst \/ RotateLast => Same
    BY <2>2, <2>3, <2>4 DEF RotateFirst, RotateLast
  <2>6. QED BY <1>1, <1>5, <2>1, <2>5 DEF HolderStep
<1>6. CASE Boots
  BY <1>6, BootsStartUp DEF StartsUp, FrontierKnown
<1>7. CASE PlanDrain \/ MisreadCheckpoint
  <2>1. UNCHANGED <<phase, rows, session>> /\ phase # "serving"
    BY <1>7 DEF PlanDrain, MisreadCheckpoint, LockHolder
  <2>2. CASE checkpoint' = checkpoint /\ step' = "recover"
    BY <2>1, <2>2 DEF FrontierKnown, Head
  <2>3. CASE checkpoint' = Frontiers(0, Head(session), Head(session))
    <3>1. Head(session) \in 0..MaxEvents BY HeadIsLast DEF TableTypes
    <3>2. /\ checkpoint'.verified = 0 /\ checkpoint'.tail = Head(session)
          /\ checkpoint'.legacy = Head(session)
      BY <2>3 DEF Frontiers
    <3>3. checkpoint' # NoCheckpoint BY <3>2 DEF NoCheckpoint
    <3>4. QED BY <2>1, <3>1, <3>2, <3>3 DEF FrontierKnown, Head
  <2>4. QED BY <1>7, <2>2, <2>3 DEF PlanDrain, MisreadCheckpoint, AdoptJournal
<1>8. CASE ReconcilePage
  BY <1>1, <1>8 DEF ReconcilePage
<1>9. CASE WriteCheckpoint
  <2>1. /\ checkpoint' # NoCheckpoint
        /\ checkpoint'.verified >= 0 /\ checkpoint'.legacy >= 0
        /\ checkpoint'.tail = Head(session)
    BY <1>9, CheckpointWritten DEF TableTypes, ProcessTypes
  <2>2. UNCHANGED <<phase, rows, session>> /\ phase # "serving"
    BY <1>9 DEF WriteCheckpoint, LockHolder
  <2>3. Head(session) \in 0..MaxEvents BY HeadIsLast DEF TableTypes
  <2>4. QED BY <2>1, <2>2, <2>3 DEF FrontierKnown, Head
<1>10. CASE CommitStartup
  <2>1. /\ step = "commit" /\ step' = "free" /\ checkpoint' = checkpoint /\ rows' = session
    BY <1>10 DEF CommitStartup
  <2>2. Head(rows)' = Head(session) /\ Head(session) \in 0..MaxEvents
    BY <2>1, HeadIsLast DEF Head, TableTypes
  <2>3. QED BY <2>1, <2>2 DEF FrontierKnown
<1>11. CASE ObserverFails
  BY <1>1, <1>11 DEF ObserverFails
<1>12. ASSUME NEW p \in 0..MaxEvents, AppendTears(p) PROVE Same
  BY <1>12 DEF AppendTears
<1>13. CASE Crash
  BY <1>13 DEF Crash, FrontierKnown
<1>14. CASE LoseDatabase
  BY <1>14 DEF LoseDatabase, FrontierKnown, LockHolder
<1>15. ASSUME NEW p \in 0..MaxEvents, RestoreBackup(p) PROVE FrontierKnown'
  BY <1>15 DEF RestoreBackup, FrontierKnown, LockHolder
<1>16. CASE StartupStep
  BY <1>7, <1>8, <1>9, <1>10, <1>16 DEF StartupStep
<1>17. QED
  <2>1. ASSUME NEW b \in pending, TakeLock(b) PROVE FrontierKnown'
    BY <1>1, <1>4, <2>1
  <2>2. ASSUME NEW p \in 0..MaxEvents, AppendTears(p) PROVE FrontierKnown'
    BY <1>1, <1>12, <2>2
  <2> HIDE DEF vars
  <2>3. QED
    BY <1>2, <1>3, <1>5, <1>6, <1>7, <1>11, <1>13, <1>14, <1>15, <1>16, <2>1, <2>2
       DEF Next, Boots

-----------------------------------------------------------------------------
(* Every step keeps the positions apart.                                   *)

Apart(S, T) == \A d \in S, e \in T : d.position # e.position

LEMMA OnceIsApart ==
  /\ EachPositionOnce <=>
       /\ \A a, b \in archives : a # b => Apart(a.records, b.records)
       /\ ~HasTwin => \A a \in archives : Apart(active, a.records)
  /\ EachPositionOnce' <=>
       /\ \A a, b \in archives' : a # b => Apart(a.records, b.records)
       /\ ~HasTwin' => \A a \in archives' : Apart(active', a.records)
<1>1. \A S, T : PositionsOf(S) \cap PositionsOf(T) = {} <=> Apart(S, T)
  BY DEF PositionsOf, Apart
<1>2. Apart(active, Archived) <=> \A a \in archives : Apart(active, a.records)
  BY DEF Apart, Archived
<1>3. Apart(active', Archived') <=> \A a \in archives' : Apart(active', a.records)
  BY DEF Apart, Archived
<1>4. QED BY <1>1, <1>2, <1>3 DEF EachPositionOnce

LEMMA TwinsDecided ==
  /\ archives' = archives => HasTwin' = HasTwin
  /\ archives \in SUBSET Segment /\ archives' = Unlinked => ~HasTwin'
  /\ NewSegment \in archives' => HasTwin'
<1>1. NewSegment.twin
  BY DEF NewSegment
<1>2. QED BY <1>1, UnlinkedSegments DEF HasTwin

LEMMA SegmentsStep ==
  ASSUME FileTypes, LockHolder, Segments, Twins, [Next]_vars
  PROVE  Segments'
<1>1. CASE Kept BY <1>1 DEF Kept, Segments, Covers
<1>2. CASE Unlinks
  <2>1. archives' = Unlinked BY <1>2 DEF Unlinks
  <2>2. \A b \in Unlinked : \E a \in archives :
          b.records = a.records /\ b.first = a.first /\ b.last = a.last
    BY UnlinkedSegments DEF FileTypes
  <2>3. QED BY <2>1, <2>2 DEF Segments, Covers
<1>3. CASE Links
  <2>1. active # {} /\ archives' = archives \cup {NewSegment}
    BY <1>3 DEF Links, LockHolder
  <2>2. NewSegment.records = active /\ \A e \in active : Covers(NewSegment, e)
    BY <2>1, SegmentNamed DEF FileTypes
  <2>3. QED BY <2>1, <2>2 DEF Segments
<1>4. CASE Writes BY <1>4 DEF Writes, Segments
<1>5. QED BY <1>1, <1>2, <1>3, <1>4, FilesStep

LEMMA TwinsStep ==
  ASSUME FileTypes, ProcessTypes, LockHolder, Twins, [Next]_vars
  PROVE  Twins'
<1> DEFINE Calm == {"free", "plan", "recover", "commit"}
<1>1. \A a \in archives' : a.twin => a.records = active'
  <2>1. CASE Kept BY <2>1 DEF Kept, Twins
  <2>2. CASE Unlinks
    BY <2>2, TwinsDecided DEF Unlinks, FileTypes, HasTwin
  <2>3. CASE Links
    BY <2>3 DEF Links, Twins, NewSegment
  <2>4. CASE Writes
    <3>1. ~HasTwin BY <2>4 DEF Writes, Twins
    <3>2. QED BY <2>4, <3>1 DEF Writes, HasTwin
  <2>5. QED BY <2>1, <2>2, <2>3, <2>4, FilesStep
<1> USE DEF files, process, writer, history, vars
<1>2. ASSUME NEW from \in {"link", "seal"}, NEW to \in {"unlink", "drop"}, LinkArchive(from, to)
      PROVE  step' \in {"unlink", "drop"} /\ \E a \in archives' : a.records = active'
  <2>1. NewSegment.records = active BY DEF NewSegment
  <2>2. QED BY <1>2, <2>1 DEF LinkArchive, NewSegment
<1>3. ASSUME NEW from, NEW to \in {"select", "page", "free"}, UnlinkActive(from, to)
      PROVE  ~HasTwin' /\ step' \notin {"unlink", "drop"}
  BY <1>3, TwinsDecided DEF UnlinkActive, FileTypes
<1>4. Released \in {"page", "free"}
  BY DEF Released
<1>5. CASE RecoverLinkedRotation
  <2>1. ~HasTwin' BY <1>5, TwinsDecided DEF RecoverLinkedRotation, FileTypes
  <2>2. step' \notin {"unlink", "drop"} BY <1>5 DEF RecoverLinkedRotation
  <2>3. QED BY <1>1, <2>1, <2>2 DEF Twins
<1>6. ASSUME step = "append", step' \notin {"unlink", "drop"} PROVE Twins'
  <2>1. archives' = archives BY <1>6, FilesStep DEF Kept, Unlinks, Links, Writes
  <2>2. ~HasTwin' BY <1>6, <2>1, TwinsDecided DEF Twins
  <2>3. QED BY <1>1, <1>6, <2>2 DEF Twins
<1>7. CASE AppendEvents
  BY <1>4, <1>6, <1>7 DEF AppendEvents
<1>8. ASSUME NEW p \in 0..MaxEvents, AppendTears(p) PROVE Twins'
  BY <1>6, <1>8 DEF AppendTears
<1>9. ASSUME Kept, \/ step' = step
                   \/ step' \in Calm
                   \/ step \in {"select", "page"} /\ step' \notin {"unlink", "drop"}
      PROVE  Twins'
  <2>1. HasTwin' = HasTwin BY <1>9, TwinsDecided DEF Kept
  <2>2. HasTwin' => step' \in Calm \cup {"unlink", "drop"}
    BY <1>9, <2>1 DEF Twins
  <2>3. step' \in {"unlink", "drop"} => \E a \in archives' : a.records = active'
    BY <1>9 DEF Twins, Kept
  <2>4. QED BY <1>1, <2>2, <2>3 DEF Twins
<1>10. CASE SelectEvents
  BY <1>9, <1>10 DEF SelectEvents, Kept
<1>11. CASE RotateFirst \/ RotateLast
  <2>1. LinkArchive("link", "unlink") \/ LinkArchive("seal", "drop") => Twins'
    BY <1>1, <1>2 DEF Twins
  <2>2. UnlinkActive("unlink", "select") \/ UnlinkActive("drop", Released) => Twins'
    BY <1>1, <1>3, <1>4 DEF Twins
  <2>3. QED BY <1>11, <2>1, <2>2 DEF RotateFirst, RotateLast
<1>12. CASE StartupStep
  <2>1. CASE PlanDrain BY <1>9, <2>1 DEF PlanDrain, AdoptJournal, Kept
  <2>2. CASE ReconcilePage BY <1>9, <2>2 DEF ReconcilePage, Kept
  <2>3. CASE WriteCheckpoint BY <1>9, <2>3 DEF WriteCheckpoint, Kept
  <2>4. CASE CommitStartup BY <1>9, <2>4 DEF CommitStartup, Kept
  <2>5. QED BY <1>12, <2>1, <2>2, <2>3, <2>4 DEF StartupStep
<1>13. CASE ~HolderStep /\ ~StartupStep /\ ~(\E p \in 0..MaxEvents : AppendTears(p))
  <2>1. Kept /\ (step' = step \/ step' \in Calm)
    BY <1>13 DEF Next, CommitEvents, TakeLock, Bootstrap, BootstrapMisreads,
       MisreadCheckpoint, AdoptJournal, ObserverFails, Crash, LoseDatabase, RestoreBackup, Kept
  <2>2. QED BY <1>9, <2>1
<1>14. QED
  BY <1>5, <1>7, <1>8, <1>10, <1>11, <1>12, <1>13 DEF HolderStep

(* What is appended is in no archive: a commit's batch is looked up in     *)
(* every archive that may cover it, and the drain has passed what the      *)
(* archives it leaves out end with.                                        *)
LEMMA FreshIsNew ==
  ASSUME TableTypes, FileTypes, ProcessTypes, FrontierKnown, LockHolder, Segments, DrainAhead,
         step = "append"
  PROVE  \A a \in archives : Apart(Fresh, a.records)
<1> SUFFICES ASSUME NEW a \in archives, NEW e \in Fresh, NEW d \in a.records,
                    e.position = d.position
             PROVE  FALSE
  BY DEF Apart
<1>1. a.first <= d.position /\ d.position <= a.last
  BY DEF Segments, Covers
<1>2. e.position \in PositionsOf(a.records)
  BY DEF PositionsOf
<1>3. e \in batch
  BY DEF Fresh
<1>4. CASE phase = "start"
  <2>1. ClampedTail < e.position
    BY <1>3, <1>4 DEF DrainAhead
  <2>2. a.last > ClampedTail
    <3>1. ClampedTail \in Int BY ClampedType DEF TableTypes, ProcessTypes
    <3>2. a.last \in Int /\ e.position \in Int
      BY <1>3 DEF FileTypes, Segment, ProcessTypes, Record, Position
    <3>3. QED BY <1>1, <2>1, <3>1, <3>2
  <2>3. Reconciled(e) BY <1>2, <2>2 DEF Reconciled
  <2>4. QED BY <1>4, <2>3 DEF Fresh
<1>5. CASE phase # "start"
  <2>1. Covers(a, e) BY <1>1 DEF Covers
  <2>2. Written(e) BY <1>2, <2>1 DEF Written
  <2>3. QED BY <1>5, <2>2 DEF Fresh
<1>6. QED BY <1>4, <1>5

LEMMA OnceStep ==
  ASSUME TableTypes, FileTypes, ProcessTypes, FrontierKnown, LockHolder, Segments, Twins,
         DrainAhead, EachPositionOnce, [Next]_vars
  PROVE  EachPositionOnce'
<1>1. /\ \A a, b \in archives : a # b => Apart(a.records, b.records)
      /\ ~HasTwin => \A a \in archives : Apart(active, a.records)
  BY OnceIsApart
<1>2. CASE Kept
  BY <1>1, <1>2, OnceIsApart, TwinsDecided DEF Kept
<1>3. CASE Unlinks
  <2> DEFINE Plain(a) == [a EXCEPT !.twin = FALSE]
  <2>1. archives' = { Plain(a) : a \in archives } /\ active' = {}
    BY <1>3 DEF Unlinks, Unlinked
  <2>2. \A a \in archives : Plain(a).records = a.records
    BY DEF FileTypes, Segment
  <2> HIDE DEF Plain
  <2>3. \A a, b \in archives' : a # b => Apart(a.records, b.records)
    BY <1>1, <2>1, <2>2
  <2>4. \A a \in archives' : Apart(active', a.records)
    BY <2>1 DEF Apart
  <2>5. QED BY <2>3, <2>4, OnceIsApart
<1>4. CASE Links
  <2>1. archives' = archives \cup {NewSegment} /\ NewSegment.records = active /\ HasTwin'
    BY <1>4, TwinsDecided DEF Links, NewSegment
  <2>2. \A a \in archives : Apart(active, a.records)
    BY <1>1, <1>4 DEF Links, Twins
  <2>3. \A a \in archives : Apart(a.records, active)
    BY <2>2 DEF Apart
  <2>4. \A a, b \in archives' : a # b => Apart(a.records, b.records)
    BY <1>1, <2>1, <2>2, <2>3
  <2>5. QED BY <2>1, <2>4, OnceIsApart
<1>5. CASE Writes
  <2>1. step = "append" /\ archives' = archives /\ ~HasTwin
    BY <1>5 DEF Writes, Twins
  <2>2. PICK new \in SUBSET Fresh : active' = active \cup new
    BY <1>5 DEF Writes
  <2>3. \A a \in archives : Apart(Fresh, a.records) /\ Apart(active, a.records)
    BY <1>1, <2>1, FreshIsNew
  <2>4. \A a \in archives' : Apart(active', a.records)
    BY <2>1, <2>2, <2>3 DEF Apart
  <2>5. QED BY <1>1, <2>1, <2>4, OnceIsApart
<1>6. QED BY <1>2, <1>3, <1>4, <1>5, FilesStep

LEMMA DrainAheadStep ==
  ASSUME TableTypes, ProcessTypes, Tables, Holder, DrainAhead, [Next]_vars
  PROVE  DrainAhead'
<1> USE DEF files, process, writer, history, vars
<1> DEFINE Still == UNCHANGED <<checkpoint, session, phase, cursor, batch>>
           Draining == phase = "start" /\ step \notin {"plan", "checkpoint", "commit"}
           Away == phase' # "start" \/ step' \in {"plan", "checkpoint", "commit"}
<1>1. ASSUME Still, Draining \/ phase # "start" PROVE DrainAhead'
  BY <1>1 DEF DrainAhead, ClampedTail, Lesser, Head
<1>2. ASSUME Away PROVE DrainAhead'
  BY <1>2 DEF DrainAhead
<1>3. CASE UNCHANGED vars
  BY <1>3 DEF DrainAhead, ClampedTail, Lesser, Head
<1>4. ASSUME NEW from \in {"link", "seal"}, NEW to, LinkArchive(from, to) PROVE DrainAhead'
  BY <1>1, <1>4 DEF LinkArchive
<1>5. ASSUME NEW from \in {"unlink", "drop"}, NEW to \in {"select", Released}, UnlinkActive(from, to)
      PROVE  DrainAhead'
  <2>1. CASE phase = "start" /\ to # "free" BY <1>1, <1>5, <2>1 DEF UnlinkActive
  <2>2. CASE phase # "start" BY <1>2, <1>5, <2>2 DEF UnlinkActive
  <2>3. QED BY <2>1, <2>2 DEF Released
<1>6. CASE RecoverLinkedRotation
  BY <1>1, <1>6 DEF RecoverLinkedRotation
<1>7. CASE SelectEvents
  <2>1. phase # "start" BY <1>7 DEF SelectEvents, Holder, LockHolder
  <2>2. QED BY <1>2, <1>7, <2>1 DEF SelectEvents
<1>8. CASE AppendEvents
  <2>1. CASE phase = "start"
    <3>1. Still BY <1>8, <2>1 DEF AppendEvents
    <3>2. QED BY <1>1, <1>8, <2>1, <3>1 DEF AppendEvents
  <2>2. CASE phase # "start" BY <1>2, <1>8, <2>2 DEF AppendEvents
  <2>3. QED BY <2>1, <2>2
<1>9. ASSUME NEW p \in 0..MaxEvents, AppendTears(p) PROVE DrainAhead'
  BY <1>1, <1>9 DEF AppendTears
<1>10. CASE PlanDrain
  <2>1. CASE step' = "commit" BY <1>2, <2>1
  <2>2. CASE step' # "commit"
    <3>1. checkpoint' = checkpoint /\ session' = session /\ cursor' = DrainFrom /\ batch' = {}
      BY <1>10, <2>2 DEF PlanDrain, AdoptJournal, Holder, LockHolder
    <3>2. ClampedTail <= DrainFrom BY ClampedType DEF TableTypes, ProcessTypes, Holder
    <3>3. ClampedTail' = ClampedTail BY <3>1 DEF ClampedTail, Lesser, Head
    <3>4. QED BY <3>1, <3>2, <3>3 DEF DrainAhead
  <2>3. QED BY <2>1, <2>2
<1>11. CASE ReconcilePage
  <2>1. CASE NextPage = {} BY <1>2, <1>11, <2>1 DEF ReconcilePage
  <2>2. CASE NextPage # {}
    <3>1. OnePerPosition(session) /\ cursor \in 0..MaxEvents
      BY DEF Tables, TablesUnique, ProcessTypes
    <3>2. /\ cursor < cursor' /\ cursor' \in Position /\ batch' \in SUBSET Record
          /\ \A e \in batch' : cursor < e.position
      BY <1>11, <2>2, <3>1, PageRead
    <3>3. ClampedTail <= cursor
      BY <1>11 DEF ReconcilePage, DrainAhead, Holder, LockHolder, ProcessTypes
    <3>4. ClampedTail' = ClampedTail
      BY <1>11 DEF ReconcilePage, ClampedTail, Lesser, Head
    <3>5. ClampedTail \in Int BY ClampedType DEF TableTypes, ProcessTypes, Holder
    <3>6. ClampedTail <= cursor' /\ \A e \in batch' : ClampedTail < e.position
      BY <3>1, <3>2, <3>3, <3>5 DEF Record, Position
    <3>7. QED BY <3>4, <3>6 DEF DrainAhead
  <2>3. QED BY <2>1, <2>2
<1>12. CASE WriteCheckpoint \/ CommitStartup \/ Boots \/ Crash \/ LoseDatabase
            \/ MisreadCheckpoint
  <2>1. Away
    BY <1>12, BootsStartUp DEF WriteCheckpoint, CommitStartup, StartsUp, Crash, LoseDatabase,
       MisreadCheckpoint, AdoptJournal
  <2>2. QED BY <1>2, <2>1
<1>13. ASSUME NEW p \in 0..MaxEvents, RestoreBackup(p) PROVE Away
  BY <1>13 DEF RestoreBackup
<1>14. ASSUME NEW run \in Runs, NEW n \in 1..MaxCommit, CommitEvents(run, n) PROVE Away
  BY <1>14 DEF CommitEvents
<1>15. ASSUME NEW b \in pending, TakeLock(b) PROVE Away
  BY <1>15 DEF TakeLock
<1>16. CASE ObserverFails
  BY <1>2, <1>16 DEF ObserverFails
<1>17. CASE RotateFirst \/ RotateLast
  BY <1>4, <1>5, <1>17 DEF RotateFirst, RotateLast
<1>18. QED
  <2> HIDE DEF vars, Away
  <2>1. CASE HolderStep BY <1>6, <1>7, <1>8, <1>17, <2>1 DEF HolderStep
  <2>2. CASE StartupStep BY <1>10, <1>11, <1>12, <2>2 DEF StartupStep
  <2>3. QED BY <1>2, <1>3, <1>9, <1>12, <1>13, <1>14, <1>15, <1>16, <2>1, <2>2 DEF Next, Boots

-----------------------------------------------------------------------------
(* Every step keeps the events known.                                      *)

(* What the lock's holder and the observers' queue get, and from where.    *)
LEMMA QueueStep ==
  ASSUME [Next]_vars
  PROVE  /\ \/ batch' = batch \/ batch' = {}
            \/ \E b \in pending : batch' = b.events /\ TakeLock(b)
            \/ ReconcilePage /\ NextPage # {}
         /\ \/ \A b \in pending' : b \in pending \/ b.events = batch
            \/ \E run \in Runs, n \in 1..MaxCommit : CommitEvents(run, n)
<1> USE DEF files, process, writer, history, vars
<1> DEFINE Batch == batch' = batch \/ batch' = {}
           Queue == \A b \in pending' : b \in pending \/ b.events = batch
<1>1. ASSUME NEW run \in Runs, NEW n \in 1..MaxCommit, CommitEvents(run, n) PROVE Batch
  BY <1>1 DEF CommitEvents
<1>2. ASSUME NEW b \in pending, TakeLock(b) PROVE batch' = b.events /\ Queue
  BY <1>2 DEF TakeLock
<1>3. CASE HolderStep
  <2>1. ASSUME NEW from, NEW to, LinkArchive(from, to) PROVE Batch /\ pending' = pending
    BY <2>1 DEF LinkArchive
  <2>2. ASSUME NEW from, NEW to, UnlinkActive(from, to) PROVE Batch /\ pending' = pending
    BY <2>2 DEF UnlinkActive, Rest
  <2>3. RecoverLinkedRotation \/ SelectEvents \/ AppendEvents => Batch /\ pending' = pending
    BY DEF RecoverLinkedRotation, SelectEvents, AppendEvents, Rest
  <2>4. Batch /\ pending' = pending
    BY <1>3, <2>1, <2>2, <2>3 DEF HolderStep, RotateFirst, RotateLast
  <2>5. QED BY <2>4
<1>4. CASE Boots
  BY <1>4, BootsStartUp DEF StartsUp
<1>5. CASE StartupStep \/ MisreadCheckpoint
  <2>1. pending' = pending
    BY <1>5 DEF StartupStep, PlanDrain, ReconcilePage, WriteCheckpoint, CommitStartup,
       MisreadCheckpoint
  <2>2. CASE ReconcilePage
    BY <2>1, <2>2 DEF ReconcilePage, Rest
  <2>3. CASE PlanDrain \/ WriteCheckpoint \/ CommitStartup \/ MisreadCheckpoint
    BY <2>1, <2>3 DEF PlanDrain, WriteCheckpoint, CommitStartup, MisreadCheckpoint
  <2>4. QED BY <1>5, <2>2, <2>3 DEF StartupStep
<1>6. CASE ObserverFails
  <2>1. Batch BY <1>6 DEF ObserverFails, Rest
  <2>2. \/ pending' = pending
        \/ pending' = pending \cup {[events |-> batch, tries |-> tries + 1]}
    BY <1>6 DEF ObserverFails
  <2>3. QED BY <2>1, <2>2
<1>7. ASSUME NEW p \in 0..MaxEvents, AppendTears(p) PROVE Batch /\ Queue
  BY <1>7 DEF AppendTears
<1>8. CASE Crash
  BY <1>8 DEF Crash, Rest
<1>9. CASE LoseDatabase
  BY <1>9 DEF LoseDatabase
<1>10. ASSUME NEW p \in 0..MaxEvents, RestoreBackup(p) PROVE Batch /\ Queue
  BY <1>10 DEF RestoreBackup
<1>11. CASE UNCHANGED vars
  BY <1>11
<1>12. QED
  <2> HIDE DEF vars
  <2>1. CASE \E run \in Runs, n \in 1..MaxCommit : CommitEvents(run, n) BY <1>1, <2>1
  <2>2. CASE \E b \in pending : TakeLock(b) BY <1>2, <2>2
  <2>3. CASE \E p \in 0..MaxEvents : AppendTears(p) \/ RestoreBackup(p) BY <1>7, <1>10, <2>3
  <2>4. QED
    BY <1>3, <1>4, <1>5, <1>6, <1>8, <1>9, <1>11, <2>1, <2>2, <2>3 DEF Next, Boots

LEMMA BoundedStep ==
  ASSUME TableTypes, FileTypes, ProcessTypes, Tables, Twins, [Next]_vars
  PROVE  Bounded'
<1> DEFINE Older(S) == \A e \in S : e.position <= born'
<1> USE DEF files, process, writer, history, vars
<1>1. /\ Older(rows) /\ Older(session) /\ Older(Journal) /\ Older(batch) /\ Older({})
      /\ \A b \in pending : Older(b.events)
      /\ \A run \in Runs, n \in 1..MaxCommit : CommitEvents(run, n) =>
           born' = born + n /\ born' \in 0..MaxEvents
  <2>1. born \in Int /\ born' \in Int /\ born <= born'
        /\ \A run \in Runs, n \in 1..MaxCommit : CommitEvents(run, n) =>
             born' = born + n /\ born' \in 0..MaxEvents
    <3>1. CASE born' = born
      BY <3>1, JournalAssumption DEF TableTypes, CommitEvents
    <3>2. ASSUME NEW run \in Runs, NEW n \in 1..MaxCommit, CommitEvents(run, n)
          PROVE  born' = born + n /\ born' \in 0..MaxEvents /\ born <= born' /\ born \in Int
      BY <3>2, JournalAssumption DEF TableTypes, CommitEvents
    <3>3. born' = born \/ \E run \in Runs, n \in 1..MaxCommit : CommitEvents(run, n)
      BY TablesStep, BootsStartUp
         DEF SameTables, StartsUp, CommitStartup, Crash, LoseDatabase, RestoreBackup
    <3>4. QED BY <3>1, <3>2, <3>3 DEF TableTypes
  <2>2. ASSUME NEW S, Born(S), \A e \in S : e.position \in Position PROVE Older(S)
    BY <2>1, <2>2, JournalAssumption DEF Born, Position, TableTypes
  <2>3. /\ \A e \in rows \cup session : e.position \in Position
        /\ \A e \in batch : e.position \in Position
        /\ \A b \in pending : \A e \in b.events : e.position \in Position
    BY DEF TableTypes, ProcessTypes, Stored, Record
  <2>4. \A e \in Journal : e.position \in Position
    BY JournalType DEF FileTypes, Record
  <2>5. QED BY <2>1, <2>2, <2>3, <2>4 DEF Tables, Bounded
<1>2. ASSUME NEW run \in Runs, NEW n \in 1..MaxCommit, CommitEvents(run, n)
      PROVE  Older(rows') /\ session' = session /\ \A b \in pending' : Older(b.events)
  <2> DEFINE new == { [position |-> Head(rows) + k, run |-> run, id |-> born + k,
                       version |-> LastVersion(run) + k] : k \in 1..n }
  <2>1. /\ rows' = rows \cup new /\ born + n <= MaxEvents /\ session' = session
        /\ pending' = pending \cup {[events |-> { RecordOf(r) : r \in new }, tries |-> 0]}
    BY <1>2 DEF CommitEvents
  <2>2. Countable(rows) /\ Born(rows)
    BY DEF Tables, TablesUnique, VersionsCount, Countable, Bounded
  <2>3. \A r \in new : r.position <= born + n
    BY <2>1, <2>2, CommittedTable DEF TableTypes, Countable
  <2> HIDE DEF new
  <2>4. \A e \in { RecordOf(r) : r \in new } : e.position <= born + n
    BY <2>3 DEF RecordOf
  <2>5. born' = born + n BY <1>1, <1>2
  <2>6. QED BY <1>1, <2>1, <2>3, <2>4, <2>5
<1>3. Older(rows') /\ Older(session')
  <2>1. CASE SameTables BY <1>1, <2>1 DEF SameTables
  <2>2. CASE Boots
    <3>1. Journal \in SUBSET Record BY JournalType DEF FileTypes
    <3>2. ASSUME NEW read \in SUBSET Journal PROVE Older(Rebuilt(read))
      <4>1. RecordsOf(Rebuilt(read)) \subseteq Journal
        BY <3>1, RebuiltTable
      <4>2. \A r \in Rebuilt(read) : RecordOf(r) \in Journal /\ RecordOf(r).position = r.position
        BY <4>1 DEF RecordsOf, RecordOf
      <4>3. QED BY <1>1, <4>2
    <3>3. /\ rows' = rows
          /\ session' = rows \/ \E read \in SUBSET Journal : session' = Rebuilt(read)
      BY <2>2, BootsStartUp DEF StartsUp
    <3> HIDE DEF Older
    <3>4. QED BY <1>1, <3>2, <3>3
  <2>3. CASE CommitStartup BY <1>1, <2>3 DEF CommitStartup
  <2>4. CASE Crash BY <1>1, <2>4 DEF Crash
  <2>5. CASE LoseDatabase BY <1>1, <2>5 DEF LoseDatabase
  <2>6. ASSUME NEW p \in 0..MaxEvents, RestoreBackup(p) PROVE rows' \subseteq rows /\ session' = session
    BY <2>6 DEF RestoreBackup
  <2>7. QED BY <1>1, <1>2, <2>1, <2>2, <2>3, <2>4, <2>5, <2>6, TablesStep
<1>4. Older(Journal')
  <2>1. Journal' \subseteq Journal \cup batch
    BY JournalGrows, FreshType DEF FileTypes, ProcessTypes
  <2>2. QED BY <1>1, <2>1
<1>5. Older(batch')
  <2>1. CASE ReconcilePage /\ NextPage # {}
    <3>1. OnePerPosition(session) BY DEF Tables, TablesUnique
    <3>2. batch' \in SUBSET RecordsOf(session)
      BY <2>1, <3>1, PageRead DEF ProcessTypes
    <3>3. \A e \in RecordsOf(session) : \E r \in session : r.position = e.position
      BY DEF RecordsOf, RecordOf
    <3>4. QED BY <1>1, <3>2, <3>3
  <2>2. QED BY <1>1, <2>1, QueueStep
<1>6. \A b \in pending' : Older(b.events)
  BY <1>1, <1>2, QueueStep
<1>7. QED
  BY <1>3, <1>4, <1>5, <1>6 DEF Bounded, Born

LEMMA PhaseStep ==
  ASSUME [Next]_vars
  PROVE  \/ Boots \/ CommitStartup \/ Crash
         \/ phase' = phase /\ session' = session /\ (phase = "start" => rows' = rows)
<1> USE DEF files, process, writer, history, vars
<1>1. CASE HolderStep
  <2>1. ASSUME NEW from, NEW to, LinkArchive(from, to)
        PROVE  phase' = phase /\ session' = session /\ rows' = rows
    BY <2>1 DEF LinkArchive
  <2>2. ASSUME NEW from, NEW to, UnlinkActive(from, to)
        PROVE  phase' = phase /\ session' = session /\ rows' = rows
    BY <2>2 DEF UnlinkActive
  <2>3. RecoverLinkedRotation \/ SelectEvents \/ AppendEvents =>
          phase' = phase /\ session' = session /\ rows' = rows
    BY DEF RecoverLinkedRotation, SelectEvents, AppendEvents
  <2>4. QED BY <1>1, <2>1, <2>2, <2>3 DEF HolderStep, RotateFirst, RotateLast
<1>2. CASE PlanDrain \/ ReconcilePage \/ WriteCheckpoint
  BY <1>2 DEF PlanDrain, ReconcilePage, WriteCheckpoint
<1>3. CASE ~HolderStep /\ ~StartupStep /\ ~Boots /\ ~Crash
  BY <1>3 DEF Next, Boots, CommitEvents, TakeLock, ObserverFails, AppendTears, LoseDatabase,
     RestoreBackup, MisreadCheckpoint
<1>4. QED BY <1>1, <1>2, <1>3 DEF StartupStep

LEMMA StartTableStep ==
  ASSUME FileTypes, Twins, LockHolder, StartTable, [Next]_vars
  PROVE  StartTable'
<1>1. Journal \subseteq Journal'
  BY JournalGrows DEF FileTypes
<1>2. CASE Boots
  <2>1. Journal \in SUBSET Record BY JournalType DEF FileTypes
  <2>2. \A read \in SUBSET Journal : RecordsOf(Rebuilt(read)) \subseteq Journal'
    BY <1>1, <2>1, RebuiltTable
  <2>3. /\ rows' = rows
        /\ \/ session' = rows
           \/ rows = {} /\ \E read \in SUBSET Journal : session' = Rebuilt(read)
    BY <1>2, BootsStartUp DEF StartsUp
  <2>4. CASE session' = rows BY <2>3, <2>4 DEF StartTable, RecordsOf
  <2>5. CASE rows = {} /\ \E read \in SUBSET Journal : session' = Rebuilt(read)
    <3>1. RecordsOf(session') \subseteq Journal' BY <2>2, <2>5
    <3>2. QED BY <2>3, <2>5, <3>1 DEF StartTable, RecordsOf
  <2>6. QED BY <2>3, <2>4, <2>5
<1>3. CASE phase' # "start"
  BY <1>3 DEF StartTable
<1>4. CASE phase' = phase /\ session' = session /\ phase = "start" /\ rows' = rows
  BY <1>1, <1>4 DEF StartTable, RecordsOf
<1>5. QED
  BY <1>2, <1>3, <1>4, PhaseStep DEF CommitStartup, Crash

(* Only a start that found no table has misread the journal.               *)
LEMMA MisreadStep ==
  ASSUME MisreadKnown, [Next]_vars
  PROVE  MisreadKnown'
<1> USE DEF MisreadKnown, files, process, writer, history, vars
<1>1. CASE CommitStartup
  BY <1>1 DEF CommitStartup
<1>2. CASE Crash
  BY <1>2 DEF Crash
<1>3. CASE Bootstrap
  BY <1>3 DEF Bootstrap
<1>4. ASSUME NEW unread \in SUBSET Journal, BootstrapMisreads(unread) PROVE MisreadKnown'
  BY <1>4 DEF BootstrapMisreads
<1>5. ASSUME phase' = phase, misread' = misread,
             rows' = rows \/ phase # "start" PROVE MisreadKnown'
  BY <1>5
<1>6. CASE HolderStep
  <2>1. ASSUME NEW from, NEW to, LinkArchive(from, to) \/ UnlinkActive(from, to)
        PROVE  phase' = phase /\ misread' = misread /\ rows' = rows
    BY <2>1 DEF LinkArchive, UnlinkActive
  <2>2. phase' = phase /\ misread' = misread /\ rows' = rows
    BY <1>6, <2>1 DEF HolderStep, RotateFirst, RotateLast, RecoverLinkedRotation,
       SelectEvents, AppendEvents
  <2>3. QED BY <1>5, <2>2
<1>7. CASE PlanDrain \/ ReconcilePage \/ WriteCheckpoint \/ MisreadCheckpoint
  BY <1>5, <1>7 DEF PlanDrain, ReconcilePage, WriteCheckpoint, MisreadCheckpoint
<1>8. CASE ~HolderStep /\ ~StartupStep /\ ~MisreadCheckpoint /\ ~Boots /\ ~Crash
  <2>1. phase' = phase /\ misread' = misread /\ (rows' = rows \/ phase # "start")
    BY <1>8 DEF Next, Boots, CommitEvents, TakeLock, ObserverFails, AppendTears,
       LoseDatabase, RestoreBackup
  <2>2. QED BY <1>5, <2>1
<1>9. QED
  BY <1>1, <1>2, <1>3, <1>4, <1>6, <1>7, <1>8 DEF StartupStep, Boots

-----------------------------------------------------------------------------
(* Every step keeps the one history of table and journal.                  *)

Typed == TableTypes /\ FileTypes /\ ProcessTypes /\ StepType
Files == Segments /\ Twins /\ DrainAhead /\ EachPositionOnce
Base  == Typed /\ Tables /\ Holder /\ Files /\ StartTable /\ MisreadKnown

LEMMA BaseStep ==
  ASSUME Base, [Next]_vars
  PROVE  Base'
<1> USE DEF Base, Typed, Files, Holder
<1>1. TableTypes' /\ TablesUnique' /\ VersionsCount'
  BY TableTypesStep
<1>2. FileTypes' /\ ProcessTypes' /\ StepType'
  BY FileTypesStep, ProcessTypesStep, StepTypeStep
<1>3. LockHolder' /\ FrontierKnown'
  BY <1>1, LockHolderStep, FrontierStep
<1>4. Bounded'
  BY BoundedStep
<1>5. Segments' /\ Twins' /\ DrainAhead' /\ EachPositionOnce'
  BY SegmentsStep, TwinsStep, DrainAheadStep, OnceStep
<1>6. StartTable' /\ MisreadKnown'
  BY StartTableStep, MisreadStep
<1>7. QED BY <1>1, <1>2, <1>3, <1>4, <1>5, <1>6 DEF Tables

(* A misread is over only with the start it concerns.                      *)
LEMMA MisreadStays ==
  ASSUME [Next]_vars, ~Boots, ~CommitStartup, ~Crash
  PROVE  misread' = misread
<1> USE DEF files, process, writer, history, vars
<1>1. CASE HolderStep
  <2>1. ASSUME NEW from, NEW to, LinkArchive(from, to) \/ UnlinkActive(from, to)
        PROVE  misread' = misread
    BY <2>1 DEF LinkArchive, UnlinkActive
  <2>2. QED
    BY <1>1, <2>1 DEF HolderStep, RotateFirst, RotateLast, RecoverLinkedRotation,
       SelectEvents, AppendEvents
<1>2. CASE StartupStep
  BY <1>2 DEF StartupStep, PlanDrain, ReconcilePage, WriteCheckpoint
<1>3. CASE ~HolderStep /\ ~StartupStep
  BY <1>3 DEF Next, Boots, CommitEvents, TakeLock, MisreadCheckpoint, ObserverFails,
     AppendTears, LoseDatabase, RestoreBackup
<1>4. QED BY <1>1, <1>2, <1>3

(* A backup starts another history, as the commit of a misread does, and   *)
(* nothing ends it.                                                        *)
LEMMA HistoryStep ==
  ASSUME ProcessTypes, [Next]_vars, OneHistory'
  PROVE  /\ OneHistory /\ ~ \E p \in 0..MaxEvents : RestoreBackup(p)
         /\ CommitStartup => misread # "start"
<1> USE DEF files, process, writer, history, vars, OneHistory
<1>1. restores \in Nat
  BY JournalAssumption DEF ProcessTypes
<1>2. ASSUME NEW p \in 0..MaxEvents, RestoreBackup(p) PROVE FALSE
  BY <1>1, <1>2 DEF RestoreBackup
<1>3. ASSUME NEW from, NEW to, LinkArchive(from, to) \/ UnlinkActive(from, to)
      PROVE  restores' = restores
  BY <1>3 DEF LinkArchive, UnlinkActive
<1>4. HolderStep => restores' = restores
  BY <1>3 DEF HolderStep, RotateFirst, RotateLast, RecoverLinkedRotation, SelectEvents,
     AppendEvents
<1>5. StartupStep => restores' = restores
  BY DEF StartupStep, PlanDrain, ReconcilePage, WriteCheckpoint, CommitStartup
<1>6. ASSUME ~HolderStep, ~StartupStep, ~ \E p \in 0..MaxEvents : RestoreBackup(p)
      PROVE  restores' = restores
  BY <1>6 DEF Next, CommitEvents, TakeLock, Bootstrap, BootstrapMisreads, MisreadCheckpoint,
     ObserverFails, AppendTears, Crash, LoseDatabase
<1>7. restores' = restores /\ ~ \E p \in 0..MaxEvents : RestoreBackup(p)
  BY <1>2, <1>4, <1>5, <1>6
<1>8. ASSUME misread = "table" PROVE misread' = "table"
  <2>1. CASE CommitStartup \/ Crash \/ Boots
    BY <1>8, <2>1 DEF CommitStartup, Crash, Boots, Bootstrap, BootstrapMisreads
  <2>2. QED BY <1>8, <2>1, MisreadStays
<1>9. CommitStartup => misread # "start"
  BY DEF CommitStartup
<1>10. QED BY <1>7, <1>8, <1>9

(* Position by position, the journal's record is the table's.              *)
LEMMA SamePosition ==
  ASSUME NEW table \in SUBSET Stored, OnePerPosition(table),
         Journal \subseteq RecordsOf(table),
         NEW e \in RecordsOf(table), NEW d \in Journal, d.position = e.position
  PROVE  e \in Journal
<1>1. OnePerPosition(RecordsOf(table))
  BY RowRecords
<1>2. d = e
  BY <1>1 DEF OnePerPosition
<1>3. QED BY <1>2

LEMMA OneJournalStep ==
  ASSUME Base, OneJournal, [Next]_vars
  PROVE  OneJournal'
<1> SUFFICES ASSUME OneHistory' PROVE OneJournal'
  BY DEF OneJournal
<1> USE DEF Base, Typed, Holder, Files, Tables
<1>1. /\ OneHistory /\ ~ \E p \in 0..MaxEvents : RestoreBackup(p)
      /\ CommitStartup => misread # "start"
      /\ misread \in {"no", "start"}
  BY HistoryStep DEF OneHistory, MisreadKnown
<1>2. /\ OnePerPosition(Journal)
      /\ phase = "down" /\ rows # {} => Journal \subseteq RecordsOf(rows)
      /\ phase = "start" =>
           /\ batch \subseteq RecordsOf(session)
           /\ misread = "no" => Journal \subseteq RecordsOf(session)
           /\ misread = "start" => RecordsOf(session) \subseteq Journal
      /\ phase = "serving" =>
           /\ Journal \cup batch \subseteq RecordsOf(rows)
           /\ \A b \in pending : b.events \subseteq RecordsOf(rows)
      /\ rows = {} /\ lost # {} => Journal \subseteq RecordsOf(lost)
  BY <1>1 DEF OneJournal, MisreadKnown, StartTable
<1>3. /\ Journal \subseteq Journal' /\ Journal' \subseteq Journal \cup batch
      /\ step # "append" => Journal' = Journal
  BY JournalGrows, FreshType DEF FileTypes, ProcessTypes
<1>4. step = "append" => phase \in {"start", "serving"}
  BY DEF LockHolder, ProcessTypes
<1>5. /\ rows \in SUBSET Stored /\ session \in SUBSET Stored
      /\ OnePerPosition(rows) /\ OnePerPosition(session)
  BY DEF TableTypes, TablesUnique
<1>6. OnePerPosition(Journal')
  <2>1. OnePerPosition(RecordsOf(rows)) /\ OnePerPosition(RecordsOf(session))
    BY <1>5, RowRecords
  <2>2. Journal' = Journal \/ Journal' \subseteq RecordsOf(rows)
        \/ Journal' \subseteq RecordsOf(session)
    BY <1>1, <1>2, <1>3, <1>4
  <2>3. QED BY <1>2, <2>1, <2>2 DEF OnePerPosition
<1> USE DEF files, process, writer, history, vars
<1>7. CASE Boots
  <2>1. /\ Journal' = Journal /\ batch' = {} /\ rows' = rows /\ lost' = lost
        /\ phase' = "start" /\ phase = "down"
    BY <1>3, <1>7, BootsStartUp DEF StartsUp, LockHolder
  <2>2. misread' = "no" => Journal \subseteq RecordsOf(session')
    <3>1. ASSUME misread' = "no" PROVE Bootstrap
      BY <1>7, <3>1 DEF Boots, BootstrapMisreads
    <3>2. CASE Bootstrap /\ rows = {}
      <4>1. Journal \in SUBSET Record BY JournalType DEF FileTypes
      <4>2. RecordsOf(Rebuilt(Journal)) = Journal BY <1>2, <4>1, RebuiltTable
      <4>3. QED BY <3>2, <4>2 DEF Bootstrap, ReadableRecords
    <3>3. CASE Bootstrap /\ rows # {} BY <1>2, <2>1, <3>3 DEF Bootstrap
    <3>4. QED BY <3>1, <3>2, <3>3
  <2>3. QED BY <1>2, <1>6, <2>1, <2>2 DEF OneJournal, RecordsOf
<1>8. CASE CommitStartup
  <2>1. /\ Journal' = Journal /\ batch' = {} /\ pending' = {} /\ phase' = "serving"
        /\ rows' = session /\ lost' = lost /\ phase = "start" /\ misread = "no"
    BY <1>1, <1>3, <1>8 DEF CommitStartup, LockHolder, ProcessTypes
  <2>2. rows' = {} => rows = {}
    BY <2>1 DEF StartTable
  <2>3. QED BY <1>2, <1>6, <2>1, <2>2 DEF OneJournal, RecordsOf
<1>9. CASE Crash
  <2>1. phase' = "down" /\ rows' = rows /\ lost' = lost /\ Kept
    BY <1>9 DEF Crash, Kept
  <2>2. Journal' = Journal
    BY <2>1, JournalMembers DEF Kept
  <2>3. rows # {} => Journal \subseteq RecordsOf(rows)
    BY <1>1, <1>2 DEF StartTable, ProcessTypes, MisreadKnown
  <2>4. QED BY <1>2, <1>6, <2>1, <2>2, <2>3 DEF OneJournal, RecordsOf
<1>10. CASE LoseDatabase
  <2>1. /\ phase = "down" /\ phase' = "down" /\ rows # {} /\ lost' = rows /\ rows' = {}
        /\ step # "append"
    BY <1>10 DEF LoseDatabase, LockHolder
  <2>2. Journal' = Journal /\ Journal \subseteq RecordsOf(rows)
    BY <1>2, <1>3, <2>1
  <2>3. QED BY <1>6, <2>1, <2>2 DEF OneJournal, RecordsOf
<1>11. ASSUME phase' = phase, session' = session, lost' = lost,
              rows' = rows \/ (phase = "serving" /\ rows \subseteq rows'),
              ~Boots, ~CommitStartup, ~Crash
       PROVE  OneJournal'
  <2>1. rows' = {} => rows = {}
    BY <1>11
  <2>2. \A table : RecordsOf(table)' = RecordsOf(table)
    OBVIOUS
  <2>3. phase' = "down" /\ rows' # {} => Journal' \subseteq RecordsOf(rows)
    BY <1>2, <1>3, <1>4, <1>11
  <2>4. phase' = "start" =>
          /\ batch' \subseteq RecordsOf(session)
          /\ misread' = "no" => Journal' \subseteq RecordsOf(session)
    <3> SUFFICES ASSUME phase' = "start" PROVE batch' \subseteq RecordsOf(session)
      <4>1. ASSUME phase = "start", misread' = "no" PROVE misread = "no"
        BY <1>11, <4>1, MisreadStays
      <4>2. QED BY <1>2, <1>3, <1>11, <4>1
    <3>1. CASE ReconcilePage /\ NextPage # {}
      BY <1>5, <3>1, PageRead DEF ProcessTypes
    <3>2. ~ \E b \in pending : TakeLock(b)
      BY <1>11 DEF TakeLock
    <3>3. QED BY <1>2, <1>11, <3>1, <3>2, QueueStep
  <2>5. RecordsOf(rows) \subseteq RecordsOf(rows')
    BY <1>11 DEF RecordsOf
  <2>6. phase' = "serving" => Journal' \cup batch' \subseteq RecordsOf(rows')
    <3> SUFFICES ASSUME phase' = "serving" PROVE batch' \subseteq RecordsOf(rows)
      BY <1>2, <1>3, <1>11, <2>5
    <3>1. ~ReconcilePage
      BY <1>11 DEF ReconcilePage, LockHolder
    <3>2. QED BY <1>2, <1>11, <3>1, QueueStep
  <2>7. phase' = "serving" => \A b \in pending' : b.events \subseteq RecordsOf(rows')
    <3>1. ASSUME NEW run \in Runs, NEW n \in 1..MaxCommit, CommitEvents(run, n)
          PROVE  \A b \in pending' : b \in pending \/ b.events \subseteq RecordsOf(rows')
      BY <3>1 DEF CommitEvents, RecordsOf
    <3>2. QED BY <1>2, <1>11, <2>5, <3>1, QueueStep
  <2>8. rows' = {} /\ lost' # {} => Journal' \subseteq RecordsOf(lost)
    <3> SUFFICES ASSUME rows' = {}, lost' # {} PROVE Journal' \subseteq RecordsOf(lost)
      OBVIOUS
    <3>1. rows = {} /\ Journal \subseteq RecordsOf(lost)
      BY <1>2, <1>11, <2>1
    <3>2. phase = "start" => batch \subseteq Journal
      BY <1>2, <3>1 DEF StartTable
    <3>3. phase = "serving" => batch = {}
      BY <1>2, <3>1 DEF RecordsOf
    <3>4. QED BY <1>3, <1>4, <3>1, <3>2, <3>3
  <2>9. QED
    BY <1>6, <1>11, <2>3, <2>4, <2>6, <2>7, <2>8 DEF OneJournal, RecordsOf
<1>12. ASSUME ~Boots, ~CommitStartup, ~Crash, ~LoseDatabase
       PROVE  /\ phase' = phase /\ session' = session /\ lost' = lost
              /\ rows' = rows \/ (phase = "serving" /\ rows \subseteq rows')
  <2>1. phase' = phase /\ session' = session
    BY <1>12, PhaseStep
  <2>2. SameTables \/ \E run \in Runs, n \in 1..MaxCommit : CommitEvents(run, n)
    BY <1>1, <1>12, TablesStep
  <2>3. QED BY <2>1, <2>2 DEF SameTables, CommitEvents
<1>13. QED
  BY <1>7, <1>8, <1>9, <1>10, <1>11, <1>12

-----------------------------------------------------------------------------
(* The drain, and the checkpoint it ends with.                             *)

LEMMA ReconciledIsThere ==
  ASSUME Base, OneJournal, OneHistory, phase = "start",
         NEW e \in RecordsOf(session), Reconciled(e)
  PROVE  e \in Journal
<1>1. \E d \in Journal : d.position = e.position
  BY JournalMembers DEF Reconciled, WrittenInActive, PositionsOf
<1>2. /\ session \in SUBSET Stored /\ OnePerPosition(session)
      /\ misread = "no" => Journal \subseteq RecordsOf(session)
  BY DEF Base, Typed, TableTypes, Tables, TablesUnique, OneJournal
<1>3. CASE misread = "no"
  BY <1>1, <1>2, <1>3, SamePosition
<1>4. CASE misread # "no"
  <2>1. rows = {} BY <1>4 DEF Base, MisreadKnown, OneHistory
  <2>2. QED BY <2>1 DEF Base, StartTable
<1>5. QED BY <1>3, <1>4

LEMMA DrainedStep ==
  ASSUME Base, OneJournal, Drained, [Next]_vars
  PROVE  Drained'
<1> SUFFICES ASSUME OneHistory', phase' = "start" PROVE Drained'
  BY DEF Drained
<1> USE DEF files, process, writer, history, vars
<1>1. OneHistory /\ ~ \E p \in 0..MaxEvents : RestoreBackup(p)
  BY HistoryStep DEF Base, Typed
<1>2. Journal \subseteq Journal'
  BY JournalGrows DEF Base, Typed, FileTypes, Files
<1>3. ASSUME step' \in {"plan", "failed", "commit"} PROVE Drained'
  BY <1>3 DEF Drained
<1>4. CASE Boots
  BY <1>3, <1>4, BootsStartUp DEF StartsUp
<1>5. ASSUME ~Boots
      PROVE  phase = "start" /\ session' = session
  BY <1>5, PhaseStep DEF CommitStartup, Crash
<1>6. ASSUME checkpoint' = checkpoint, session' = session
      PROVE  DrainFrom' = DrainFrom
  BY <1>6 DEF DrainFrom, ClampedTail, Lesser, Head
<1>7. ASSUME phase = "start"
      PROVE  /\ step = "recover" => cursor = DrainFrom
             /\ step \in {"page", "seal", "drop"} =>
                  \A r \in session : Passed(r) => RecordOf(r) \in Journal
             /\ step = "append" =>
                  \A r \in session : Passed(r) => RecordOf(r) \in Journal \cup batch
  BY <1>1, <1>7 DEF Drained
<1>8. ASSUME phase = "start", session' = session, checkpoint' = checkpoint,
             cursor' = cursor, step' \in {"page", "seal", "drop"},
             \A r \in session : Passed(r) => RecordOf(r) \in Journal'
      PROVE  Drained'
  <2>1. DrainFrom' = DrainFrom BY <1>6, <1>8
  <2>2. \A r \in session' : Passed(r)' => RecordOf(r) \in Journal'
    BY <1>8, <2>1 DEF Passed
  <2>3. QED BY <1>8, <2>2 DEF Drained
<1>9. /\ DrainFrom \in 0..MaxEvents /\ cursor \in 0..MaxEvents
      /\ OnePerPosition(session) /\ TableTypes
      /\ \A r \in session : r.position \in Int
  BY ClampedType DEF Base, Typed, TableTypes, ProcessTypes, Holder, Tables, TablesUnique,
     Stored, Position
<1>10. CASE RecoverLinkedRotation
  <2>1. phase = "start" /\ session' = session /\ step = "recover"
    BY <1>5, <1>10 DEF Boots, Bootstrap, BootstrapMisreads, RecoverLinkedRotation
  <2>2. \A r \in session : ~Passed(r)
    BY <1>7, <1>9, <2>1 DEF Passed
  <2>3. QED BY <1>8, <1>10, <2>1, <2>2 DEF RecoverLinkedRotation
<1>11. CASE SelectEvents
  <2>1. phase # "start" /\ phase' = phase
    BY <1>11 DEF SelectEvents, Base, Holder, LockHolder
  <2>2. QED BY <2>1
<1>12. CASE AppendEvents
  <2>1. /\ phase = "start" /\ session' = session /\ step = "append" /\ checkpoint' = checkpoint
        /\ step' \in {"seal", "page"}
    BY <1>5, <1>12 DEF Boots, Bootstrap, BootstrapMisreads, AppendEvents, Released
  <2>2. cursor' = cursor
    BY <1>12, <2>1 DEF AppendEvents
  <2>3. active' = active \cup Fresh
    BY <1>12 DEF AppendEvents, WriteActive, Appended
  <2>4. Fresh \subseteq Journal'
    BY <2>3, JournalMembers
  <2>5. ASSUME NEW r \in session, Passed(r) PROVE RecordOf(r) \in Journal'
    <3>1. RecordOf(r) \in Journal \cup batch BY <1>7, <2>1, <2>5
    <3>2. CASE RecordOf(r) \in batch /\ Reconciled(RecordOf(r))
      <4>1. RecordOf(r) \in RecordsOf(session) BY DEF RecordsOf
      <4>2. QED BY <1>1, <1>2, <2>1, <3>2, <4>1, ReconciledIsThere
    <3>3. CASE RecordOf(r) \in batch /\ ~Reconciled(RecordOf(r))
      BY <2>1, <2>4, <3>3 DEF Fresh
    <3>4. QED BY <1>2, <3>1, <3>2, <3>3
  <2>6. QED BY <1>8, <2>1, <2>2, <2>5
<1>13. CASE RotateFirst
  <2>1. phase # "start" /\ phase' = phase
    BY <1>13 DEF RotateFirst, LinkArchive, UnlinkActive, Base, Holder, LockHolder
  <2>2. QED BY <2>1
<1>14. CASE LinkArchive("seal", "drop")
  <2>1. phase = "start" /\ session' = session
    BY <1>5, <1>14 DEF Boots, Bootstrap, BootstrapMisreads, LinkArchive
  <2>2. QED BY <1>2, <1>7, <1>8, <1>14, <2>1 DEF LinkArchive
<1>15. CASE UnlinkActive("drop", Released)
  <2>1. phase = "start" /\ session' = session
    BY <1>5, <1>15 DEF Boots, Bootstrap, BootstrapMisreads, UnlinkActive
  <2>2. Released = "page" BY <2>1 DEF Released
  <2>3. QED BY <1>2, <1>7, <1>8, <1>15, <2>1, <2>2 DEF UnlinkActive
<1>16. CASE PlanDrain \/ MisreadCheckpoint
  <2>1. CASE step' = "commit" BY <1>3, <2>1
  <2>2. CASE step' # "commit"
    <3>1. step' = "recover" /\ cursor' = DrainFrom /\ checkpoint' = checkpoint /\ session' = session
      BY <1>16, <2>2 DEF PlanDrain, MisreadCheckpoint, AdoptJournal
    <3>2. cursor' = DrainFrom' BY <1>6, <3>1
    <3>3. QED BY <3>1, <3>2 DEF Drained
  <2>3. QED BY <2>1, <2>2
<1>17. CASE ReconcilePage
  <2>1. /\ phase = "start" /\ session' = session /\ checkpoint' = checkpoint /\ step = "page"
        /\ UNCHANGED files
    BY <1>5, <1>17 DEF Boots, Bootstrap, BootstrapMisreads, ReconcilePage
  <2>2. DrainFrom' = DrainFrom BY <1>6, <2>1
  <2>3. \A r \in session : Passed(r) => RecordOf(r) \in Journal'
    BY <1>2, <1>7, <2>1
  <2>4. CASE NextPage = {}
    <3>1. \A r \in session : r.position <= cursor
      BY <1>9, <2>4, PageIsNext DEF TableTypes
    <3>2. step' = "checkpoint" BY <1>17, <2>4 DEF ReconcilePage
    <3>3. \A r \in session' : DrainFrom' < r.position => RecordOf(r) \in Journal'
      BY <2>1, <2>2, <2>3, <3>1 DEF Passed
    <3>4. QED BY <3>2, <3>3 DEF Drained
  <2>5. CASE NextPage # {}
    <3>1. /\ step' \in {"page", "append"}
          /\ \A r \in session :
               cursor < r.position /\ r.position <= cursor' => RecordOf(r) \in batch'
          /\ batch' \in SUBSET RecordsOf(session)
          /\ step' = "page" => \A e \in batch' : Reconciled(e)
      BY <1>9, <1>17, <2>5, PageRead
    <3>2. \A r \in session : DrainFrom < r.position /\ r.position <= cursor' =>
            RecordOf(r) \in Journal' \cup batch'
      BY <1>9, <2>3, <3>1 DEF Passed
    <3>3. step' = "page" => batch' \subseteq Journal'
      BY <1>1, <1>2, <2>1, <3>1, ReconciledIsThere
    <3>4. \A r \in session' : Passed(r)' => RecordOf(r) \in Journal' \cup batch'
      BY <2>1, <2>2, <3>2 DEF Passed
    <3>5. QED BY <3>1, <3>3, <3>4 DEF Drained
  <2>6. QED BY <2>4, <2>5
<1>18. CASE WriteCheckpoint
  BY <1>3, <1>18 DEF WriteCheckpoint
<1>19. ASSUME NEW p \in 0..MaxEvents, AppendTears(p) PROVE Drained'
  BY <1>3, <1>19 DEF AppendTears
<1>20. ASSUME NEW b \in pending, TakeLock(b) PROVE FALSE
  BY <1>20 DEF TakeLock
<1>21. ASSUME NEW run \in Runs, NEW n \in 1..MaxCommit, CommitEvents(run, n) PROVE FALSE
  BY <1>21 DEF CommitEvents
<1>22. CASE CommitStartup \/ ObserverFails \/ Crash \/ LoseDatabase
  BY <1>22 DEF CommitStartup, ObserverFails, Crash, LoseDatabase
<1>23. CASE UNCHANGED vars
  <2>1. DrainFrom' = DrainFrom BY <1>6, <1>23
  <2>2. Journal' = Journal BY <1>23, JournalMembers
  <2>3. \A r : Passed(r)' = Passed(r) BY <1>23, <2>1 DEF Passed
  <2>4. QED BY <1>1, <1>23, <2>1, <2>2, <2>3 DEF Drained
<1>24. QED
  <2> HIDE DEF vars
  <2>1. CASE HolderStep
    BY <1>10, <1>11, <1>12, <1>13, <1>14, <1>15, <2>1 DEF HolderStep, RotateLast
  <2>2. CASE StartupStep
    BY <1>16, <1>17, <1>18, <1>22, <2>2 DEF StartupStep
  <2>3. QED
    BY <1>1, <1>4, <1>16, <1>19, <1>20, <1>21, <1>22, <1>23, <2>1, <2>2 DEF Next, Boots

(* What lies outside the legacy range of a clamped checkpoint and up to    *)
(* its tail lies outside that of the checkpoint.                           *)
LEMMA ClampedRange ==
  ASSUME checkpoint \in Frontier, session \in SUBSET Stored, FrontierKnown,
         checkpoint # NoCheckpoint, NEW r \in session, r.position <= ClampedTail,
         Clamped.legacy = 0 \/ r.position <= Clamped.verified \/ Clamped.legacy < r.position
  PROVE  r.position <= checkpoint.tail /\ OutsideLegacy(r)
<1>1. /\ ClampedTail \in 0..MaxEvents /\ ClampedTail <= checkpoint.tail
      /\ checkpoint.tail \in Int
  BY ClampedType DEF Frontier
<1>2. /\ checkpoint.verified \in 0..MaxEvents /\ checkpoint.legacy \in 0..MaxEvents
      /\ r.position \in 1..MaxEvents
  BY DEF Frontier, FrontierKnown, Stored, Position
<1>3. /\ Clamped.verified = Lesser(checkpoint.verified, ClampedTail)
      /\ Clamped.legacy = IF Lesser(checkpoint.legacy, ClampedTail)
                             <= Lesser(checkpoint.verified, ClampedTail)
                          THEN 0 ELSE Lesser(checkpoint.legacy, ClampedTail)
  BY DEF Clamped, Frontiers
<1> HIDE DEF Clamped
<1>4. r.position <= checkpoint.verified \/ checkpoint.legacy < r.position
  BY <1>1, <1>2, <1>3, JournalAssumption DEF Lesser
<1>5. QED BY <1>1, <1>2, <1>4 DEF OutsideLegacy

LEMMA CheckpointStep ==
  ASSUME Base, OneJournal, Drained, CheckpointIsTrue, [Next]_vars
  PROVE  CheckpointIsTrue'
<1> SUFFICES ASSUME OneHistory', checkpoint' # NoCheckpoint, NEW r \in rows',
                    r.position <= checkpoint'.tail, OutsideLegacy(r)'
             PROVE  RecordOf(r) \in Journal'
  BY DEF CheckpointIsTrue
<1> USE DEF files, process, writer, history, vars
<1>1. OneHistory /\ ~ \E p \in 0..MaxEvents : RestoreBackup(p)
  BY HistoryStep DEF Base, Typed
<1>2. Journal \subseteq Journal'
  BY JournalGrows DEF Base, Typed, FileTypes, Files
<1>3. /\ checkpoint \in Frontier /\ session \in SUBSET Stored /\ rows \in SUBSET Stored
      /\ FrontierKnown
  BY DEF Base, Typed, TableTypes, ProcessTypes, Holder
<1>4. ASSUME checkpoint' = checkpoint, r \in rows
      PROVE  RecordOf(r) \in Journal'
  <2>1. OutsideLegacy(r) BY <1>4 DEF OutsideLegacy
  <2>2. QED BY <1>1, <1>2, <1>4, <2>1 DEF CheckpointIsTrue
<1>5. ASSUME phase = "start", r \in session, rows = {}
      PROVE  RecordOf(r) \in Journal'
  BY <1>2, <1>5 DEF Base, StartTable, RecordsOf
<1>6. ASSUME NEW run \in Runs, NEW n \in 1..MaxCommit, CommitEvents(run, n)
      PROVE  RecordOf(r) \in Journal'
  <2>1. checkpoint' = checkpoint /\ checkpoint.tail <= Head(rows)
    BY <1>3, <1>6 DEF CommitEvents, FrontierKnown
  <2>2. CASE r \in rows BY <1>4, <2>1, <2>2
  <2>3. CASE r \notin rows
    <3>1. Head(rows) < r.position
      <4> DEFINE new == { [position |-> Head(rows) + k, run |-> run, id |-> born + k,
                           version |-> LastVersion(run) + k] : k \in 1..n }
      <4>1. rows' = rows \cup new /\ born + n <= MaxEvents
        BY <1>6 DEF CommitEvents
      <4>2. \A q \in new : Head(rows) < q.position
        BY <1>3, <4>1, CommittedTable DEF Base, Typed, TableTypes, Tables, TablesUnique,
           VersionsCount, Bounded
      <4> HIDE DEF new
      <4>3. QED BY <2>3, <4>1, <4>2
    <3>2. Head(rows) \in Int /\ r.position \in Int /\ checkpoint.tail \in Int
      <4>1. rows' \in SUBSET Stored BY BaseStep DEF Base, Typed, TableTypes
      <4>2. QED BY <1>3, <4>1, HeadIsLast DEF Frontier, Stored, Position
    <3>3. QED BY <2>1, <3>1, <3>2
  <2>4. QED BY <2>2, <2>3
<1>7. CASE CommitStartup
  <2>1. checkpoint' = checkpoint /\ rows' = session /\ phase = "start"
    BY <1>7 DEF CommitStartup, Base, Typed, ProcessTypes, Holder, LockHolder
  <2>2. CASE rows = {} BY <1>5, <2>1, <2>2
  <2>3. CASE rows # {} BY <1>4, <2>1, <2>3 DEF Base, StartTable
  <2>4. QED BY <2>2, <2>3
<1>8. CASE PlanDrain \/ MisreadCheckpoint
  <2>1. rows' = rows /\ phase = "start"
    BY <1>8 DEF PlanDrain, MisreadCheckpoint, Base, Typed, ProcessTypes, Holder, LockHolder
  <2>2. CASE checkpoint' = checkpoint BY <1>4, <2>1, <2>2
  <2>3. CASE checkpoint' = Frontiers(0, Head(session), Head(session))
    <3>1. checkpoint'.verified = 0 /\ checkpoint'.tail = checkpoint'.legacy
      BY <2>3 DEF Frontiers
    <3>2. r.position \in Position /\ Head(session) \in Int /\ checkpoint'.tail = Head(session)
      BY <1>3, <2>1, <2>3, HeadIsLast DEF Stored, Frontiers
    <3>3. QED BY <3>1, <3>2 DEF OutsideLegacy, Position
  <2>4. QED BY <1>8, <2>2, <2>3 DEF PlanDrain, MisreadCheckpoint, AdoptJournal
<1>9. CASE WriteCheckpoint
  <2>1. rows' = rows /\ phase = "start" /\ step = "checkpoint" /\ session = rows
    BY <1>9 DEF WriteCheckpoint, Base, Typed, ProcessTypes, Holder, LockHolder, StartTable
  <2>2. \A q \in session : DrainFrom < q.position => RecordOf(q) \in Journal
    BY <1>1, <2>1 DEF Drained
  <2>3. r.position \in Position /\ r.position \in Int
    BY <1>3, <2>1 DEF Stored, Position
  <2>4. CASE checkpoint = NoCheckpoint
    <3>1. DrainFrom = 0 BY <1>3, <2>4, ClampedType
    <3>2. QED BY <1>2, <2>1, <2>2, <2>3, <3>1 DEF Position
  <2>5. CASE checkpoint # NoCheckpoint
    <3>1. ClampedTail \in Int /\ DrainFrom = ClampedTail BY <1>3, <2>5, ClampedType
    <3>2. CASE ClampedTail < r.position BY <1>2, <2>1, <2>2, <3>1, <3>2
    <3>3. CASE r.position <= ClampedTail
      <4>1. \/ Clamped.legacy = 0
            \/ checkpoint' = Frontiers(Clamped.verified, Head(session), Clamped.legacy)
        BY <1>9, <2>5 DEF WriteCheckpoint
      <4>2. Clamped.legacy = 0 \/ r.position <= Clamped.verified \/ Clamped.legacy < r.position
        BY <4>1 DEF OutsideLegacy, Frontiers
      <4>3. r.position <= checkpoint.tail /\ OutsideLegacy(r)
        BY <1>3, <2>1, <2>5, <3>3, <4>2, ClampedRange
      <4>4. QED BY <1>1, <1>2, <2>1, <2>5, <4>3 DEF CheckpointIsTrue
    <3>4. QED BY <2>3, <3>1, <3>2, <3>3
  <2>6. QED BY <2>4, <2>5
<1>10. CASE LoseDatabase
  BY <1>10 DEF LoseDatabase
<1>11. ASSUME checkpoint' = checkpoint, rows' = rows PROVE RecordOf(r) \in Journal'
  BY <1>4, <1>11
<1>12. CASE HolderStep
  <2>1. ASSUME NEW from, NEW to, LinkArchive(from, to) \/ UnlinkActive(from, to)
        PROVE  checkpoint' = checkpoint /\ rows' = rows
    BY <2>1 DEF LinkArchive, UnlinkActive
  <2>2. checkpoint' = checkpoint /\ rows' = rows
    BY <1>12, <2>1 DEF HolderStep, RotateFirst, RotateLast, RecoverLinkedRotation,
       SelectEvents, AppendEvents
  <2>3. QED BY <1>11, <2>2
<1>13. CASE ReconcilePage
  BY <1>11, <1>13 DEF ReconcilePage
<1>14. CASE ObserverFails \/ Crash \/ Boots \/ UNCHANGED vars
  BY <1>11, <1>14, BootsStartUp DEF ObserverFails, Crash, StartsUp
<1>15. ASSUME NEW p \in 0..MaxEvents, AppendTears(p) PROVE RecordOf(r) \in Journal'
  BY <1>11, <1>15 DEF AppendTears
<1>16. ASSUME NEW b \in pending, TakeLock(b) PROVE RecordOf(r) \in Journal'
  BY <1>11, <1>16 DEF TakeLock
<1>17. QED
  <2> HIDE DEF vars
  <2>1. CASE StartupStep
    BY <1>7, <1>8, <1>9, <1>13, <2>1 DEF StartupStep
  <2>2. QED
    BY <1>1, <1>6, <1>8, <1>10, <1>12, <1>14, <1>15, <1>16, <2>1 DEF Next, Boots

-----------------------------------------------------------------------------
(* The theorems.                                                           *)

IInv == Base /\ OneJournal /\ Drained /\ CheckpointIsTrue

LEMMA InitInv == Init => IInv
<1> SUFFICES ASSUME Init PROVE IInv
  OBVIOUS
<1> USE DEF Init
<1>1. PICK owner \in [1..born -> Runs] :
        LET old == { [position |-> n, run |-> owner[n], id |-> n] : n \in 1..born }
        IN  rows = Versioned(old) /\ active \in SUBSET old
  OBVIOUS
<1> DEFINE old == { [position |-> n, run |-> owner[n], id |-> n] : n \in 1..born }
<1>2. rows = Versioned(old) /\ active \subseteq old
  BY <1>1
<1>3. born \in 0..MaxEvents
  BY JournalAssumption
<1>4. old \in SUBSET Record /\ OnePerPosition(old) /\ \A e \in old : e.position <= born
  <2>1. born \in Int /\ \A n \in 1..born : n \in 1..MaxEvents /\ n <= born
    BY <1>3, JournalAssumption
  <2>2. \A n \in 1..born : owner[n] \in Runs
    OBVIOUS
  <2> HIDE DEF Init
  <2>3. old \in SUBSET Record
    BY <2>1, <2>2 DEF Record, Position
  <2>4. OnePerPosition(old)
    BY <2>1 DEF OnePerPosition
  <2>5. \A e \in old : e.position <= born
    BY <2>1
  <2>6. QED BY <2>3, <2>4, <2>5
<1> HIDE DEF old
<1>5. /\ rows \in SUBSET Stored /\ RecordsOf(rows) = old
      /\ OnePerPosition(rows) /\ Counted(rows)
  BY <1>2, <1>4, VersionedTable
<1>6. Journal = active /\ ~HasTwin
  BY DEF Journal, Archived, HasTwin
<1>7. \A r \in rows : \E e \in old : r.position = e.position
  BY <1>5, RowRecords DEF RecordOf
<1>8. Typed
  BY <1>2, <1>3, <1>4, <1>5, JournalAssumption
     DEF Typed, TableTypes, FileTypes, ProcessTypes, StepType, Frontier, NoCheckpoint, Clean
<1>9. Tables
  BY <1>2, <1>4, <1>5, <1>6, <1>7
     DEF Tables, TablesUnique, VersionsCount, Bounded, Born, OnePerPosition, Counted
<1>10. Holder /\ StartTable /\ MisreadKnown
  BY DEF Holder, LockHolder, FrontierKnown, StartTable, MisreadKnown
<1>11. Files
  BY <1>6, OnceIsApart DEF Files, Segments, Twins, DrainAhead
<1>12. OneJournal
  BY <1>2, <1>4, <1>5, <1>6 DEF OneJournal, OnePerPosition
<1>13. Drained /\ CheckpointIsTrue
  BY DEF Drained, CheckpointIsTrue
<1>14. QED BY <1>8, <1>9, <1>10, <1>11, <1>12, <1>13 DEF IInv, Base

LEMMA NextInv == IInv /\ [Next]_vars => IInv'
BY BaseStep, OneJournalStep, DrainedStep, CheckpointStep DEF IInv

(* The inductive invariant holds in every run of the journal.              *)
THEOREM JournalInvariant == Spec => []IInv
BY InitInv, NextInv, PTL DEF Spec

(* The state is well-typed: no step invents a record, a position or a      *)
(* version beyond the events that were committed.                          *)
THEOREM JournalTypes == Spec => []TypeOK
<1>1. IInv => TypeOK
  BY DEF IInv, Base, Typed, TableTypes, FileTypes, ProcessTypes, StepType, MisreadKnown, TypeOK
<1>2. QED BY <1>1, JournalInvariant, PTL

(* No position is in two segments, in spite of retries, torn appends,      *)
(* interrupted rotations and the archives the drain does not read.         *)
THEOREM EventsJournaledOnce == Spec => []EachPositionOnce
<1>1. IInv => EachPositionOnce
  BY DEF IInv, Base, Files
<1>2. QED BY <1>1, JournalInvariant, PTL

(* While the server serves one history, the journal has only events of the *)
(* table, in spite of rebuilds that misread it and failed.                 *)
THEOREM JournalMatchesTable == Spec => []JournalIsOfDatabase
<1>1. IInv => JournalIsOfDatabase
  BY DEF IInv, OneJournal, JournalIsOfDatabase, RecordsOf
<1>2. QED BY <1>1, JournalInvariant, PTL

(* The checkpoint admits every gap below its tail, whatever was lost.      *)
THEOREM CheckpointsAreTrue == Spec => []CheckpointIsTrue
<1>1. IInv => CheckpointIsTrue
  BY DEF IInv
<1>2. QED BY <1>1, JournalInvariant, PTL

(* A start that serves has delivered what earlier processes owed.          *)
THEOREM StartsDeliver == Spec => ReadyMeansDelivered
<1> DEFINE A == OneHistory /\ Ready => Delivered'
<1>1. ASSUME IInv, IInv', Next, OneHistory, Ready PROVE Delivered'
  <2>1. CommitStartup /\ phase = "start" /\ phase' = "serving"
    BY <1>1, PhaseStep, BootsStartUp DEF Ready, StartsUp, Crash
  <2>2. rows' = session /\ checkpoint' = checkpoint /\ restores' = restores
    BY <2>1 DEF CommitStartup, history
  <2>3. CASE misread = "no"
    <3>1. OneHistory'
      BY <1>1, <2>1, <2>2, <2>3 DEF CommitStartup, OneHistory
    <3>2. /\ checkpoint' # NoCheckpoint /\ checkpoint.tail = Head(session)
          /\ session \in SUBSET Stored
      BY <1>1, <2>1, <2>2
         DEF CommitStartup, IInv, Base, Typed, TableTypes, Holder, FrontierKnown
    <3>3. \A r \in rows' : r.position <= checkpoint'.tail
      BY <2>2, <3>2, HeadIsLast
    <3>4. CheckpointIsTrue'
      BY <1>1 DEF IInv
    <3>5. QED BY <3>1, <3>2, <3>3, <3>4 DEF Delivered, CheckpointIsTrue
  <2>4. CASE misread # "no"
    <3>1. rows = {}
      BY <1>1, <2>4 DEF IInv, Base, MisreadKnown, OneHistory
    <3>2. RecordsOf(session) \subseteq Journal
      BY <1>1, <2>1, <3>1 DEF IInv, Base, StartTable
    <3>3. Journal' = Journal
      BY <2>1 DEF CommitStartup, files, Journal, Archived
    <3>4. QED BY <2>2, <3>2, <3>3 DEF Delivered, RecordsOf
  <2>5. QED BY <2>3, <2>4
<1>2. IInv /\ IInv' /\ [Next]_vars => [A]_vars
  BY <1>1
<1>3. QED BY <1>2, JournalInvariant, PTL DEF Spec, ReadyMeansDelivered

(* A lost table whose events are all in the journal comes back as it was,  *)
(* with the positions and the versions it had; from a journal that could   *)
(* not be read to its end, nothing comes back that was not lost.           *)
THEOREM RebuildsAreFaithful == Spec => RebuildIsFaithful
<1> DEFINE A == OneHistory /\ Ready /\ rows = {} /\ lost # {}
                /\ { RecordOf(r) : r \in lost } \subseteq Journal
                  => /\ { RecordOf(r) : r \in rows' } \subseteq { RecordOf(r) : r \in lost }
                     /\ misread = "no" => rows' = lost
<1>1. ASSUME IInv, Next, OneHistory, Ready, rows = {}, lost # {},
             { RecordOf(r) : r \in lost } \subseteq Journal
      PROVE  /\ { RecordOf(r) : r \in rows' } \subseteq { RecordOf(r) : r \in lost }
             /\ misread = "no" => rows' = lost
  <2>1. rows' = session /\ phase = "start"
    BY <1>1, PhaseStep, BootsStartUp DEF Ready, StartsUp, Crash, CommitStartup
  <2>2. RecordsOf(session) \subseteq Journal
    BY <1>1, <2>1 DEF IInv, Base, StartTable
  <2>3. Journal \subseteq RecordsOf(lost)
    BY <1>1, <2>1 DEF IInv, OneJournal
  <2>4. RecordsOf(session) \subseteq RecordsOf(lost)
    BY <2>2, <2>3
  <2>5. ASSUME misread = "no" PROVE rows' = lost
    <3>1. Journal \subseteq RecordsOf(session)
      BY <1>1, <2>1, <2>5 DEF IInv, OneJournal
    <3>2. RecordsOf(session) = RecordsOf(lost)
      BY <1>1, <2>2, <2>3, <3>1 DEF RecordsOf
    <3>3. session = Versioned(RecordsOf(session)) /\ lost = Versioned(RecordsOf(lost))
      BY <1>1, CountedTable DEF IInv, Base, Typed, TableTypes, Tables, VersionsCount
    <3>4. QED BY <2>1, <3>2, <3>3
  <2>6. QED BY <2>1, <2>4, <2>5 DEF RecordsOf
<1>2. IInv /\ [Next]_vars => [A]_vars
  BY <1>1
<1>3. QED BY <1>2, JournalInvariant, PTL DEF Spec, RebuildIsFaithful
=============================================================================
