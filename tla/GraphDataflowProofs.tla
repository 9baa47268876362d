------------------------ MODULE GraphDataflowProofs -------------------------
(* The dynamic graph, for every set of plans, number of corrections and of *)
(* mishaps: every failure has one owner, a completed run passed, a run     *)
(* that was repaired is not failed, an accepted region stays accepted.     *)
EXTENDS GraphDataflow, FiniteSetTheorems, TLAPS

-----------------------------------------------------------------------------
(* What is reachable.                                                      *)

Closed(E, C) == \A e \in E : e[1] \in C => e[2] \in C
Closure(N, E, S) == {n \in N : \A C \in SUBSET N : S \subseteq C /\ Closed(E, C) => n \in C}
OneStep(E, T) == T \cup {e[2] : e \in {f \in E : f[1] \in T}}

(* The least set that holds S and is closed under the edges: its defining  *)
(* facts, and that one step of the search does not change it.              *)
LEMMA ClosureFacts ==
  ASSUME NEW N, NEW E \in SUBSET (N \X N), NEW S \in SUBSET N
  PROVE  /\ S \subseteq Closure(N, E, S) /\ Closure(N, E, S) \subseteq N
         /\ Closed(E, Closure(N, E, S))
         /\ \A C \in SUBSET N : S \subseteq C /\ Closed(E, C) => Closure(N, E, S) \subseteq C
         /\ OneStep(E, S) = S => Closure(N, E, S) = S
         /\ OneStep(E, S) \in SUBSET N /\ S \subseteq OneStep(E, S)
         /\ Closure(N, E, OneStep(E, S)) = Closure(N, E, S)
<1>1. S \subseteq Closure(N, E, S) /\ Closure(N, E, S) \subseteq N
  BY DEF Closure
<1>2. ASSUME NEW C \in SUBSET N, S \subseteq C, Closed(E, C)
      PROVE  Closure(N, E, S) \subseteq C
  BY <1>2 DEF Closure
<1>3. Closed(E, Closure(N, E, S))
  <2> SUFFICES ASSUME NEW e \in E, e[1] \in Closure(N, E, S)
               PROVE  e[2] \in Closure(N, E, S)
    BY DEF Closed
  <2>1. e[2] \in N OBVIOUS
  <2>2. ASSUME NEW C \in SUBSET N, S \subseteq C, Closed(E, C) PROVE e[2] \in C
    BY <2>2 DEF Closure, Closed
  <2>3. QED BY <2>1, <2>2 DEF Closure
<1>4. ASSUME OneStep(E, S) = S PROVE Closure(N, E, S) = S
  <2>1. Closed(E, S)
    BY <1>4 DEF Closed, OneStep
  <2>2. QED BY <2>1, <1>1, <1>2
<1>5. OneStep(E, S) \in SUBSET N /\ S \subseteq OneStep(E, S)
  BY DEF OneStep
<1>6. \A C \in SUBSET N : Closed(E, C) => (S \subseteq C <=> OneStep(E, S) \subseteq C)
  BY DEF Closed, OneStep
<1>7. Closure(N, E, OneStep(E, S)) = Closure(N, E, S)
  BY <1>6 DEF Closure
<1>8. QED BY <1>1, <1>2, <1>3, <1>4, <1>5, <1>7

(* The recursive function is the closure: it is the only one that          *)
(* satisfies the equation, since each call is on a larger set of nodes.    *)
LEMMA ReachIsClosure ==
  ASSUME NEW N, IsFiniteSet(N), NEW E \in SUBSET (N \X N), NEW f,
         f = [T \in SUBSET N |-> IF OneStep(E, T) = T THEN T ELSE f[OneStep(E, T)]],
         NEW S \in SUBSET N
  PROVE  f[S] = Closure(N, E, S)
<1> DEFINE Bad == {T \in SUBSET N : f[T] # Closure(N, E, T)}
           Left == {N \ T : T \in Bad}
<1> SUFFICES ASSUME Bad # {} PROVE FALSE
  OBVIOUS
<1>1. \A T \in SUBSET N : N \ T \in FiniteSubsetsOf(N)
  BY FS_Subset DEF FiniteSubsetsOf
<1>2. Left \subseteq FiniteSubsetsOf(N) /\ Left # {}
  <2>1. \A T \in Bad : N \ T \in FiniteSubsetsOf(N)
    BY <1>1
  <2>2. PICK T : T \in Bad
    OBVIOUS
  <2>3. N \ T \in Left
    BY <2>2
  <2> HIDE DEF Bad
  <2>4. \A X \in Left : X \in FiniteSubsetsOf(N)
    BY <2>1
  <2>5. QED BY <2>3, <2>4
<1>3. IsWellFoundedOn(StrictSubsetOrdering(N), FiniteSubsetsOf(N))
  BY FS_StrictSubsetOrderingWellFounded
<1> HIDE DEF Left
<1>4. PICK X \in Left : \A Y \in Left : ~ (<<Y, X>> \in StrictSubsetOrdering(N))
  BY <1>2, <1>3, WFMin
<1>5. PICK T \in Bad : X = N \ T
  BY DEF Left
<1>6. T \in SUBSET N
  OBVIOUS
<1> DEFINE more == OneStep(E, T)
<1>7. /\ more \in SUBSET N /\ T \subseteq more
      /\ more = T => Closure(N, E, T) = T
      /\ Closure(N, E, more) = Closure(N, E, T)
  <2> HIDE DEF Bad
  <2>1. QED BY <1>6, ClosureFacts
<1> HIDE DEF more
<1>8. f[T] = IF more = T THEN T ELSE f[more]
  BY <1>6 DEF more
<1>9. more # T /\ more \in Bad
  BY <1>7, <1>8, <1>6
<1>10. N \ more \in Left
  BY <1>9 DEF Left
<1>11. <<N \ more, N \ T>> \in StrictSubsetOrdering(N)
  BY <1>6, <1>7, <1>9 DEF StrictSubsetOrdering
<1>12. QED BY <1>4, <1>5, <1>10, <1>11

(* In a finite graph, what is reachable from S is the least set that holds *)
(* S and is closed under the edges: the fixpoint that the breadth-first    *)
(* searches of _downstream_node_ids compute.                               *)
THEOREM ReachableIsClosure ==
  ASSUME NEW N, IsFiniteSet(N), NEW E \in SUBSET (N \X N), NEW S \in SUBSET N
  PROVE  /\ S \subseteq Reachable(N, E, S) /\ Reachable(N, E, S) \subseteq N
         /\ Closed(E, Reachable(N, E, S))
         /\ \A C \in SUBSET N : S \subseteq C /\ Closed(E, C) => Reachable(N, E, S) \subseteq C
<1> DEFINE Body(f) == [T \in SUBSET N |-> IF OneStep(E, T) = T THEN T ELSE f[OneStep(E, T)]]
           reach == CHOOSE f : f = Body(f)
           closure == [T \in SUBSET N |-> Closure(N, E, T)]
<1>1. \A T \in SUBSET N : closure[T] = IF OneStep(E, T) = T THEN T ELSE closure[OneStep(E, T)]
  BY ClosureFacts
<1>2. closure = Body(closure)
  BY <1>1
<1>3. reach = Body(reach)
  <2>1. \E f : f = Body(f)
    <3> HIDE DEF Body, closure
    <3> QED BY <1>2
  <2> HIDE DEF Body
  <2>2. QED BY <2>1
<1>4. Reachable(N, E, S) = reach[S]
  BY DEF Reachable, OneStep
<1> HIDE DEF reach
<1>5. reach[S] = Closure(N, E, S)
  <2>1. reach = [T \in SUBSET N |->
                   IF OneStep(E, T) = T THEN T ELSE reach[OneStep(E, T)]]
    BY <1>3
  <2> HIDE DEF Body, closure
  <2>2. \A T \in SUBSET N : reach[T] = Closure(N, E, T)
    BY <2>1, ReachIsClosure
  <2>3. QED BY <2>2
<1> HIDE DEF Body, closure
<1>6. Reachable(N, E, S) = Closure(N, E, S)
  BY <1>4, <1>5
<1>7. /\ S \subseteq Closure(N, E, S) /\ Closure(N, E, S) \subseteq N
      /\ Closed(E, Closure(N, E, S))
      /\ \A C \in SUBSET N : S \subseteq C /\ Closed(E, C) => Closure(N, E, S) \subseteq C
  BY ClosureFacts
<1>8. QED BY <1>6, <1>7

-----------------------------------------------------------------------------
(* The invariant.                                                          *)

GraphType ==
  [run : {"active", "completed", "failed"}, nodes : UNION {[N -> NodeType] : N \in SUBSET Ids},
   edges : SUBSET (Ids \X Ids), bound : SUBSET (Ids \X Ids), records : Nat]

Typed(g) ==
  /\ g \in GraphType /\ IsFiniteSet(Nodes(g)) /\ Root \in Nodes(g)
  /\ g.edges \subseteq Nodes(g) \X Nodes(g) /\ g.bound \subseteq g.edges

(* What a node's id says of it.                                            *)
Recovering   == {"verifier_recovery", "check_recovery"}
KindOf(n)    == IF n[2] \in Recovering THEN "gap" ELSE n[2]
HomeOf(n)    == IF n[1] = 0 THEN (IF n[2] = "planner" THEN NoRegion ELSE FinalInvariant)
                ELSE IF n[1] <= MaxRegions THEN n[1] ELSE Corrective
RegionOf(n)  == IF n[2] \in Recovering THEN RecoveryOf(HomeOf(n)) ELSE HomeOf(n)
Recovered(n) == <<n[1], IF n[2] = "check_recovery" THEN "check" ELSE "verifier">>
AnswerOf(n)  == IF n[2] \in Recovering THEN Recovered(n) ELSE NoNode
PlanGap(n)   == <<n[1], "gap">>
Pair(n)      == <<<<n[1], "worker">>, <<n[1], "verifier">>>>

Possible(n) ==
  /\ n[2] = "planner" => n = Root
  /\ n[1] = 0 => n[2] \in {"planner", "check", "check_recovery"}
  /\ n[1] > MaxRegions => n[2] \in {"worker", "verifier", "verifier_recovery"}

(* A node's record, state and patch agree.                                 *)
RecordedNode(g, n) ==
  /\ g.nodes[n].at <= g.records
  /\ g.nodes[n].state = "completed" <=> g.nodes[n].at > 0
  /\ g.nodes[n].outcome # "none" => g.nodes[n].state = "completed"
  /\ g.nodes[n].state = "completed" /\ n[2] = "worker" => g.nodes[n].outcome = "candidate"
  /\ g.nodes[n].patch # "none" => /\ KindOf(n) \in {"planner", "gap"}
                                  /\ g.nodes[n].state \in {"leased", "completed"}
  /\ g.nodes[n].state = "retired" => n[2] = "gap"

Distinct(g) ==
  \A n, m \in Nodes(g) : g.nodes[n].at = g.nodes[m].at => n = m \/ g.nodes[n].at = 0

(* A node is what its id says; a recovery planner's failure is recorded,   *)
(* and no other gap planner of that failure can still answer it.           *)
ShapedNode(g, n) ==
  /\ Possible(n)
  /\ g.nodes[n].kind = KindOf(n) /\ g.nodes[n].region = RegionOf(n)
  /\ g.nodes[n].recovers = AnswerOf(n)
  /\ g.nodes[n].parent # NoNode =>
       /\ g.nodes[n].parent \in Nodes(g) /\ g.nodes[g.nodes[n].parent].patch = "work"
  /\ n[1] > 0 => Pair(n) \in g.edges

OwnedNode(g, n) ==
  n[2] \in Recovering =>
    /\ <<Recovered(n), n>> \in g.edges
    /\ g.nodes[Recovered(n)].outcome = "failed"
    /\ <<Recovered(n), PlanGap(n)>> \in g.edges =>
         g.nodes[PlanGap(n)].state \in {"failed", "retired"}

(* Edges: corrections of planners that proposed work, pairs, final checks, *)
(* planners that answer a verdict.                                         *)
RoutedEdge(g, e) ==
  \/ /\ e[2][2] = "worker" /\ e[2][1] > MaxRegions
     /\ KindOf(e[1]) = "gap" /\ g.nodes[e[1]].patch = "work"
  \/ e[2][2] = "verifier" /\ e[1] = <<e[2][1], "worker">>
  \/ e[2][2] = "check" /\ e[1][2] = "verifier"
  \/ e[1][2] \in {"verifier", "check"} /\ e[2] \in {RecoveryNode(e[1]), PlanGap(e[1])}

Unplanned(g) == g.nodes[Root].patch = "none" => Nodes(g) = {Root}

Sound(g) ==
  /\ Typed(g) /\ Distinct(g) /\ Unplanned(g)
  /\ \A n \in Nodes(g) : RecordedNode(g, n)
  /\ \A n \in Nodes(g) : ShapedNode(g, n)
  /\ \A n \in Nodes(g) : OwnedNode(g, n)
  /\ \A e \in g.edges : RoutedEdge(g, e)

(* What was proposed was wired to its proposer.                            *)
Proposed(g) ==
  \A n \in OfKind(g, {"gap"}) : g.nodes[n].patch = "work" =>
    \E w \in Successors(g, {n}) : g.nodes[w].kind = "worker"

(* A port has its record as soon as there is one, and no other.            *)
Delivered(g) ==
  /\ \A e \in g.bound : Selected(g, e)
  /\ \A e \in g.edges : Selected(g, e) => PortBound(g, e[2])

(* A planner that answers a verdict, or a check, has an edge to it, a gap  *)
(* planner of the plan only one.                                           *)
Sourced(g) ==
  /\ \A n \in Nodes(g) : KindOf(n) \in {"gap", "check"} => \E e \in g.edges : e[2] = n
  /\ \A e, f \in g.edges : e[2] = f[2] /\ e[2][2] = "gap" => e[1] = f[1]

(* It begins when it has its record, and a planner ends with a patch.      *)
BegunNode(g, n) ==
  /\ KindOf(n) \in {"gap", "check"} /\ g.nodes[n].state \notin {"planned", "retired"} =>
       PortBound(g, n)
  /\ KindOf(n) = "gap" /\ g.nodes[n].state = "completed" => g.nodes[n].patch # "none"

(* A correction was proposed by a gap planner.                             *)
CorrectingNode(g, n) ==
  n[1] > MaxRegions /\ n[2] \in {"worker", "verifier"} =>
    KindOf(g.nodes[n].parent) = "gap" /\ g.nodes[n].parent # NoNode

Linked(g) ==
  /\ Delivered(g) /\ Sourced(g)
  /\ \A n \in Nodes(g) : BegunNode(g, n)
  /\ \A n \in Nodes(g) : CorrectingNode(g, n)

(* A failed verdict has a gap planner that can answer it, a passed one has *)
(* none left that waits, and feeds the checks that still do.               *)
Answered(g, v) ==
  \E e \in g.edges : /\ e[1] = v /\ g.nodes[e[2]].kind = "gap"
                     /\ g.nodes[e[2]].state \notin {"failed", "retired"}

Unneeded(g, v) ==
  \A e \in g.edges : e[1] = v /\ g.nodes[e[2]].kind = "gap" => g.nodes[e[2]].state \notin Live

Supplied(g, v) ==
  \A c \in WaitingChecks(g) : <<v, c>> \in g.edges \/ WouldCreateCycle(g, v, c)

AttendedNode(g, n) ==
  /\ n \in Failing(g, {"verifier"}) => Answered(g, n)
  /\ n \in Passing(g, {"verifier", "check"}) => Unneeded(g, n)
  /\ n \in Passing(g, {"verifier"}) => Supplied(g, n)

Attends(g, X) == \A n \in Nodes(g) \ X : AttendedNode(g, n)

-----------------------------------------------------------------------------
(* What a step does to a graph.                                            *)

(* Nothing that was decided is taken back, and a planned region gets no    *)
(* further nodes.                                                          *)
KeptNode(g, h, n) ==
  /\ g.nodes[n].outcome # "none" => h.nodes[n].outcome = g.nodes[n].outcome
  /\ g.nodes[n].patch # "none" => h.nodes[n].patch = g.nodes[n].patch
  /\ g.nodes[n].state \notin Live => h.nodes[n].state = g.nodes[n].state

Grows(g, h) ==
  /\ Nodes(g) \subseteq Nodes(h) /\ g.edges \subseteq h.edges /\ g.bound \subseteq h.bound
  /\ \A n \in Nodes(g) : KeptNode(g, h, n)
  /\ \A n \in Nodes(h) : RegionOf(n) \in Regions(g) \cap 1..MaxRegions => n \in Nodes(g)

NoProposal(g, h) ==
  \A n \in Nodes(h) : h.nodes[n].patch # "none" =>
    n \in Nodes(g) /\ g.nodes[n].patch = h.nodes[n].patch

Advances(g, h) == Sound(h) /\ Grows(g, h) /\ NoProposal(g, h)

(* Nodes that have no accepted patch change their states.                  *)
RestatedNode(g, h, n) ==
  /\ h.nodes[n] = [g.nodes[n] EXCEPT !.state = h.nodes[n].state]
  /\ h.nodes[n].state # g.nodes[n].state =>
       /\ g.nodes[n].state \in Live /\ g.nodes[n].patch = "none"
       /\ h.nodes[n].state # "completed" /\ (h.nodes[n].state = "retired" => n[2] = "gap")

Restated(g, h) ==
  /\ h \in GraphType /\ Nodes(h) = Nodes(g)
  /\ h.edges = g.edges /\ h.bound = g.bound /\ h.records = g.records
  /\ \A n \in Nodes(g) : RestatedNode(g, h, n)

(* Nodes and edges are added.                                              *)
Extended(g, h, N, E) ==
  /\ h \in GraphType /\ Nodes(h) = Nodes(g) \cup N
  /\ h.run = g.run /\ h.records = g.records
  /\ h.edges = g.edges \cup E /\ g.bound \subseteq h.bound /\ h.bound \subseteq g.bound \cup E
  /\ \A n \in Nodes(g) : h.nodes[n] = g.nodes[n]
  /\ \A n \in N \ Nodes(g) :
       /\ h.nodes[n].state = "planned" /\ h.nodes[n].outcome = "none"
       /\ h.nodes[n].patch = "none" /\ h.nodes[n].at = 0

Adds(g, h, N, E) ==
  Extended(g, h, N, E) /\ (Typed(g) /\ Delivered(g) => Delivered(h))

(* A patch is all that changes.                                            *)
Repatched(g, h) ==
  /\ Nodes(h) = Nodes(g) /\ h.edges = g.edges /\ h.bound = g.bound
  /\ \A m \in Nodes(g) :
       /\ h.nodes[m].kind = g.nodes[m].kind /\ h.nodes[m].parent = g.nodes[m].parent
       /\ h.nodes[m].state = g.nodes[m].state /\ h.nodes[m].outcome = g.nodes[m].outcome

(* A patch is accepted, and what it proposes is added.                     *)
Submits(g, h, N, E) ==
  \E p : Sound(p) /\ Grows(g, p) /\ Repatched(g, p) /\ Grows(p, h) /\ Adds(p, h, N, E)

Corrects(g, h, n) ==
  \E N, E : /\ Submits(g, h, N, E)
            /\ \A m \in N \ Nodes(g) : m[2] \in {"worker", "verifier"} /\ h.nodes[m].parent = n
            /\ \A e \in E : e[2][2] \in {"worker", "verifier"}

-----------------------------------------------------------------------------
(* The types of a graph's parts.                                           *)

(* The parts of a typed graph and of its nodes.                            *)
LEMMA NodeFacts ==
  ASSUME NEW g \in GraphType
  PROVE  /\ Nodes(g) \in SUBSET Ids /\ g.nodes \in [Nodes(g) -> NodeType]
         /\ g.run \in {"active", "completed", "failed"} /\ g.records \in Nat
         /\ g.edges \in SUBSET (Ids \X Ids) /\ g.bound \in SUBSET (Ids \X Ids)
         /\ \A n \in Nodes(g) :
              /\ n \in Ids /\ n[1] \in Nat /\ n[2] \in Roles /\ n = <<n[1], n[2]>>
              /\ g.nodes[n] \in NodeType /\ g.nodes[n].at \in Nat /\ g.nodes[n].region \in Nat
              /\ g.nodes[n].state \in States /\ g.nodes[n].outcome \in Outcomes
              /\ g.nodes[n].patch \in Patches
<1>1. PICK N \in SUBSET Ids : g.nodes \in [N -> NodeType]
  BY DEF GraphType
<1>2. Nodes(g) = N
  BY <1>1 DEF Nodes
<1>3. \A n \in N : g.nodes[n] \in NodeType
  BY <1>1
<1>4. \A n \in N : n \in Ids /\ n[1] \in Nat /\ n[2] \in Roles /\ n = <<n[1], n[2]>>
  BY DEF Ids
<1>5. \A x \in NodeType : /\ x.at \in Nat /\ x.region \in Nat /\ x.state \in States
                          /\ x.outcome \in Outcomes /\ x.patch \in Patches
  BY DEF NodeType
<1>6. /\ g.run \in {"active", "completed", "failed"} /\ g.records \in Nat
      /\ g.edges \in SUBSET (Ids \X Ids) /\ g.bound \in SUBSET (Ids \X Ids)
  BY DEF GraphType
<1>7. QED BY <1>1, <1>2, <1>3, <1>4, <1>5, <1>6

(* A graph with other nodes, another run state, other edges or bindings.   *)
WithNodes(g, f) == [g EXCEPT !.nodes = f]
WithRun(g, s)   == [g EXCEPT !.run = s]
WithEdges(g, E) == [g EXCEPT !.edges = E]
WithBound(g, B) == [g EXCEPT !.bound = B]
WithRecords(g, k) == [g EXCEPT !.records = k]

(* Replacing one part of a graph keeps it typed and leaves the other parts *)
(* alone; first the nodes.                                                 *)
LEMMA NodesUpdated ==
  ASSUME NEW g \in GraphType, NEW N \in SUBSET Ids, NEW f \in [N -> NodeType],
         NEW h, h = WithNodes(g, f)
  PROVE  /\ h \in GraphType /\ h.nodes = f /\ Nodes(h) = N /\ h.run = g.run
         /\ h.edges = g.edges /\ h.bound = g.bound /\ h.records = g.records
<1>1. f \in UNION {[M -> NodeType] : M \in SUBSET Ids}
  OBVIOUS
<1>2. QED BY <1>1 DEF GraphType, Nodes, WithNodes

(* The run state.                                                          *)
LEMMA RunUpdated ==
  ASSUME NEW g \in GraphType, NEW s \in {"active", "completed", "failed"},
         NEW h, h = WithRun(g, s)
  PROVE  /\ h \in GraphType /\ h.nodes = g.nodes /\ Nodes(h) = Nodes(g) /\ h.run = s
         /\ h.edges = g.edges /\ h.bound = g.bound /\ h.records = g.records
BY DEF GraphType, Nodes, WithRun

(* The edges.                                                              *)
LEMMA EdgesUpdated ==
  ASSUME NEW g \in GraphType, NEW E \in SUBSET (Ids \X Ids), NEW h, h = WithEdges(g, E)
  PROVE  /\ h \in GraphType /\ h.nodes = g.nodes /\ Nodes(h) = Nodes(g) /\ h.run = g.run
         /\ h.edges = E /\ h.bound = g.bound /\ h.records = g.records
BY DEF GraphType, Nodes, WithEdges

(* The bindings.                                                           *)
LEMMA BoundUpdated ==
  ASSUME NEW g \in GraphType, NEW B \in SUBSET (Ids \X Ids), NEW h, h = WithBound(g, B)
  PROVE  /\ h \in GraphType /\ h.nodes = g.nodes /\ Nodes(h) = Nodes(g) /\ h.run = g.run
         /\ h.edges = g.edges /\ h.bound = B /\ h.records = g.records
BY DEF GraphType, Nodes, WithBound

(* The number of records.                                                  *)
LEMMA RecordsUpdated ==
  ASSUME NEW g \in GraphType, NEW k \in Nat, NEW h, h = WithRecords(g, k)
  PROVE  /\ h \in GraphType /\ h.nodes = g.nodes /\ Nodes(h) = Nodes(g) /\ h.run = g.run
         /\ h.edges = g.edges /\ h.bound = g.bound /\ h.records = k
BY DEF GraphType, Nodes, WithRecords

-----------------------------------------------------------------------------
(* Steps keep the invariant.                                               *)

(* An edge is a pair of nodes of the graph.                                *)
LEMMA EdgeFacts ==
  ASSUME NEW g, Typed(g), NEW e \in g.edges
  PROVE  /\ e \in Ids \X Ids /\ e[1] \in Nodes(g) /\ e[2] \in Nodes(g)
         /\ e = <<e[1], e[2]>> /\ e[1] \in Ids /\ e[2] \in Ids
<1>1. e \in Nodes(g) \X Nodes(g)
  BY DEF Typed
<1>2. Nodes(g) \in SUBSET Ids
  BY NodeFacts DEF Typed
<1> QED BY <1>1, <1>2

(* The nodes that a recovery planner's condition names are there.          *)
LEMMA OwnedFacts ==
  ASSUME NEW g, Typed(g), NEW n \in Nodes(g), OwnedNode(g, n), n[2] \in Recovering
  PROVE  /\ Recovered(n) \in Nodes(g)
         /\ <<Recovered(n), PlanGap(n)>> \in g.edges => PlanGap(n) \in Nodes(g)
<1>1. \A a, b : <<a, b>> \in g.edges => a \in Nodes(g) /\ b \in Nodes(g)
  BY DEF Typed
<1>2. QED BY <1>1 DEF OwnedNode

(* State changes of nodes without a patch keep the invariant.              *)
LEMMA RestatedSound ==
  ASSUME NEW g, NEW h, Sound(g), Restated(g, h)
  PROVE  Advances(g, h)
<1>1. Typed(g) /\ Typed(h) /\ Nodes(h) = Nodes(g) /\ h.edges = g.edges
  BY DEF Sound, Typed, Restated
<1>2. \A n \in Nodes(g) :
        /\ h.nodes[n].kind = g.nodes[n].kind /\ h.nodes[n].region = g.nodes[n].region
        /\ h.nodes[n].parent = g.nodes[n].parent /\ h.nodes[n].recovers = g.nodes[n].recovers
        /\ h.nodes[n].outcome = g.nodes[n].outcome /\ h.nodes[n].patch = g.nodes[n].patch
        /\ h.nodes[n].at = g.nodes[n].at
        /\ h.nodes[n].state # g.nodes[n].state =>
             /\ g.nodes[n].state \in Live /\ g.nodes[n].patch = "none"
             /\ h.nodes[n].state # "completed" /\ (h.nodes[n].state = "retired" => n[2] = "gap")
  <2> SUFFICES ASSUME NEW n \in Nodes(g)
               PROVE  /\ h.nodes[n].kind = g.nodes[n].kind
                      /\ h.nodes[n].region = g.nodes[n].region
                      /\ h.nodes[n].parent = g.nodes[n].parent
                      /\ h.nodes[n].recovers = g.nodes[n].recovers
                      /\ h.nodes[n].outcome = g.nodes[n].outcome
                      /\ h.nodes[n].patch = g.nodes[n].patch /\ h.nodes[n].at = g.nodes[n].at
    BY DEF Restated, RestatedNode
  <2>1. g.nodes[n] \in NodeType
    BY NodeFacts, <1>1 DEF Typed
  <2>2. h.nodes[n] = [g.nodes[n] EXCEPT !.state = h.nodes[n].state]
    BY DEF Restated, RestatedNode
  <2>3. QED BY <2>1, <2>2 DEF NodeType
<1>3. Distinct(h) /\ Unplanned(h)
  BY <1>1, <1>2 DEF Sound, Distinct, Unplanned, Typed
<1>4. ASSUME NEW n \in Nodes(h) PROVE RecordedNode(h, n)
  <2>1. RecordedNode(g, n) /\ h.records = g.records
    BY <1>1 DEF Sound, Restated
  <2>2. g.nodes[n].state \in Live => g.nodes[n].state # "completed"
    BY DEF Live, Schedulable
  <2>3. QED BY <2>1, <2>2, <1>1, <1>2 DEF RecordedNode
<1>5. ASSUME NEW n \in Nodes(h) PROVE ShapedNode(h, n)
  <2>1. ShapedNode(g, n)
    BY <1>1 DEF Sound
  <2>2. QED BY <2>1, <1>1, <1>2 DEF ShapedNode
<1>6. ASSUME NEW n \in Nodes(h) PROVE OwnedNode(h, n)
  <2>1. OwnedNode(g, n)
    BY <1>1 DEF Sound
  <2>2. n[2] \in Recovering =>
          /\ Recovered(n) \in Nodes(g)
          /\ <<Recovered(n), PlanGap(n)>> \in g.edges => PlanGap(n) \in Nodes(g)
    BY <2>1, <1>1, OwnedFacts
  <2>3. \A m \in Nodes(g) : g.nodes[m].state \in {"failed", "retired"} =>
                            h.nodes[m].state = g.nodes[m].state
    BY <1>2 DEF Live, Schedulable
  <2>4. QED BY <2>1, <2>2, <2>3, <1>1, <1>2 DEF OwnedNode
<1>7. ASSUME NEW e \in h.edges PROVE RoutedEdge(h, e)
  <2>1. RoutedEdge(g, e) /\ e[1] \in Nodes(g)
    BY <1>1, EdgeFacts DEF Sound
  <2>2. QED BY <2>1, <1>2 DEF RoutedEdge
<1>8. Grows(g, h)
  BY <1>1, <1>2 DEF Grows, KeptNode, Restated
<1>9. NoProposal(g, h)
  BY <1>1, <1>2 DEF NoProposal
<1>10. QED BY <1>1, <1>3, <1>4, <1>5, <1>6, <1>7, <1>8, <1>9 DEF Sound, Advances

(* Only an accepted patch is added to a node.                              *)
LEMMA PatchedSound ==
  ASSUME NEW g, Sound(g), NEW n \in Nodes(g), NEW x \in {"work", "empty"},
         KindOf(n) \in {"planner", "gap"}, g.nodes[n].state = "leased",
         g.nodes[n].patch = "none",
         NEW h, h = [g EXCEPT !.nodes[n].patch = x]
  PROVE  /\ Sound(h) /\ Grows(g, h) /\ Nodes(h) = Nodes(g) /\ h.run = g.run
         /\ h.edges = g.edges /\ h.nodes[n].patch = x /\ h.nodes[n].state = "leased"
         /\ \A m \in Nodes(g) : m # n => h.nodes[m] = g.nodes[m]
         /\ Repatched(g, h)
<1> DEFINE f == [g.nodes EXCEPT ![n].patch = x]
<1>1. /\ Typed(g) /\ g \in GraphType /\ g.nodes[n] \in NodeType /\ Nodes(g) \in SUBSET Ids
      /\ g.nodes \in [Nodes(g) -> NodeType] /\ n \in Ids
  BY NodeFacts DEF Sound, Typed
<1>2. x \in Patches
  BY DEF Patches
<1>3. f \in [Nodes(g) -> NodeType]
  BY <1>1, <1>2 DEF NodeType
<1>4. h = WithNodes(g, f)
  BY <1>1 DEF GraphType, WithNodes
<1>5. /\ h \in GraphType /\ h.nodes = f /\ Nodes(h) = Nodes(g) /\ h.run = g.run
      /\ h.edges = g.edges /\ h.bound = g.bound /\ h.records = g.records
  <2> HIDE DEF f
  <2>1. g \in GraphType /\ Nodes(g) \in SUBSET Ids
    BY <1>1
  <2>2. \A k : k = WithNodes(g, f) =>
           /\ k \in GraphType /\ k.nodes = f /\ Nodes(k) = Nodes(g) /\ k.run = g.run
           /\ k.edges = g.edges /\ k.bound = g.bound /\ k.records = g.records
    BY <2>1, <1>3, NodesUpdated
  <2>3. QED BY <2>2, <1>4
<1>6. \A m \in Nodes(g) : m # n => h.nodes[m] = g.nodes[m]
  BY <1>1, <1>5
<1>7. /\ h.nodes[n].kind = g.nodes[n].kind /\ h.nodes[n].region = g.nodes[n].region
      /\ h.nodes[n].parent = g.nodes[n].parent /\ h.nodes[n].recovers = g.nodes[n].recovers
      /\ h.nodes[n].outcome = g.nodes[n].outcome /\ h.nodes[n].state = g.nodes[n].state
      /\ h.nodes[n].at = g.nodes[n].at /\ h.nodes[n].patch = x
  BY <1>1, <1>5 DEF NodeType
<1> HIDE DEF f
<1>8. \A m \in Nodes(g) :
        /\ h.nodes[m].kind = g.nodes[m].kind /\ h.nodes[m].region = g.nodes[m].region
        /\ h.nodes[m].parent = g.nodes[m].parent /\ h.nodes[m].recovers = g.nodes[m].recovers
        /\ h.nodes[m].outcome = g.nodes[m].outcome /\ h.nodes[m].state = g.nodes[m].state
        /\ h.nodes[m].at = g.nodes[m].at
        /\ h.nodes[m].patch # "none" => m = n \/ h.nodes[m].patch = g.nodes[m].patch
        /\ g.nodes[m].patch # "none" => h.nodes[m].patch = g.nodes[m].patch
  <2> SUFFICES ASSUME NEW m \in Nodes(g)
               PROVE  /\ h.nodes[m].kind = g.nodes[m].kind
                      /\ h.nodes[m].region = g.nodes[m].region
                      /\ h.nodes[m].parent = g.nodes[m].parent
                      /\ h.nodes[m].recovers = g.nodes[m].recovers
                      /\ h.nodes[m].outcome = g.nodes[m].outcome
                      /\ h.nodes[m].state = g.nodes[m].state
                      /\ h.nodes[m].at = g.nodes[m].at
                      /\ h.nodes[m].patch # "none" => m = n \/ h.nodes[m].patch = g.nodes[m].patch
                      /\ g.nodes[m].patch # "none" => h.nodes[m].patch = g.nodes[m].patch
    OBVIOUS
  <2>1. CASE m = n BY <1>7, <2>1
  <2>2. CASE m # n BY <1>6, <2>2
  <2>3. QED BY <2>1, <2>2
<1>9. Typed(h) /\ Distinct(h) /\ Unplanned(h)
  <2>1. Typed(h)
    BY <1>1, <1>5 DEF Typed
  <2>2. Distinct(h)
    BY <1>5, <1>8 DEF Sound, Distinct
  <2>3. Root \in Nodes(g) /\ h.nodes[Root].patch = "none" => g.nodes[Root].patch = "none"
    BY <1>1, <1>8 DEF Typed
  <2>4. Unplanned(h)
    BY <1>5, <2>3, <1>1 DEF Sound, Unplanned, Typed
  <2>5. QED BY <2>1, <2>2, <2>4
<1>10. ASSUME NEW m \in Nodes(h) PROVE RecordedNode(h, m)
  <2>1. RecordedNode(g, m)
    BY <1>5 DEF Sound
  <2>2. QED BY <2>1, <1>5, <1>8 DEF RecordedNode
<1>11. ASSUME NEW m \in Nodes(h) PROVE ShapedNode(h, m) /\ OwnedNode(h, m)
  <2>1. ShapedNode(g, m) /\ OwnedNode(g, m)
    BY <1>5 DEF Sound
  <2>2. ShapedNode(h, m)
    BY <2>1, <1>5, <1>8 DEF ShapedNode
  <2>3. m[2] \in Recovering =>
          /\ Recovered(m) \in Nodes(g)
          /\ <<Recovered(m), PlanGap(m)>> \in g.edges => PlanGap(m) \in Nodes(g)
    BY <2>1, <1>1, <1>5, OwnedFacts
  <2>4. QED BY <2>1, <2>2, <2>3, <1>5, <1>8 DEF OwnedNode
<1>12. ASSUME NEW e \in h.edges PROVE RoutedEdge(h, e)
  <2>1. RoutedEdge(g, e) /\ e[1] \in Nodes(g)
    BY <1>1, <1>5, EdgeFacts DEF Sound
  <2>2. QED BY <2>1, <1>8 DEF RoutedEdge
<1>13. Grows(g, h)
  BY <1>5, <1>8 DEF Grows, KeptNode
<1>14. Repatched(g, h)
  BY <1>5, <1>8 DEF Repatched
<1>15. QED BY <1>5, <1>6, <1>7, <1>9, <1>10, <1>11, <1>12, <1>13, <1>14 DEF Sound

-----------------------------------------------------------------------------
(* Records and bindings.                                                   *)

BoundTo(g, h, E) ==
  /\ h \in GraphType /\ h.nodes = g.nodes /\ Nodes(h) = Nodes(g) /\ h.run = g.run
  /\ h.edges = g.edges /\ h.records = g.records
  /\ g.bound \subseteq h.bound /\ h.bound \subseteq g.bound \cup E

(* Bind adds to the bindings, from the edges it is given.                  *)
LEMMA BindFacts ==
  ASSUME NEW g \in GraphType, NEW E \in SUBSET (Ids \X Ids)
  PROVE  BoundTo(g, Bind(g, E), E)
<1> DEFINE B == g.bound \cup {e \in E : Selected(g, e) /\ ~PortBound(g, e[2])}
<1>1. B \in SUBSET (Ids \X Ids) /\ g.bound \subseteq B /\ B \subseteq g.bound \cup E
  BY NodeFacts
<1>2. Bind(g, E) = WithBound(g, B)
  BY DEF Bind, WithBound, GraphType
<1> HIDE DEF B
<1>3. \A h : h = WithBound(g, B) =>
         /\ h \in GraphType /\ h.nodes = g.nodes /\ Nodes(h) = Nodes(g) /\ h.run = g.run
         /\ h.edges = g.edges /\ h.bound = B /\ h.records = g.records
  BY <1>1, BoundUpdated
<1>4. QED BY <1>1, <1>2, <1>3 DEF BoundTo

(* A port bound late has its record, and one that had none gets it.        *)
LEMMA BindDelivers ==
  ASSUME NEW g \in GraphType, NEW E \in SUBSET (Ids \X Ids),
         \A e \in g.bound : Selected(g, e),
         \A e \in g.edges \ E : Selected(g, e) => PortBound(g, e[2])
  PROVE  Delivered(Bind(g, E))
<1> DEFINE h == Bind(g, E)
<1>1. h.nodes = g.nodes /\ h.edges = g.edges
  BY BindFacts DEF BoundTo
<1>2. h.bound = g.bound \cup {e \in E : Selected(g, e) /\ ~PortBound(g, e[2])}
  BY DEF Bind, GraphType
<1> HIDE DEF h
<1>3. \A e : Selected(h, e) <=> Selected(g, e)
  BY <1>1 DEF Selected
<1>4. \A n : PortBound(g, n) => PortBound(h, n)
  BY <1>2 DEF PortBound
<1>5. \A e \in h.bound : Selected(h, e)
  BY <1>2, <1>3
<1>6. ASSUME NEW e \in h.edges, Selected(h, e) PROVE PortBound(h, e[2])
  <2>1. CASE e \in E /\ ~PortBound(g, e[2])
    <3>1. e \in h.bound
      BY <2>1, <1>2, <1>3, <1>6
    <3>2. QED BY <3>1 DEF PortBound
  <2>2. CASE PortBound(g, e[2])
    BY <2>2, <1>4
  <2>3. CASE e \notin E
    BY <2>3, <1>1, <1>3, <1>4, <1>6
  <2>4. QED BY <2>1, <2>2, <2>3
<1>7. Delivered(h)
  BY <1>5, <1>6 DEF Delivered
<1>8. QED BY <1>7 DEF h

(* Deliveries depend on kinds, outcomes, edges and bindings only.          *)
LEMMA SameDelivers ==
  ASSUME NEW g, NEW h, Typed(g), Delivered(g), h.edges = g.edges, h.bound = g.bound,
         \A n \in Nodes(g) : /\ h.nodes[n].kind = g.nodes[n].kind
                             /\ h.nodes[n].outcome = g.nodes[n].outcome
  PROVE  Delivered(h)
<1>1. \A e \in g.edges : Selected(h, e) <=> Selected(g, e)
  BY EdgeFacts DEF Selected
<1>2. \A n : PortBound(h, n) <=> PortBound(g, n)
  BY DEF PortBound
<1>3. g.bound \subseteq g.edges
  BY DEF Typed
<1>4. QED BY <1>1, <1>2, <1>3 DEF Delivered

(* The record of node n, its completion and what they bind.                *)
RecordedAs(g, h, n, o) ==
  /\ h \in GraphType /\ Nodes(h) = Nodes(g) /\ h.run = g.run /\ h.edges = g.edges
  /\ h.records = g.records + 1 /\ g.bound \subseteq h.bound /\ h.bound \subseteq g.bound \cup g.edges
  /\ \A m \in Nodes(g) : m # n => h.nodes[m] = g.nodes[m]
  /\ h.nodes[n] = [g.nodes[n] EXCEPT !.state = "completed", !.outcome = o, !.at = g.records + 1]

(* Accept records the outcome of its node, touches no other node and       *)
(* delivers the record.                                                    *)
LEMMA AcceptFacts ==
  ASSUME NEW g \in GraphType, NEW n \in Nodes(g), NEW o \in Outcomes
  PROVE  /\ RecordedAs(g, Accept(g, n, o), n, o)
         /\ /\ Typed(g) /\ Delivered(g) /\ g.nodes[n].outcome = "none"
            /\ \A e \in g.edges : g.nodes[e[2]].kind # "planner"
            => Delivered(Accept(g, n, o))
<1> DEFINE x == [g.nodes[n] EXCEPT !.state = "completed", !.outcome = o, !.at = g.records + 1]
           f == [g.nodes EXCEPT ![n] = x]
           k == [g EXCEPT !.nodes = f, !.records = g.records + 1]
           E == {e \in g.edges : e[1] = n}
<1>1. /\ Nodes(g) \in SUBSET Ids /\ g.nodes \in [Nodes(g) -> NodeType] /\ g.records \in Nat
      /\ g.edges \in SUBSET (Ids \X Ids) /\ g.nodes[n] \in NodeType
  BY NodeFacts
<1>2. x \in NodeType
  <2> DEFINE y == g.nodes[n]
  <2>1. y \in NodeType /\ g.records + 1 \in Nat
    BY <1>1
  <2>2. x = [y EXCEPT !.state = "completed", !.outcome = o, !.at = g.records + 1]
    OBVIOUS
  <2> HIDE DEF x, y
  <2>3. QED BY <2>1, <2>2 DEF NodeType, States
<1>3. f \in [Nodes(g) -> NodeType] /\ f[n] = x /\ \A m \in Nodes(g) : m # n => f[m] = g.nodes[m]
  <2> HIDE DEF x
  <2>1. QED BY <1>1, <1>2
<1>4. /\ k \in GraphType /\ k.nodes = f /\ Nodes(k) = Nodes(g) /\ k.run = g.run
      /\ k.edges = g.edges /\ k.bound = g.bound /\ k.records = g.records + 1
  <2> HIDE DEF f
  <2> DEFINE j == WithNodes(g, f)
  <2>1. \A h : h = WithNodes(g, f) =>
           /\ h \in GraphType /\ h.nodes = f /\ Nodes(h) = Nodes(g) /\ h.run = g.run
           /\ h.edges = g.edges /\ h.bound = g.bound /\ h.records = g.records
    BY <1>1, <1>3, NodesUpdated
  <2>2. /\ j \in GraphType /\ j.nodes = f /\ Nodes(j) = Nodes(g) /\ j.run = g.run
        /\ j.edges = g.edges /\ j.bound = g.bound /\ j.records = g.records
    BY <2>1
  <2>3. k = WithRecords(j, g.records + 1)
    BY DEF WithRecords, WithNodes, GraphType
  <2> HIDE DEF j, k
  <2>4. g.records + 1 \in Nat
    BY <1>1
  <2>5. \A h : h = WithRecords(j, g.records + 1) =>
           /\ h \in GraphType /\ h.nodes = j.nodes /\ Nodes(h) = Nodes(j) /\ h.run = j.run
           /\ h.edges = j.edges /\ h.bound = j.bound /\ h.records = g.records + 1
    BY <2>2, <2>4, RecordsUpdated
  <2>6. QED BY <2>2, <2>3, <2>5
<1>5. Accept(g, n, o) = Bind(k, E)
  <2>1. Accept(g, n, o) = Bind(k, {e \in k.edges : e[1] = n})
    BY <1>1 DEF Accept, GraphType
  <2> HIDE DEF k
  <2>2. QED BY <2>1, <1>4
<1>6. E \in SUBSET (Ids \X Ids) /\ E \subseteq g.edges
  BY <1>1
<1> HIDE DEF k, E, f, x
<1>7. BoundTo(k, Bind(k, E), E)
  BY <1>4, <1>6, BindFacts
<1>8. RecordedAs(g, Bind(k, E), n, o)
  <2> DEFINE h == Bind(k, E)
  <2>1. /\ h \in GraphType /\ h.nodes = f /\ Nodes(h) = Nodes(g) /\ h.run = g.run
        /\ h.edges = g.edges /\ h.records = g.records + 1
        /\ g.bound \subseteq h.bound /\ h.bound \subseteq g.bound \cup E
    BY <1>7, <1>4 DEF BoundTo
  <2> HIDE DEF h
  <2>2. RecordedAs(g, h, n, o)
    BY <2>1, <1>3, <1>6 DEF RecordedAs, x
  <2>3. QED BY <2>2 DEF h
<1>9. ASSUME Typed(g), Delivered(g), g.nodes[n].outcome = "none",
             \A e \in g.edges : g.nodes[e[2]].kind # "planner"
      PROVE  Delivered(Bind(k, E))
  <2>1. \A m \in Nodes(g) : f[m].kind = g.nodes[m].kind
    <3>1. f[n].kind = g.nodes[n].kind
      BY <1>1, <1>3 DEF x, NodeType
    <3>2. QED BY <3>1, <1>3
  <2>2. \A e \in g.edges : e[1] # n => (Selected(k, e) <=> Selected(g, e))
    BY <2>1, <1>3, <1>4, <1>9, EdgeFacts DEF Selected
  <2>3. \A e \in g.edges : e[1] = n => ~Selected(g, e)
    <3> SUFFICES ASSUME NEW e \in g.edges, e[1] = n PROVE ~Selected(g, e)
      OBVIOUS
    <3>1. g.nodes[e[2]] \in NodeType /\ g.nodes[e[2]].kind # "planner"
      BY <1>9, EdgeFacts, NodeFacts
    <3>2. g.nodes[e[2]].kind \in {"gap", "worker", "verifier", "check"}
      BY <3>1 DEF NodeType, Kinds
    <3>3. QED BY <3>2, <1>9 DEF Selected, Selector
  <2>4. \A m : PortBound(k, m) <=> PortBound(g, m)
    BY <1>4 DEF PortBound
  <2>5. \A e \in k.bound : Selected(k, e)
    BY <2>2, <2>3, <1>4, <1>9 DEF Delivered, Typed
  <2>6. \A e \in k.edges \ E : Selected(k, e) => PortBound(k, e[2])
    BY <2>2, <2>4, <1>4, <1>9 DEF Delivered, E
  <2>7. QED BY <2>5, <2>6, <1>4, <1>6, BindDelivers
<1>10. QED BY <1>5, <1>8, <1>9

(* A record of a leased node keeps the invariant.                          *)
LEMMA RecordedSound ==
  ASSUME NEW g, NEW h, Sound(g), NEW n \in Nodes(g), g.nodes[n].state = "leased",
         NEW o \in Outcomes, o # "none", n[2] = "worker" => o = "candidate",
         RecordedAs(g, h, n, o)
  PROVE  Advances(g, h)
<1>1. /\ Typed(g) /\ g \in GraphType /\ g.nodes[n] \in NodeType /\ Nodes(g) \in SUBSET Ids
      /\ g.records \in Nat /\ \A m \in Nodes(g) : g.nodes[m].at \in Nat
  BY NodeFacts DEF Sound, Typed
<1>2. /\ h \in GraphType /\ Nodes(h) = Nodes(g) /\ h.edges = g.edges /\ h.records = g.records + 1
      /\ g.bound \subseteq h.bound /\ h.bound \subseteq g.bound \cup g.edges
      /\ \A m \in Nodes(g) : m # n => h.nodes[m] = g.nodes[m]
      /\ h.nodes[n] = [g.nodes[n] EXCEPT !.state = "completed", !.outcome = o,
                                         !.at = g.records + 1]
  BY DEF RecordedAs
<1>3. /\ h.nodes[n].kind = g.nodes[n].kind /\ h.nodes[n].region = g.nodes[n].region
      /\ h.nodes[n].parent = g.nodes[n].parent /\ h.nodes[n].recovers = g.nodes[n].recovers
      /\ h.nodes[n].patch = g.nodes[n].patch
      /\ h.nodes[n].state = "completed" /\ h.nodes[n].outcome = o
      /\ h.nodes[n].at = g.records + 1
  BY <1>1, <1>2 DEF NodeType
<1>4. RecordedNode(g, n) /\ g.nodes[n].outcome = "none" /\ g.nodes[n].at = 0
  BY <1>1 DEF Sound, RecordedNode
<1>5. \A m \in Nodes(g) :
        /\ h.nodes[m].kind = g.nodes[m].kind /\ h.nodes[m].region = g.nodes[m].region
        /\ h.nodes[m].parent = g.nodes[m].parent /\ h.nodes[m].recovers = g.nodes[m].recovers
        /\ h.nodes[m].patch = g.nodes[m].patch
        /\ g.nodes[m].outcome # "none" => h.nodes[m].outcome = g.nodes[m].outcome
        /\ g.nodes[m].state # "leased" => h.nodes[m].state = g.nodes[m].state
  <2> SUFFICES ASSUME NEW m \in Nodes(g)
               PROVE  /\ h.nodes[m].kind = g.nodes[m].kind
                      /\ h.nodes[m].region = g.nodes[m].region
                      /\ h.nodes[m].parent = g.nodes[m].parent
                      /\ h.nodes[m].recovers = g.nodes[m].recovers
                      /\ h.nodes[m].patch = g.nodes[m].patch
                      /\ g.nodes[m].outcome # "none" => h.nodes[m].outcome = g.nodes[m].outcome
                      /\ g.nodes[m].state # "leased" => h.nodes[m].state = g.nodes[m].state
    OBVIOUS
  <2>1. CASE m = n BY <1>3, <1>4, <2>1
  <2>2. CASE m # n BY <1>2, <2>2
  <2>3. QED BY <2>1, <2>2
<1>6. Typed(h)
  BY <1>1, <1>2 DEF Typed
<1>7. Distinct(h)
  <2> SUFFICES ASSUME NEW m1 \in Nodes(g), NEW m2 \in Nodes(g),
                      h.nodes[m1].at = h.nodes[m2].at, h.nodes[m1].at # 0
               PROVE  m1 = m2
    BY <1>2 DEF Distinct
  <2>1. \A m \in Nodes(g) : g.nodes[m].at <= g.records
    BY DEF Sound, RecordedNode
  <2>2. CASE m1 = n /\ m2 = n
    BY <2>2
  <2>3. CASE m1 # n /\ m2 # n
    BY <2>3, <1>2 DEF Sound, Distinct
  <2>4. CASE m1 = n /\ m2 # n
    BY <2>4, <2>1, <1>1, <1>2, <1>3
  <2>5. CASE m1 # n /\ m2 = n
    BY <2>5, <2>1, <1>1, <1>2, <1>3
  <2>6. QED BY <2>2, <2>3, <2>4, <2>5
<1>8. Unplanned(h)
  BY <1>1, <1>2, <1>5 DEF Sound, Typed, Unplanned
<1>9. ASSUME NEW m \in Nodes(h) PROVE RecordedNode(h, m)
  <2>1. RecordedNode(g, m)
    BY <1>2 DEF Sound
  <2>2. CASE m = n
    BY <2>2, <2>1, <1>1, <1>2, <1>3, <1>4 DEF RecordedNode
  <2>3. CASE m # n
    <3>1. h.nodes[m] = g.nodes[m] /\ g.nodes[m].at \in Nat
      BY <2>3, <1>1, <1>2
    <3>2. QED BY <3>1, <2>1, <1>1, <1>2 DEF RecordedNode
  <2>4. QED BY <2>2, <2>3
<1>10. ASSUME NEW m \in Nodes(h) PROVE ShapedNode(h, m) /\ OwnedNode(h, m)
  <2>1. ShapedNode(g, m) /\ OwnedNode(g, m)
    BY <1>2 DEF Sound
  <2>2. ShapedNode(h, m)
    BY <2>1, <1>2, <1>5 DEF ShapedNode
  <2>3. m[2] \in Recovering =>
          /\ Recovered(m) \in Nodes(g)
          /\ <<Recovered(m), PlanGap(m)>> \in g.edges => PlanGap(m) \in Nodes(g)
    BY <2>1, <1>1, <1>2, OwnedFacts
  <2>4. QED BY <2>1, <2>2, <2>3, <1>2, <1>5 DEF OwnedNode
<1>11. ASSUME NEW e \in h.edges PROVE RoutedEdge(h, e)
  <2>1. RoutedEdge(g, e) /\ e[1] \in Nodes(g)
    BY <1>1, <1>2, EdgeFacts DEF Sound
  <2>2. QED BY <2>1, <1>5 DEF RoutedEdge
<1>12. Grows(g, h)
  <2>1. "leased" \in Live
    BY DEF Live
  <2>2. QED BY <2>1, <1>2, <1>5 DEF Grows, KeptNode
<1>13. NoProposal(g, h)
  BY <1>2, <1>5 DEF NoProposal
<1>14. QED BY <1>6, <1>7, <1>8, <1>9, <1>10, <1>11, <1>12, <1>13 DEF Sound, Advances

-----------------------------------------------------------------------------
(* New nodes and edges.                                                    *)

(* New nodes and edges that are what their ids say keep the invariant.     *)
LEMMA ExtendedSound ==
  ASSUME NEW g, NEW h, NEW N, NEW E, Sound(g), Extended(g, h, N, E), IsFiniteSet(N),
         E \subseteq Nodes(h) \X Nodes(h), Unplanned(h),
         \A n \in N \ Nodes(g) : ShapedNode(h, n) /\ OwnedNode(h, n),
         \A n \in N \ Nodes(g) : RegionOf(n) \notin Regions(g) \cap 1..MaxRegions,
         \A e \in E : RoutedEdge(h, e),
         \A e \in E : e[2][2] = "gap" => RecoveryNode(e[1]) \notin Nodes(g)
  PROVE  Advances(g, h)
<1>1. /\ Typed(g) /\ g \in GraphType /\ Nodes(g) \in SUBSET Ids /\ g.records \in Nat
      /\ \A n \in Nodes(g) : n[1] \in Nat /\ n = <<n[1], n[2]>>
  BY NodeFacts DEF Sound, Typed
<1>2. /\ h \in GraphType /\ Nodes(h) = Nodes(g) \cup N /\ h.records = g.records
      /\ h.edges = g.edges \cup E /\ g.bound \subseteq h.bound /\ h.bound \subseteq g.bound \cup E
      /\ \A n \in Nodes(g) : h.nodes[n] = g.nodes[n]
      /\ \A n \in N \ Nodes(g) :
           /\ h.nodes[n].state = "planned" /\ h.nodes[n].outcome = "none"
           /\ h.nodes[n].patch = "none" /\ h.nodes[n].at = 0
  BY DEF Extended
<1>3. Typed(h)
  <2>1. IsFiniteSet(Nodes(h))
    <3>1. IsFiniteSet(Nodes(g))
      BY <1>1 DEF Typed
    <3>2. IsFiniteSet(Nodes(g) \cup N)
      BY <3>1, FS_Union
    <3>3. QED BY <3>2, <1>2
  <2>2. h.edges \subseteq Nodes(h) \X Nodes(h)
    BY <1>1, <1>2 DEF Typed
  <2>3. QED BY <1>1, <1>2, <2>1, <2>2 DEF Typed
<1>4. Distinct(h)
  <2> SUFFICES ASSUME NEW m1 \in Nodes(h), NEW m2 \in Nodes(h),
                      h.nodes[m1].at = h.nodes[m2].at, h.nodes[m1].at # 0
               PROVE  m1 = m2
    BY DEF Distinct
  <2>1. m1 \in Nodes(g) /\ m2 \in Nodes(g)
    BY <1>2
  <2>2. QED BY <2>1, <1>2 DEF Sound, Distinct
<1>5. ASSUME NEW n \in Nodes(h) PROVE RecordedNode(h, n)
  <2>1. CASE n \in Nodes(g)
    BY <2>1, <1>2 DEF Sound, RecordedNode
  <2>2. CASE n \notin Nodes(g)
    BY <2>2, <1>1, <1>2 DEF RecordedNode
  <2>3. QED BY <2>1, <2>2
<1>6. ASSUME NEW n \in Nodes(g) PROVE ShapedNode(h, n)
  <2>1. ShapedNode(g, n)
    BY DEF Sound
  <2>2. QED BY <2>1, <1>2 DEF ShapedNode
<1>7. ASSUME NEW n \in Nodes(g) PROVE OwnedNode(h, n)
  <2> SUFFICES ASSUME n[2] \in Recovering PROVE OwnedNode(h, n)
    BY DEF OwnedNode
  <2>1. OwnedNode(g, n) /\ Recovered(n) \in Nodes(g)
    BY <1>1, OwnedFacts DEF Sound
  <2>2. RecoveryNode(Recovered(n)) = n
    BY <1>1 DEF RecoveryNode, Recovered, Recovering
  <2>3. <<Recovered(n), PlanGap(n)>> \notin E
    <3> DEFINE e == <<Recovered(n), PlanGap(n)>>
    <3>1. e[1] = Recovered(n) /\ e[2][2] = "gap"
      BY DEF PlanGap
    <3> HIDE DEF e
    <3>2. e \notin E
      BY <3>1, <2>2
    <3>3. QED BY <3>2 DEF e
  <2>4. <<Recovered(n), PlanGap(n)>> \in h.edges =>
          /\ <<Recovered(n), PlanGap(n)>> \in g.edges /\ PlanGap(n) \in Nodes(g)
    BY <2>3, <1>1, <1>2, OwnedFacts, <2>1
  <2>5. QED BY <2>1, <2>4, <1>2 DEF OwnedNode
<1>8. ASSUME NEW e \in g.edges PROVE RoutedEdge(h, e)
  <2>1. RoutedEdge(g, e) /\ e[1] \in Nodes(g)
    BY <1>1, EdgeFacts DEF Sound
  <2>2. QED BY <2>1, <1>2 DEF RoutedEdge
<1>9. Grows(g, h)
  BY <1>2 DEF Grows, KeptNode
<1>10. NoProposal(g, h)
  BY <1>2 DEF NoProposal
<1>11. QED BY <1>2, <1>3, <1>4, <1>5, <1>6, <1>7, <1>8, <1>9, <1>10 DEF Sound, Advances

(* Creating nodes and connecting them extends the graph.                   *)
Fresh(N, new) ==
  /\ new \in [N -> NodeType]
  /\ \A n \in N : /\ new[n].state = "planned" /\ new[n].outcome = "none"
                  /\ new[n].patch = "none" /\ new[n].at = 0

CreatedAs(g, h, N, new, E) ==
  /\ Extended(g, h, N, E) /\ \A n \in N \ Nodes(g) : h.nodes[n] = new[n]
  /\ Typed(g) /\ Delivered(g) => Delivered(h)

(* Created and Connect extend the graph by the nodes and edges given.      *)
LEMMA CreatedFacts ==
  ASSUME NEW g, g \in GraphType, NEW N, N \in SUBSET Ids, NEW new, Fresh(N, new),
         NEW E, E \in SUBSET (Ids \X Ids)
  PROVE  CreatedAs(g, Connect(Created(g, new), E), N, new, E)
<1> DEFINE f == [n \in DOMAIN new \cup Nodes(g) |-> IF n \in Nodes(g) THEN g.nodes[n] ELSE new[n]]
           k == Created(g, new)
<1>1. /\ Nodes(g) \in SUBSET Ids /\ g.nodes \in [Nodes(g) -> NodeType]
      /\ g.edges \in SUBSET (Ids \X Ids) /\ new \in [N -> NodeType]
      /\ \A n \in N : /\ new[n].state = "planned" /\ new[n].outcome = "none"
                      /\ new[n].patch = "none" /\ new[n].at = 0
  BY NodeFacts DEF Fresh
<1>2. /\ f \in [Nodes(g) \cup N -> NodeType]
      /\ \A n \in Nodes(g) : f[n] = g.nodes[n]
      /\ \A n \in N \ Nodes(g) : f[n] = new[n]
  BY <1>1
<1>3. k = WithNodes(g, f)
  BY DEF Created, WithNodes
<1> HIDE DEF f, k
<1>4. \A h : h = WithNodes(g, f) =>
         /\ h \in GraphType /\ h.nodes = f /\ Nodes(h) = Nodes(g) \cup N /\ h.run = g.run
         /\ h.edges = g.edges /\ h.bound = g.bound /\ h.records = g.records
  <2>1. Nodes(g) \cup N \in SUBSET Ids
    BY <1>1
  <2>2. QED BY <1>2, <2>1, NodesUpdated
<1>5. /\ k \in GraphType /\ k.nodes = f /\ Nodes(k) = Nodes(g) \cup N /\ k.run = g.run
      /\ k.edges = g.edges /\ k.bound = g.bound /\ k.records = g.records
  BY <1>3, <1>4
<1> DEFINE j == WithEdges(k, k.edges \cup E)
<1>6. k.edges \cup E \in SUBSET (Ids \X Ids)
  BY <1>1, <1>5
<1>7. \A h : h = WithEdges(k, k.edges \cup E) =>
         /\ h \in GraphType /\ h.nodes = k.nodes /\ Nodes(h) = Nodes(k) /\ h.run = k.run
         /\ h.edges = k.edges \cup E /\ h.bound = k.bound /\ h.records = k.records
  BY <1>5, <1>6, EdgesUpdated
<1>8. /\ j \in GraphType /\ j.nodes = f /\ Nodes(j) = Nodes(g) \cup N /\ j.run = g.run
      /\ j.edges = g.edges \cup E /\ j.bound = g.bound /\ j.records = g.records
  BY <1>5, <1>7
<1>9. Connect(k, E) = Bind(j, E)
  BY <1>5 DEF Connect, WithEdges, GraphType
<1> HIDE DEF j
<1>10. BoundTo(j, Bind(j, E), E)
  BY <1>8, BindFacts
<1> DEFINE h == Bind(j, E)
<1>11. ASSUME Typed(g), Delivered(g) PROVE Delivered(h)
  <2>1. \A e \in g.edges : Selected(j, e) <=> Selected(g, e)
    BY <1>2, <1>8, <1>11, EdgeFacts DEF Selected
  <2>2. \A n : PortBound(j, n) <=> PortBound(g, n)
    BY <1>8 DEF PortBound
  <2>3. \A e \in j.bound : Selected(j, e)
    BY <2>1, <1>8, <1>11 DEF Delivered, Typed
  <2>4. \A e \in j.edges \ E : Selected(j, e) => PortBound(j, e[2])
    BY <2>1, <2>2, <1>8, <1>11 DEF Delivered
  <2>5. QED BY <2>3, <2>4, <1>8, BindDelivers
<1>12. CreatedAs(g, h, N, new, E)
  <2> HIDE DEF h
  <2>1. BoundTo(j, h, E)
    BY <1>10 DEF h
  <2>2. QED BY <2>1, <1>1, <1>2, <1>8, <1>11 DEF BoundTo, Extended, CreatedAs
<1>13. QED BY <1>9, <1>12 DEF k

(* Connect alone extends the graph by edges.                               *)
LEMMA ConnectedFacts ==
  ASSUME NEW g, g \in GraphType, NEW E, E \in SUBSET (Ids \X Ids)
  PROVE  /\ Extended(g, Connect(g, E), {}, E)
         /\ Typed(g) /\ Delivered(g) => Delivered(Connect(g, E))
<1> DEFINE j == WithEdges(g, g.edges \cup E)
<1>1. g.edges \cup E \in SUBSET (Ids \X Ids)
  BY NodeFacts
<1>2. \A h : h = WithEdges(g, g.edges \cup E) =>
         /\ h \in GraphType /\ h.nodes = g.nodes /\ Nodes(h) = Nodes(g) /\ h.run = g.run
         /\ h.edges = g.edges \cup E /\ h.bound = g.bound /\ h.records = g.records
  BY <1>1, EdgesUpdated
<1>3. /\ j \in GraphType /\ j.nodes = g.nodes /\ Nodes(j) = Nodes(g) /\ j.run = g.run
      /\ j.edges = g.edges \cup E /\ j.bound = g.bound /\ j.records = g.records
  BY <1>2
<1>4. Connect(g, E) = Bind(j, E)
  BY DEF Connect, WithEdges, GraphType
<1> HIDE DEF j
<1>5. BoundTo(j, Bind(j, E), E)
  BY <1>3, BindFacts
<1> DEFINE h == Bind(j, E)
<1>6. Extended(g, h, {}, E)
  <2> HIDE DEF h
  <2>1. BoundTo(j, h, E)
    BY <1>5 DEF h
  <2>2. QED BY <2>1, <1>3 DEF BoundTo, Extended
<1>7. ASSUME Typed(g), Delivered(g) PROVE Delivered(h)
  <2>1. \A e : Selected(j, e) <=> Selected(g, e)
    BY <1>3 DEF Selected
  <2>2. \A n : PortBound(j, n) <=> PortBound(g, n)
    BY <1>3 DEF PortBound
  <2>3. \A e \in j.bound : Selected(j, e)
    BY <2>1, <1>3, <1>7 DEF Delivered
  <2>4. \A e \in j.edges \ E : Selected(j, e) => PortBound(j, e[2])
    BY <2>1, <2>2, <1>3, <1>7 DEF Delivered
  <2>5. QED BY <2>3, <2>4, <1>3, BindDelivers
<1>8. QED BY <1>4, <1>6, <1>7

-----------------------------------------------------------------------------
(* Repairs.                                                                *)

(* The nodes of a sound graph, by kind.                                    *)
LEMMA KindFacts ==
  ASSUME NEW g, Sound(g), NEW n \in Nodes(g)
  PROVE  /\ n \in Ids /\ n[1] \in Nat /\ n[2] \in Roles /\ n = <<n[1], n[2]>> /\ n # NoNode
         /\ g.nodes[n].kind = KindOf(n) /\ g.nodes[n].region = RegionOf(n)
         /\ g.nodes[n].recovers = AnswerOf(n) /\ Possible(n)
         /\ n[2] \in {"planner", "worker", "verifier", "check", "gap"} \cup Recovering
         /\ n[1] > 0 => <<n[1], "worker">> \in Nodes(g) /\ <<n[1], "verifier">> \in Nodes(g)
<1>1. /\ Typed(g) /\ ShapedNode(g, n) /\ n[1] \in Nat /\ n[2] \in Roles /\ n = <<n[1], n[2]>>
      /\ n \in Ids
  BY NodeFacts DEF Sound, Typed
<1>2. Roles = {"planner", "worker", "verifier", "check", "gap"} \cup Recovering
  BY DEF Roles, Kinds, Recovering
<1>3. n # NoNode
  BY <1>1 DEF ShapedNode, Possible, NoNode
<1>4. \A a, b : <<a, b>> \in g.edges => a \in Nodes(g) /\ b \in Nodes(g)
  BY <1>1 DEF Typed
<1>5. QED BY <1>1, <1>2, <1>3, <1>4 DEF ShapedNode, Pair

(* Regions are numbers, those of recovery planners the highest.            *)
LEMMA HomeTypes ==
  ASSUME NEW n \in Ids
  PROVE  HomeOf(n) \in Nat /\ RegionOf(n) \in Nat /\ RecoveryOf(HomeOf(n)) > FinalInvariant - 1
         /\ FinalInvariant \in Nat /\ FinalInvariant = MaxRegions + 2
BY DataflowAssumption DEF HomeOf, RegionOf, RecoveryOf, FinalInvariant, Corrective, NoRegion, Ids

(* The nodes a repair makes are of the controller's own regions.           *)
LEMMA NotPlanned ==
  ASSUME NEW n \in Ids, n[2] \in Recovering \/ n[1] = 0 \/ n[1] > MaxRegions
  PROVE  RegionOf(n) \notin 1..MaxRegions
<1>1. n[1] \in Nat /\ MaxRegions \in Nat
  BY DataflowAssumption DEF Ids
<1>2. QED BY <1>1 DEF HomeOf, RegionOf, RecoveryOf, FinalInvariant, Corrective, NoRegion

(* The fields of a node as it is created.                                  *)
LEMMA NewNodeFacts ==
  ASSUME NEW kind \in Kinds, NEW region \in Nat, NEW parent \in Ids, NEW recovers \in Ids
  PROVE  LET x == NewNode(kind, region, parent, recovers)
         IN  /\ x \in NodeType /\ x.kind = kind /\ x.region = region /\ x.parent = parent
             /\ x.recovers = recovers /\ x.state = "planned" /\ x.outcome = "none"
             /\ x.patch = "none" /\ x.at = 0
BY DEF NewNode, NodeType, States, Outcomes, Patches

(* The id of a recovery planner names the record it recovers.              *)
LEMMA RecoveryFacts ==
  ASSUME NEW n \in Ids, n[2] \in {"verifier", "check"}
  PROVE  /\ RecoveryNode(n) \in Ids /\ RecoveryNode(n)[2] \in Recovering
         /\ RecoveryNode(n)[1] = n[1] /\ Recovered(RecoveryNode(n)) = n
         /\ AnswerOf(RecoveryNode(n)) = n /\ KindOf(RecoveryNode(n)) = "gap"
         /\ HomeOf(RecoveryNode(n)) = HomeOf(n) /\ RegionOf(n) = HomeOf(n)
         /\ PlanGap(RecoveryNode(n)) = PlanGap(n)
         /\ RecoveryNode(n)[2] = "check_recovery" <=> n[2] = "check"
<1>1. n[1] \in Nat /\ n = <<n[1], n[2]>>
  BY DEF Ids
<1>2. /\ RecoveryNode(n)[1] = n[1] /\ RecoveryNode(n)[2] \in Recovering
      /\ RecoveryNode(n)[2] = "check_recovery" <=> n[2] = "check"
      /\ RecoveryNode(n) \in Ids
  BY <1>1 DEF RecoveryNode, Recovering, Ids, Roles
<1>3. Recovered(RecoveryNode(n)) = n
  BY <1>1, <1>2 DEF Recovered
<1>4. RecoveryNode(n)[2] # "planner"
  BY <1>2 DEF Recovering
<1>5. HomeOf(RecoveryNode(n)) = HomeOf(n) /\ RegionOf(n) = HomeOf(n)
  BY <1>2, <1>4 DEF HomeOf, RegionOf, Recovering
<1>6. QED BY <1>2, <1>3, <1>5 DEF AnswerOf, KindOf, PlanGap

Recoverable(g, S) ==
  \A n \in S : /\ n \in Nodes(g) /\ n[2] \in {"verifier", "check"}
               /\ g.nodes[n].outcome = "failed" /\ ~HasRecovery(g, n)

(* Creating the recovery planners of a repair keeps the invariant.         *)
LEMMA RecoveriesSound ==
  ASSUME NEW g, Sound(g), NEW S \in SUBSET Nodes(g), Recoverable(g, S)
  PROVE  LET h == WithRecoveries(g, S)
         IN  /\ Advances(g, h) /\ h.run = g.run /\ h.records = g.records
             /\ \A n \in Nodes(g) : h.nodes[n] = g.nodes[n]
             /\ Adds(g, h, {RecoveryNode(n) : n \in S}, {<<n, RecoveryNode(n)>> : n \in S})
<1> DEFINE N == {RecoveryNode(n) : n \in S}
           E == {<<n, RecoveryNode(n)>> : n \in S}
           planner(n) == NewNode("gap", RecoveryOf(g.nodes[n].region), NoNode, n)
           new == [p \in N |-> planner(CHOOSE n \in S : p = RecoveryNode(n))]
           h == Connect(Created(g, new), E)
<1>1. Typed(g) /\ g \in GraphType /\ Nodes(g) \in SUBSET Ids
  BY NodeFacts DEF Sound, Typed
<1>2. \A n \in S : /\ n \in Nodes(g) /\ n \in Ids /\ n[2] \in {"verifier", "check"}
                   /\ g.nodes[n].outcome = "failed" /\ ~HasRecovery(g, n)
                   /\ RecoveryNode(n) \in Ids /\ RecoveryNode(n)[2] \in Recovering
                   /\ RecoveryNode(n)[1] = n[1] /\ Recovered(RecoveryNode(n)) = n
                   /\ AnswerOf(RecoveryNode(n)) = n /\ KindOf(RecoveryNode(n)) = "gap"
                   /\ HomeOf(RecoveryNode(n)) = HomeOf(n) /\ RegionOf(n) = HomeOf(n)
                   /\ PlanGap(RecoveryNode(n)) = PlanGap(n)
                   /\ RecoveryNode(n)[2] = "check_recovery" <=> n[2] = "check"
                   /\ g.nodes[n].region = RegionOf(n) /\ Possible(n)
                   /\ n[1] > 0 => Pair(n) \in g.edges
  <2> SUFFICES ASSUME NEW n \in S
               PROVE  /\ n \in Nodes(g) /\ n \in Ids /\ n[2] \in {"verifier", "check"}
                      /\ g.nodes[n].outcome = "failed" /\ ~HasRecovery(g, n)
                      /\ RecoveryNode(n) \in Ids /\ RecoveryNode(n)[2] \in Recovering
                      /\ RecoveryNode(n)[1] = n[1] /\ Recovered(RecoveryNode(n)) = n
                      /\ AnswerOf(RecoveryNode(n)) = n /\ KindOf(RecoveryNode(n)) = "gap"
                      /\ HomeOf(RecoveryNode(n)) = HomeOf(n) /\ RegionOf(n) = HomeOf(n)
                      /\ PlanGap(RecoveryNode(n)) = PlanGap(n)
                      /\ RecoveryNode(n)[2] = "check_recovery" <=> n[2] = "check"
                      /\ g.nodes[n].region = RegionOf(n) /\ Possible(n)
                      /\ n[1] > 0 => Pair(n) \in g.edges
    OBVIOUS
  <2>1. /\ n \in Nodes(g) /\ n[2] \in {"verifier", "check"}
        /\ g.nodes[n].outcome = "failed" /\ ~HasRecovery(g, n)
    BY DEF Recoverable
  <2>2. n \in Ids /\ ShapedNode(g, n)
    BY <2>1, <1>1 DEF Sound
  <2>3. /\ RecoveryNode(n) \in Ids /\ RecoveryNode(n)[2] \in Recovering
        /\ RecoveryNode(n)[1] = n[1] /\ Recovered(RecoveryNode(n)) = n
        /\ AnswerOf(RecoveryNode(n)) = n /\ KindOf(RecoveryNode(n)) = "gap"
        /\ HomeOf(RecoveryNode(n)) = HomeOf(n) /\ RegionOf(n) = HomeOf(n)
        /\ PlanGap(RecoveryNode(n)) = PlanGap(n)
        /\ RecoveryNode(n)[2] = "check_recovery" <=> n[2] = "check"
    BY <2>1, <2>2, RecoveryFacts
  <2>4. g.nodes[n].region = RegionOf(n) /\ Possible(n) /\ (n[1] > 0 => Pair(n) \in g.edges)
    BY <2>2 DEF ShapedNode
  <2>5. QED BY <2>1, <2>2, <2>3, <2>4
<1>3. N \in SUBSET Ids /\ E \in SUBSET (Ids \X Ids)
  BY <1>2
<1>4. IsFiniteSet(N)
  <2> DEFINE f == [n \in S |-> RecoveryNode(n)]
  <2>1. IsFiniteSet(S)
    <3>1. IsFiniteSet(Nodes(g))
      BY <1>1 DEF Typed
    <3>2. QED BY <3>1, FS_Subset
  <2>2. f \in Surjection(S, N)
    BY DEF Surjection
  <2>3. QED BY <2>1, <2>2, FS_Surjection
<1>5. \A n \in S : planner(n) = planner(CHOOSE m \in S : RecoveryNode(n) = RecoveryNode(m))
  <2> SUFFICES ASSUME NEW n \in S PROVE (CHOOSE m \in S : RecoveryNode(n) = RecoveryNode(m)) = n
    OBVIOUS
  <2>1. \A m \in S : RecoveryNode(n) = RecoveryNode(m) => m = n
    BY <1>2
  <2>2. QED BY <2>1
<1>6. \A n \in S : /\ planner(n) \in NodeType /\ planner(n).kind = "gap"
                   /\ planner(n).region = RecoveryOf(HomeOf(n)) /\ planner(n).recovers = n
                   /\ planner(n).parent = NoNode /\ planner(n).state = "planned"
                   /\ planner(n).outcome = "none" /\ planner(n).patch = "none"
                   /\ planner(n).at = 0
  <2> SUFFICES ASSUME NEW n \in S
               PROVE  /\ planner(n) \in NodeType /\ planner(n).kind = "gap"
                      /\ planner(n).region = RecoveryOf(HomeOf(n)) /\ planner(n).recovers = n
                      /\ planner(n).parent = NoNode /\ planner(n).state = "planned"
                      /\ planner(n).outcome = "none" /\ planner(n).patch = "none"
                      /\ planner(n).at = 0
    OBVIOUS
  <2>1. RecoveryOf(HomeOf(n)) \in Nat /\ g.nodes[n].region = HomeOf(n) /\ n \in Ids
    BY <1>2, HomeTypes, DataflowAssumption DEF RecoveryOf
  <2>2. "gap" \in Kinds /\ NoNode \in Ids
    BY DEF Kinds, NoNode, Ids, Roles
  <2> DEFINE r == RecoveryOf(HomeOf(n))
  <2>3. planner(n) = NewNode("gap", r, NoNode, n)
    BY <2>1
  <2> HIDE DEF planner, r
  <2>4. r \in Nat
    BY <2>1 DEF r
  <2>5. QED BY <2>1, <2>2, <2>3, <2>4, NewNodeFacts DEF r
<1>7. \A n \in S : new[RecoveryNode(n)] = planner(n)
  <2> HIDE DEF planner
  <2>1. QED BY <1>5
<1>8. new \in [N -> NodeType]
  <2>1. \A p \in N : \E n \in S : p = RecoveryNode(n) /\ new[p] = planner(n)
    BY <1>7
  <2> HIDE DEF planner
  <2>2. \A p \in N : new[p] \in NodeType
    BY <2>1, <1>6
  <2>3. new = [p \in N |-> new[p]]
    OBVIOUS
  <2> HIDE DEF new, N
  <2>4. QED BY <2>2, <2>3
<1>9. \A p \in N : \E n \in S : p = RecoveryNode(n) /\ new[p] = planner(n)
  BY <1>7
<1>10. WithRecoveries(g, S) = h
  BY DEF WithRecoveries
<1>11. \A e \in E : \E n \in S : e = <<n, RecoveryNode(n)>>
  OBVIOUS
<1>12. \A n \in S : <<n, RecoveryNode(n)>> \in E /\ RecoveryNode(n) \in N
  OBVIOUS
<1> HIDE DEF new, planner, N, E
<1>13. \A n \in N : /\ new[n].state = "planned" /\ new[n].outcome = "none"
                    /\ new[n].patch = "none" /\ new[n].at = 0
  BY <1>6, <1>9
<1>14. /\ Extended(g, h, N, E) /\ \A n \in N \ Nodes(g) : h.nodes[n] = new[n]
       /\ Adds(g, h, N, E)
  <2>1. g \in GraphType /\ N \in SUBSET Ids /\ E \in SUBSET (Ids \X Ids)
    BY <1>1, <1>3
  <2>2. Fresh(N, new)
    BY <1>8, <1>13 DEF Fresh
  <2>3. CreatedAs(g, Connect(Created(g, new), E), N, new, E)
    BY <2>1, <2>2, CreatedFacts
  <2>4. QED BY <2>3 DEF CreatedAs, Adds
<1> HIDE DEF h
<1>15. /\ Nodes(h) = Nodes(g) \cup N /\ h.edges = g.edges \cup E
       /\ h.run = g.run /\ h.records = g.records
       /\ \A n \in Nodes(g) : h.nodes[n] = g.nodes[n]
  BY <1>14 DEF Extended
<1>16. E \subseteq Nodes(h) \X Nodes(h)
  BY <1>2, <1>11, <1>12, <1>15
<1>17. Unplanned(h)
  <2>1. Root \in Nodes(g) /\ Root[2] = "planner"
    BY <1>1 DEF Typed, Root
  <2>2. Nodes(g) = {Root} => N = {}
    BY <2>1, <1>2, <1>9
  <2>3. QED BY <2>1, <2>2, <1>15 DEF Sound, Unplanned
<1>18. ASSUME NEW p \in N \ Nodes(g)
       PROVE  ShapedNode(h, p) /\ OwnedNode(h, p) /\ RegionOf(p) \notin Regions(g) \cap 1..MaxRegions
  <2>1. PICK n \in S : p = RecoveryNode(n) /\ h.nodes[p] = planner(n)
    BY <1>9, <1>14
  <2>2. Possible(p)
    BY <2>1, <1>2 DEF Possible, Recovering
  <2>3. RegionOf(p) = RecoveryOf(HomeOf(n))
    BY <2>1, <1>2 DEF RegionOf
  <2>4. p[1] > 0 => Pair(p) \in h.edges
    BY <2>1, <1>2, <1>15 DEF Pair
  <2>5. ShapedNode(h, p)
    BY <2>1, <2>2, <2>3, <2>4, <1>2, <1>6 DEF ShapedNode
  <2>6. RegionOf(p) \notin 1..MaxRegions
    BY <2>1, <1>2, NotPlanned
  <2>7. <<n, PlanGap(n)>> \in h.edges => h.nodes[PlanGap(n)].state \in {"failed", "retired"}
    <3>1. ASSUME <<n, PlanGap(n)>> \in E PROVE FALSE
      <4>1. PICK m \in S : <<n, PlanGap(n)>> = <<m, RecoveryNode(m)>>
        BY <3>1, <1>11
      <4>2. PlanGap(n)[2] = "gap" /\ RecoveryNode(m)[2] \in Recovering
        BY <1>2 DEF PlanGap
      <4>3. QED BY <4>1, <4>2 DEF Recovering
    <3>2. ASSUME <<n, PlanGap(n)>> \in g.edges
          PROVE  h.nodes[PlanGap(n)].state \in {"failed", "retired"}
      <4>1. PlanGap(n) \in Nodes(g)
        BY <3>2, <1>1 DEF Typed
      <4>2. g.nodes[PlanGap(n)].kind = "gap"
        BY <4>1, KindFacts DEF PlanGap, KindOf, Recovering
      <4>3. PlanGap(n) \in OfKind(g, {"gap"})
        BY <4>1, <4>2 DEF OfKind
      <4>4. g.nodes[PlanGap(n)].state \in {"failed", "retired"}
        BY <4>3, <3>2, <1>2 DEF HasRecovery
      <4>5. QED BY <4>4, <4>1, <1>15
    <3>3. QED BY <3>1, <3>2, <1>15
  <2>8. OwnedNode(h, p)
    BY <2>1, <2>7, <1>2, <1>12, <1>15 DEF OwnedNode
  <2>9. QED BY <2>5, <2>6, <2>8
<1>19. ASSUME NEW e \in E
       PROVE  RoutedEdge(h, e) /\ e[2][2] # "gap"
  <2>1. PICK n \in S : e = <<n, RecoveryNode(n)>>
    BY <1>11
  <2>2. e[1] = n /\ e[2] = RecoveryNode(n)
    BY <2>1
  <2>3. QED BY <2>2, <1>2 DEF RoutedEdge, Recovering
<1>20. Advances(g, h)
  BY <1>14, <1>4, <1>16, <1>17, <1>18, <1>19, ExtendedSound
<1>21. QED BY <1>10, <1>14, <1>15, <1>20 DEF N, E

(* What holds of each step of a command holds of the command.              *)
LEMMA GrowsTransitive ==
  ASSUME NEW g, NEW h, NEW k, Sound(g), Sound(h), Grows(g, h), Grows(h, k)
  PROVE  Grows(g, k)
<1>1. Regions(g) \subseteq Regions(h)
  <2>1. \A n \in Nodes(g) : n \in Nodes(h) /\ h.nodes[n].region = g.nodes[n].region
    BY KindFacts DEF Grows
  <2>2. QED BY <2>1 DEF Regions
<1>2. \A n \in Nodes(g) : KeptNode(g, k, n)
  BY DEF Grows, KeptNode
<1>3. ASSUME NEW n \in Nodes(k), RegionOf(n) \in Regions(g) \cap 1..MaxRegions PROVE n \in Nodes(g)
  BY <1>1, <1>3 DEF Grows
<1>4. QED BY <1>2, <1>3 DEF Grows

(* The same for steps that propose nothing.                                *)
LEMMA AdvancesTransitive ==
  ASSUME NEW g, NEW h, NEW k, Sound(g), Advances(g, h), Advances(h, k)
  PROVE  Advances(g, k)
<1>1. Grows(g, k)
  BY GrowsTransitive DEF Advances
<1>2. NoProposal(g, k)
  BY DEF Advances, NoProposal
<1>3. QED BY <1>1, <1>2 DEF Advances

(* A graph that does not change advances.                                  *)
LEMMA AdvancesReflexive ==
  ASSUME NEW g, Sound(g)
  PROVE  Advances(g, g)
BY DEF Advances, Grows, KeptNode, NoProposal

(* Verdicts are connected to checks that wait.                             *)
LEMMA ChecksConnected ==
  ASSUME NEW g, Sound(g), NEW E, E \subseteq Nodes(g) \X Nodes(g),
         \A e \in E : e[1][2] = "verifier" /\ e[2][2] = "check"
  PROVE  LET h == Connect(g, E)
         IN  /\ Advances(g, h) /\ h.run = g.run /\ h.records = g.records
             /\ \A n \in Nodes(g) : h.nodes[n] = g.nodes[n]
             /\ Adds(g, h, {}, E)
<1> DEFINE h == Connect(g, E)
<1>1. g \in GraphType /\ Nodes(g) \in SUBSET Ids
  BY NodeFacts DEF Sound, Typed
<1>2. E \in SUBSET (Ids \X Ids)
  BY <1>1
<1>3. Extended(g, h, {}, E) /\ Adds(g, h, {}, E)
  BY <1>1, <1>2, ConnectedFacts DEF Adds
<1> HIDE DEF h
<1>4. /\ Nodes(h) = Nodes(g) /\ h.run = g.run /\ h.records = g.records
      /\ \A n \in Nodes(g) : h.nodes[n] = g.nodes[n]
  BY <1>3 DEF Extended
<1>5. IsFiniteSet({})
  BY FS_EmptySet
<1>6. E \subseteq Nodes(h) \X Nodes(h) /\ {} \ Nodes(g) = {}
  BY <1>4
<1>7. Root \in Nodes(g)
  BY DEF Sound, Typed
<1>8. Unplanned(h)
  BY <1>4, <1>7 DEF Sound, Unplanned
<1>9. \A e \in E : RoutedEdge(h, e) /\ e[2][2] # "gap"
  BY DEF RoutedEdge
<1>10. Advances(g, h)
  BY <1>3, <1>5, <1>6, <1>8, <1>9, ExtendedSound
<1>11. QED BY <1>3, <1>4, <1>10 DEF h

(* The final check of a repair keeps the invariant.                        *)
LEMMA FinalCheckSound ==
  ASSUME NEW g, Sound(g), NEW S, S \subseteq Nodes(g), \A n \in S : n[2] = "verifier"
  PROVE  LET h == WithFinalCheck(g, S)
         IN  /\ Advances(g, h) /\ h.run = g.run /\ h.records = g.records
             /\ \A n \in Nodes(g) : h.nodes[n] = g.nodes[n]
             /\ S = {} => h = g
             /\ S # {} => Adds(g, h, {FinalCheck}, S \X {FinalCheck})
<1>1. CASE S = {}
  BY <1>1, AdvancesReflexive DEF WithFinalCheck
<1>2. CASE S # {}
  <2> DEFINE N == {FinalCheck}
             E == S \X {FinalCheck}
             x == NewNode("check", FinalInvariant, NoNode, NoNode)
             new == [c \in N |-> x]
             h == Connect(Created(g, new), E)
  <2>1. g \in GraphType /\ Nodes(g) \in SUBSET Ids
    BY NodeFacts DEF Sound, Typed
  <2>2. FinalCheck \in Ids /\ NoNode \in Ids /\ "check" \in Kinds /\ FinalInvariant \in Nat
    BY DataflowAssumption DEF FinalCheck, NoNode, Ids, Roles, Kinds, FinalInvariant
  <2>3. /\ x \in NodeType /\ x.kind = "check" /\ x.region = FinalInvariant /\ x.parent = NoNode
        /\ x.recovers = NoNode /\ x.state = "planned" /\ x.outcome = "none"
        /\ x.patch = "none" /\ x.at = 0
    BY <2>2, NewNodeFacts
  <2> HIDE DEF x
  <2>4. Fresh(N, new)
    BY <2>3 DEF Fresh
  <2>5. N \in SUBSET Ids /\ E \in SUBSET (Ids \X Ids)
    BY <2>1, <2>2
  <2>6. WithFinalCheck(g, S) = h
    BY <1>2 DEF WithFinalCheck, x
  <2>7. \A n \in N : n = FinalCheck /\ new[n] = x
    OBVIOUS
  <2>8. FinalCheck \in N /\ \A e \in E : e[1] \in S /\ e[2] = FinalCheck
    OBVIOUS
  <2>9. IsFiniteSet(N)
    BY FS_Singleton
  <2> HIDE DEF new, N
  <2>10. CreatedAs(g, h, N, new, E)
    BY <2>1, <2>4, <2>5, CreatedFacts
  <2>11. E \subseteq Nodes(g) \X N
    BY <2>8
  <2> HIDE DEF h, E
  <2>12. /\ Extended(g, h, N, E) /\ Nodes(h) = Nodes(g) \cup N /\ h.edges = g.edges \cup E
         /\ h.run = g.run /\ h.records = g.records
         /\ \A n \in Nodes(g) : h.nodes[n] = g.nodes[n]
         /\ \A n \in N \ Nodes(g) : h.nodes[n] = new[n]
    BY <2>10 DEF CreatedAs, Extended
  <2>13. E \subseteq Nodes(h) \X Nodes(h)
    BY <2>11, <2>12
  <2>14. Unplanned(h)
    <3>1. PICK n \in S : n \in Nodes(g) /\ n[2] = "verifier"
      BY <1>2
    <3>2. n # Root
      BY <3>1 DEF Root
    <3>3. Root \in Nodes(g)
      BY DEF Sound, Typed
    <3>4. g.nodes[Root].patch # "none"
      BY <3>1, <3>2 DEF Sound, Unplanned
    <3>5. QED BY <3>3, <3>4, <2>12 DEF Unplanned
  <2>15. ASSUME NEW n \in N \ Nodes(g)
         PROVE  /\ ShapedNode(h, n) /\ OwnedNode(h, n)
                /\ RegionOf(n) \notin Regions(g) \cap 1..MaxRegions
    <3>1. n = FinalCheck /\ h.nodes[n] = x
      BY <2>7, <2>12
    <3>2. FinalCheck[1] = 0 /\ FinalCheck[2] = "check"
      BY DEF FinalCheck
    <3>3. Possible(n)
      BY <3>1, <3>2, DataflowAssumption DEF Possible
    <3>4. KindOf(n) = "check" /\ RegionOf(n) = FinalInvariant /\ AnswerOf(n) = NoNode
      BY <3>1, <3>2 DEF KindOf, RegionOf, HomeOf, AnswerOf, Recovering
    <3>5. ShapedNode(h, n)
      BY <3>1, <3>2, <3>3, <3>4, <2>3 DEF ShapedNode
    <3>6. OwnedNode(h, n)
      BY <3>1, <3>2 DEF OwnedNode, Recovering
    <3>7. RegionOf(n) \notin 1..MaxRegions
      BY <3>1, <3>2, <2>2, NotPlanned
    <3>8. QED BY <3>5, <3>6, <3>7
  <2>16. \A e \in E : RoutedEdge(h, e) /\ e[2][2] # "gap"
    BY <2>8 DEF RoutedEdge, FinalCheck
  <2>17. Advances(g, h)
    BY <2>9, <2>12, <2>13, <2>14, <2>15, <2>16, ExtendedSound
  <2>18. Adds(g, h, N, E)
    BY <2>10 DEF CreatedAs, Adds
  <2>19. QED BY <1>2, <2>6, <2>12, <2>17, <2>18 DEF N, E
<1>3. QED BY <1>1, <1>2

(* Only gap planners of a plan that have not begun are retired.            *)
Idle(g, n) == n \in Nodes(g) /\ n[2] = "gap" /\ g.nodes[n].state \in Live
              /\ g.nodes[n].patch = "none"

(* A failure branch that a repair retires holds idle gap planners of       *)
(* passed verdicts only.                                                   *)
LEMMA RetireFacts ==
  ASSUME NEW g, Sound(g), NEW S
  PROVE  \A x \in ToRetire(g, S) :
           Idle(g, x) /\ \E e \in g.edges : e[2] = x /\ g.nodes[e[1]].outcome = "passed"
<1> SUFFICES ASSUME NEW x \in ToRetire(g, S)
             PROVE  Idle(g, x) /\ \E e \in g.edges : e[2] = x /\ g.nodes[e[1]].outcome = "passed"
  OBVIOUS
<1>1. /\ Settled(g) /\ \A m \in Nodes(g) : g.nodes[m].state # "leased"
  BY DEF ToRetire, Settled, Quiet, InState
<1>2. PICK n \in Passing(g, {"verifier", "check"}) : x \in FailureBranch(g, n)
  BY <1>1 DEF ToRetire
<1> DEFINE open == InState(g, Live) \ OfKind(g, {"check"})
           E == {e \in g.edges : e[1] \in open}
           T == Successors(g, {n}) \cap OfKind(g, {"gap"})
<1>3. /\ Typed(g) /\ IsFiniteSet(Nodes(g)) /\ E \in SUBSET (Nodes(g) \X Nodes(g))
      /\ T \in SUBSET Nodes(g)
  BY DEF Sound, Typed, OfKind
<1>4. x \in Reachable(Nodes(g), E, T) /\ x \in open
  BY <1>2 DEF FailureBranch, Retirable
<1>5. n \in Nodes(g) /\ n[2] \in {"verifier", "check"} /\ g.nodes[n].outcome = "passed"
  BY <1>2, KindFacts DEF Passing, OfKind, WithOutcome, KindOf
<1>6. \A m \in T : m[2] = "gap"
  <2> SUFFICES ASSUME NEW m \in T PROVE m[2] = "gap"
    OBVIOUS
  <2>1. PICK e \in g.edges : e[1] = n /\ e[2] = m
    BY DEF Successors
  <2>2. m \in Nodes(g) /\ KindOf(m) = "gap"
    BY KindFacts DEF OfKind
  <2>3. m[2] \in Recovering => RecoveryNode(n) = m
    BY <2>1, <2>2, <1>5 DEF Sound, RoutedEdge, KindOf, Recovering, PlanGap
  <2>4. ASSUME m[2] \in Recovering PROVE FALSE
    <3>1. Recovered(m) = n
      BY <2>3, <2>4, <1>3, <1>5, RecoveryFacts, KindFacts
    <3>2. OwnedNode(g, m)
      BY <2>2 DEF Sound
    <3>3. QED BY <3>1, <3>2, <2>4, <1>5 DEF OwnedNode
  <2>5. QED BY <2>2, <2>4 DEF KindOf
<1>7. Closed(E, T)
  <2> SUFFICES ASSUME NEW e \in g.edges, e[1] \in open, e[1][2] = "gap" PROVE FALSE
    BY <1>6 DEF Closed
  <2>1. e[1] \in Nodes(g) /\ RecordedNode(g, e[1]) /\ RoutedEdge(g, e)
    BY <1>3, EdgeFacts DEF Sound
  <2>2. g.nodes[e[1]].patch = "work"
    BY <2>1 DEF RoutedEdge
  <2>3. g.nodes[e[1]].state \in Live
    BY DEF InState
  <2>4. QED BY <2>1, <2>2, <2>3, <1>1 DEF RecordedNode, Live, Schedulable
<1> HIDE DEF E, T, open
<1>8. x \in T
  BY <1>3, <1>4, <1>7, ReachableIsClosure
<1>9. x \in Nodes(g) /\ x[2] = "gap" /\ g.nodes[x].state \in Live /\ RecordedNode(g, x)
  BY <1>3, <1>4, <1>6, <1>8 DEF open, InState, Sound
<1>10. g.nodes[x].patch = "none"
  BY <1>9, <1>1 DEF RecordedNode, Live, Schedulable
<1>11. \E e \in g.edges : e[2] = x /\ e[1] = n
  BY <1>8 DEF T, Successors
<1>12. QED BY <1>5, <1>9, <1>10, <1>11 DEF Idle

(* Retiring them keeps the invariant.                                      *)
LEMMA RetiredSound ==
  ASSUME NEW g, Sound(g), NEW S, \A n \in S : Idle(g, n)
  PROVE  LET h == Retired(g, S)
         IN  /\ Advances(g, h) /\ h.run = g.run /\ h.records = g.records
             /\ \A n \in Nodes(g) : h.nodes[n].outcome = g.nodes[n].outcome
             /\ \A n \in Nodes(g) : h.nodes[n].state # g.nodes[n].state =>
                  h.nodes[n].state = "retired"
             /\ Restated(g, h)
             /\ \A n \in Nodes(g) :
                  h.nodes[n].state = IF n \in S THEN "retired" ELSE g.nodes[n].state
<1> DEFINE y(n) == [g.nodes[n] EXCEPT !.state = "retired"]
           f == [n \in Nodes(g) |-> IF n \in S THEN y(n) ELSE g.nodes[n]]
           h == Retired(g, S)
<1>1. /\ g \in GraphType /\ Nodes(g) \in SUBSET Ids
      /\ \A n \in Nodes(g) : g.nodes[n] \in NodeType
  BY NodeFacts DEF Sound, Typed
<1>2. \A n \in Nodes(g) : /\ y(n) \in NodeType /\ y(n).state = "retired"
                          /\ y(n).outcome = g.nodes[n].outcome
                          /\ y(n) = [g.nodes[n] EXCEPT !.state = y(n).state]
  BY <1>1 DEF NodeType, States
<1>3. g.nodes \in [Nodes(g) -> NodeType]
  BY <1>1, NodeFacts
<1> HIDE DEF y
<1>4. f \in [Nodes(g) -> NodeType] /\ \A n \in Nodes(g) : f[n] = IF n \in S THEN y(n) ELSE g.nodes[n]
  BY <1>1, <1>2
<1>5. h = WithNodes(g, f)
  BY DEF Retired, WithNodes, y
<1> HIDE DEF f, h
<1>6. \A k : k = WithNodes(g, f) =>
         /\ k \in GraphType /\ k.nodes = f /\ Nodes(k) = Nodes(g) /\ k.run = g.run
         /\ k.edges = g.edges /\ k.bound = g.bound /\ k.records = g.records
  BY <1>1, <1>4, NodesUpdated
<1>7. /\ h \in GraphType /\ h.nodes = f /\ Nodes(h) = Nodes(g) /\ h.run = g.run
      /\ h.edges = g.edges /\ h.bound = g.bound /\ h.records = g.records
  BY <1>5, <1>6
<1>8. ASSUME NEW n \in Nodes(g) PROVE RestatedNode(g, h, n)
  <2>1. CASE n \in S
    <3>1. h.nodes[n] = y(n) /\ Idle(g, n)
      BY <2>1, <1>4, <1>7
    <3>2. QED BY <3>1, <1>2 DEF RestatedNode, Idle
  <2>2. CASE n \notin S
    <3>1. h.nodes[n] = g.nodes[n] /\ g.nodes[n] \in NodeType
      BY <2>2, <1>1, <1>4, <1>7
    <3>2. QED BY <3>1 DEF RestatedNode, NodeType
  <2>3. QED BY <2>1, <2>2
<1>9. Advances(g, h) /\ Restated(g, h)
  BY <1>7, <1>8, RestatedSound DEF Restated
<1>10. \A n \in Nodes(g) :
         /\ h.nodes[n].outcome = g.nodes[n].outcome
         /\ h.nodes[n].state # g.nodes[n].state => h.nodes[n].state = "retired"
         /\ h.nodes[n].state = IF n \in S THEN "retired" ELSE g.nodes[n].state
  BY <1>2, <1>4, <1>7
<1>11. QED BY <1>7, <1>9, <1>10 DEF h

(* A graph's run state may change.                                         *)
LEMMA RunSound ==
  ASSUME NEW g, Sound(g), NEW s \in {"active", "completed", "failed"}
  PROVE  LET h == [g EXCEPT !.run = s]
         IN  /\ Advances(g, h) /\ h.run = s /\ h.nodes = g.nodes /\ h.edges = g.edges
             /\ h.records = g.records
<1> DEFINE h == WithRun(g, s)
<1>1. g \in GraphType /\ \A n \in Nodes(g) : g.nodes[n] \in NodeType
  BY NodeFacts DEF Sound, Typed
<1>2. \A k : k = WithRun(g, s) =>
         /\ k \in GraphType /\ k.nodes = g.nodes /\ Nodes(k) = Nodes(g) /\ k.run = s
         /\ k.edges = g.edges /\ k.bound = g.bound /\ k.records = g.records
  BY <1>1, RunUpdated
<1>3. /\ h \in GraphType /\ h.nodes = g.nodes /\ Nodes(h) = Nodes(g) /\ h.run = s
      /\ h.edges = g.edges /\ h.bound = g.bound /\ h.records = g.records
  BY <1>2
<1> HIDE DEF h
<1>4. \A n \in Nodes(g) : RestatedNode(g, h, n)
  BY <1>1, <1>3 DEF RestatedNode, NodeType
<1>5. Advances(g, h)
  BY <1>3, <1>4, RestatedSound DEF Restated
<1>6. QED BY <1>3, <1>5 DEF h, WithRun

(* A repair of a sound graph; it fails the run for a dead end only.        *)
RepairedTo(g, h, S) ==
  /\ Advances(g, h) /\ h.records = g.records
  /\ \A n \in Nodes(g) : h.nodes[n].outcome = g.nodes[n].outcome
  /\ \A n \in Nodes(g) : h.nodes[n].state # g.nodes[n].state => h.nodes[n].state = "retired"
  /\ h.run = g.run \/ (h.run = "failed" /\ HasDeadEnd(g, S))
  /\ HasDeadEnd(g, S) => h.run = "failed"

(* Its sweeps, one after the other.                                        *)
Swept(g, S, a, b, c, d) ==
  /\ Advances(g, a) /\ Adds(g, a, {RecoveryNode(n) : n \in ToRecover(g, S)},
                           {<<n, RecoveryNode(n)>> : n \in ToRecover(g, S)})
  /\ Advances(a, b) /\ Adds(a, b, {}, FinalCheckEdges(g, S))
  /\ Advances(b, c)
  /\ NeedsFinalCheck(g, S) = {} => c = b
  /\ NeedsFinalCheck(g, S) # {} => Adds(b, c, {FinalCheck}, NeedsFinalCheck(g, S) \X {FinalCheck})
  /\ Advances(c, d) /\ Restated(c, d) /\ d.run = g.run /\ d.records = g.records
  /\ \A n \in Nodes(c) :
        d.nodes[n].state = IF n \in ToRetire(g, S) THEN "retired" ELSE c.nodes[n].state
  /\ \A n \in Nodes(g) : n \in Nodes(c) /\ c.nodes[n] = g.nodes[n]

LEMMA RepairParts ==
  ASSUME NEW g, Sound(g), NEW S
  PROVE  \E a, b, c, d :
           /\ Swept(g, S, a, b, c, d)
           /\ Repaired(g, S) = IF HasDeadEnd(g, S) THEN [d EXCEPT !.run = "failed"] ELSE d
<1> DEFINE R == ToRecover(g, S)
           E == FinalCheckEdges(g, S)
           F == NeedsFinalCheck(g, S)
           T == ToRetire(g, S)
           a == WithRecoveries(g, R)
           b == Connect(a, E)
           c == WithFinalCheck(b, F)
           d == Retired(c, T)
           h == Repaired(g, S)
<1>1. h = IF HasDeadEnd(g, S) THEN [d EXCEPT !.run = "failed"] ELSE d
  BY DEF Repaired
<1>2. \A n \in Nodes(g) : g.nodes[n].kind \in {"verifier", "check"} =>
                          n[2] = g.nodes[n].kind
  BY KindFacts DEF KindOf
<1>3. R \in SUBSET Nodes(g) /\ Recoverable(g, R)
  <2>1. \A n \in R : /\ n \in Nodes(g) /\ g.nodes[n].kind \in {"verifier", "check"}
                     /\ g.nodes[n].outcome = "failed" /\ ~HasRecovery(g, n)
    BY DEF ToRecover, CurrentFailures, Failing, OfKind, WithOutcome
  <2> HIDE DEF R
  <2>2. \A n \in R : n[2] \in {"verifier", "check"}
    BY <2>1, <1>2
  <2>3. QED BY <2>1, <2>2 DEF Recoverable
<1>4. E \subseteq Nodes(g) \X Nodes(g) /\ \A e \in E : e[1][2] = "verifier" /\ e[2][2] = "check"
  <2>1. \A e \in E : e \in LatestPass(g) \X WaitingChecks(g)
    BY DEF FinalCheckEdges
  <2>2. \A n \in LatestPass(g) : n \in Nodes(g) /\ g.nodes[n].kind = "verifier"
    BY DEF LatestPass, Passing, OfKind
  <2>3. \A n \in WaitingChecks(g) : n \in Nodes(g) /\ g.nodes[n].kind = "check"
    BY DEF WaitingChecks, OfKind
  <2> HIDE DEF E
  <2>4. QED BY <2>1, <2>2, <2>3, <1>2
<1>5. F \subseteq Nodes(g) /\ \A n \in F : n[2] = "verifier"
  <2>1. \A n \in F : n \in Nodes(g) /\ g.nodes[n].kind = "verifier"
    BY DEF NeedsFinalCheck, LatestPass, Passing, OfKind
  <2> HIDE DEF F
  <2>2. QED BY <2>1, <1>2
<1>6. \A n \in T : Idle(g, n)
  BY RetireFacts
<1> HIDE DEF R, E, F, T
<1>7. /\ Advances(g, a) /\ a.run = g.run /\ a.records = g.records
      /\ \A n \in Nodes(g) : a.nodes[n] = g.nodes[n]
      /\ Adds(g, a, {RecoveryNode(n) : n \in R}, {<<n, RecoveryNode(n)>> : n \in R})
  BY <1>3, RecoveriesSound
<1> HIDE DEF a
<1>8. Sound(a) /\ Nodes(g) \subseteq Nodes(a)
  BY <1>7 DEF Advances, Grows
<1>9. E \subseteq Nodes(a) \X Nodes(a)
  BY <1>4, <1>8
<1>10. /\ Advances(a, b) /\ b.run = a.run /\ b.records = a.records
       /\ \A n \in Nodes(a) : b.nodes[n] = a.nodes[n]
       /\ Adds(a, b, {}, E)
  BY <1>4, <1>8, <1>9, ChecksConnected
<1> HIDE DEF b
<1>11. Sound(b) /\ Nodes(a) \subseteq Nodes(b) /\ F \subseteq Nodes(b)
  BY <1>5, <1>8, <1>10 DEF Advances, Grows
<1>12. /\ Advances(b, c) /\ c.run = b.run /\ c.records = b.records
       /\ \A n \in Nodes(b) : c.nodes[n] = b.nodes[n]
       /\ F = {} => c = b
       /\ F # {} => Adds(b, c, {FinalCheck}, F \X {FinalCheck})
  BY <1>5, <1>11, FinalCheckSound
<1> HIDE DEF c
<1>13. Sound(c) /\ Nodes(b) \subseteq Nodes(c)
  BY <1>12 DEF Advances, Grows
<1>14. \A n \in Nodes(g) : n \in Nodes(c) /\ c.nodes[n] = g.nodes[n]
  BY <1>7, <1>8, <1>10, <1>11, <1>12, <1>13
<1>15. \A n \in T : Idle(c, n)
  BY <1>6, <1>14 DEF Idle
<1>16. /\ Advances(c, d) /\ d.run = c.run /\ d.records = c.records /\ Restated(c, d)
       /\ \A n \in Nodes(c) : d.nodes[n].state = IF n \in T THEN "retired" ELSE c.nodes[n].state
  BY <1>13, <1>15, RetiredSound
<1> HIDE DEF d
<1>17. d.run = g.run /\ d.records = g.records
  BY <1>7, <1>10, <1>12, <1>16
<1>18. Swept(g, S, a, b, c, d)
  BY <1>7, <1>10, <1>12, <1>14, <1>16, <1>17 DEF Swept, R, E, F, T
<1>19. QED BY <1>1, <1>18

(* The sweeps together.                                                    *)
LEMMA RepairedSound ==
  ASSUME NEW g, Sound(g), NEW S
  PROVE  RepairedTo(g, Repaired(g, S), S)
<1> DEFINE h == Repaired(g, S)
<1>1. PICK a, b, c, d : /\ Swept(g, S, a, b, c, d)
                        /\ h = IF HasDeadEnd(g, S) THEN [d EXCEPT !.run = "failed"] ELSE d
  BY RepairParts
<1>2. Advances(g, a) /\ Advances(a, b) /\ Advances(b, c) /\ Advances(c, d)
  BY <1>1 DEF Swept
<1>3. Advances(g, d) /\ Sound(d)
  <2>1. Advances(g, b)
    BY <1>2, AdvancesTransitive
  <2>2. Advances(g, c)
    BY <2>1, <1>2, AdvancesTransitive
  <2>3. QED BY <2>2, <1>2, AdvancesTransitive DEF Advances
<1>4. d.run = g.run /\ d.records = g.records
  BY <1>1 DEF Swept
<1>5. \A n \in Nodes(g) :
         /\ d.nodes[n].outcome = g.nodes[n].outcome
         /\ d.nodes[n].state # g.nodes[n].state => d.nodes[n].state = "retired"
  <2> SUFFICES ASSUME NEW n \in Nodes(g)
               PROVE  /\ d.nodes[n].outcome = g.nodes[n].outcome
                      /\ d.nodes[n].state # g.nodes[n].state => d.nodes[n].state = "retired"
    OBVIOUS
  <2>1. /\ n \in Nodes(c) /\ c.nodes[n] = g.nodes[n]
        /\ d.nodes[n].state = IF n \in ToRetire(g, S) THEN "retired" ELSE c.nodes[n].state
    BY <1>1 DEF Swept
  <2>2. RestatedNode(c, d, n) /\ g.nodes[n] \in NodeType
    BY <2>1, <1>1, NodeFacts DEF Swept, Restated, Sound, Typed
  <2>3. d.nodes[n].outcome = g.nodes[n].outcome
    BY <2>1, <2>2 DEF RestatedNode, NodeType
  <2>4. QED BY <2>1, <2>3
<1>6. CASE HasDeadEnd(g, S)
  <2> DEFINE k == [d EXCEPT !.run = "failed"]
  <2>1. /\ Advances(d, k) /\ k.run = "failed" /\ k.nodes = d.nodes /\ k.records = d.records
    BY <1>3, RunSound
  <2>2. h = k
    BY <1>1, <1>6
  <2> HIDE DEF k, h
  <2>3. Advances(g, k)
    BY <2>1, <1>3, AdvancesTransitive
  <2>4. QED BY <2>1, <2>2, <2>3, <1>4, <1>5, <1>6 DEF RepairedTo, h
<1>7. CASE ~HasDeadEnd(g, S)
  BY <1>1, <1>7, <1>3, <1>4, <1>5 DEF RepairedTo
<1>8. QED BY <1>6, <1>7

-----------------------------------------------------------------------------
(* Commands.                                                               *)

(* A new assignment of node states, as Tick and Die make it.               *)
LEMMA StatesChanged ==
  ASSUME NEW g, Sound(g), NEW f, f \in [Nodes(g) -> NodeType],
         \A n \in Nodes(g) : RestatedNode(g, WithNodes(g, f), n)
  PROVE  LET h == WithNodes(g, f)
         IN  /\ Advances(g, h) /\ h.run = g.run /\ h.nodes = f /\ Nodes(h) = Nodes(g)
             /\ Restated(g, h)
<1> DEFINE h == WithNodes(g, f)
<1>1. g \in GraphType /\ Nodes(g) \in SUBSET Ids
  BY NodeFacts DEF Sound, Typed
<1>2. \A k : k = WithNodes(g, f) =>
         /\ k \in GraphType /\ k.nodes = f /\ Nodes(k) = Nodes(g) /\ k.run = g.run
         /\ k.edges = g.edges /\ k.bound = g.bound /\ k.records = g.records
  BY <1>1, NodesUpdated
<1>3. /\ h \in GraphType /\ h.nodes = f /\ Nodes(h) = Nodes(g) /\ h.run = g.run
      /\ h.edges = g.edges /\ h.bound = g.bound /\ h.records = g.records
  BY <1>2
<1>4. \A n \in Nodes(g) : RestatedNode(g, h, n)
  OBVIOUS
<1> HIDE DEF h
<1>5. Advances(g, h) /\ Restated(g, h)
  BY <1>3, <1>4, RestatedSound DEF Restated
<1>6. QED BY <1>3, <1>5 DEF h

(* A scheduling tick.                                                      *)
TickedTo(g, h) ==
  /\ Advances(g, h) /\ h.run = g.run /\ Restated(g, h)
  /\ \A n \in Nodes(g) : IF n \in Ready(g) THEN h.nodes[n].state \in {"leased", "ready"}
                         ELSE h.nodes[n] = g.nodes[n]

(* It leases or readies nodes and keeps the invariant.                     *)
LEMMA TickedSound ==
  ASSUME NEW g, Sound(g)
  PROVE  TickedTo(g, Ticked(g))
<1> DEFINE ready == Ready(g)
           workers == ready \cap OfKind(g, {"worker"})
           granted == {n \in ready : n \in workers => \A m \in workers : n[1] <= m[1]}
           next(n) == IF n \in granted THEN "leased" ELSE "ready"
           y(n) == [g.nodes[n] EXCEPT !.state = next(n)]
           f == [n \in Nodes(g) |-> IF n \in ready THEN y(n) ELSE g.nodes[n]]
           h == WithNodes(g, f)
<1>1. Ticked(g) = h
  BY DEF Ticked, WithNodes
<1>2. /\ g \in GraphType /\ Nodes(g) \in SUBSET Ids
      /\ \A n \in Nodes(g) : g.nodes[n] \in NodeType
  BY NodeFacts DEF Sound, Typed
<1>3. \A n : next(n) \in {"leased", "ready"}
  OBVIOUS
<1>4. \A n \in ready : n \in Nodes(g) /\ g.nodes[n].state \in Schedulable
  BY DEF Ready, InState
<1> HIDE DEF next, ready
<1>5. \A n \in Nodes(g) : /\ y(n) \in NodeType /\ y(n).state = next(n)
                          /\ y(n) = [g.nodes[n] EXCEPT !.state = y(n).state]
  BY <1>2, <1>3 DEF NodeType, States
<1> HIDE DEF y
<1>6. f \in [Nodes(g) -> NodeType] /\ \A n \in Nodes(g) : f[n] = IF n \in ready THEN y(n) ELSE g.nodes[n]
  BY <1>2, <1>5
<1>7. g.nodes \in [Nodes(g) -> NodeType]
  BY <1>2, NodeFacts
<1> HIDE DEF f
<1>8. h.nodes = f
  BY <1>2 DEF WithNodes, GraphType
<1> HIDE DEF h
<1>9. ASSUME NEW n \in Nodes(g) PROVE RestatedNode(g, h, n)
  <2>1. CASE n \in ready
    <3>1. h.nodes[n] = y(n) /\ g.nodes[n].state \in Schedulable /\ RecordedNode(g, n)
      BY <2>1, <1>4, <1>6, <1>8 DEF Sound
    <3>2. g.nodes[n].patch = "none"
      BY <3>1 DEF RecordedNode, Schedulable
    <3>3. QED BY <3>1, <3>2, <1>3, <1>5 DEF RestatedNode, Live
  <2>2. CASE n \notin ready
    <3>1. h.nodes[n] = g.nodes[n] /\ g.nodes[n] \in NodeType
      BY <2>2, <1>2, <1>6, <1>8
    <3>2. QED BY <3>1 DEF RestatedNode, NodeType
  <2>3. QED BY <2>1, <2>2
<1>10. \A n \in Nodes(g) : RestatedNode(g, WithNodes(g, f), n)
  BY <1>9 DEF h
<1>11. \A n \in Nodes(g) : IF n \in ready THEN h.nodes[n].state \in {"leased", "ready"}
                           ELSE h.nodes[n] = g.nodes[n]
  BY <1>3, <1>5, <1>6, <1>8
<1>12. Advances(g, h) /\ h.run = g.run /\ Restated(g, h)
  BY <1>6, <1>10, StatesChanged DEF h
<1>13. TickedTo(g, h)
  BY <1>11, <1>12 DEF TickedTo, ready
<1>14. QED BY <1>1, <1>13

(* A runner's death.                                                       *)
Died(g, h, n, s) ==
  /\ Advances(g, h) /\ h.run = g.run /\ Restated(g, h) /\ h.nodes[n].state = s
  /\ \A m \in Nodes(g) : m # n => h.nodes[m] = g.nodes[m]

(* It changes the state of its node and keeps the invariant.               *)
LEMMA DeadSound ==
  ASSUME NEW g, Sound(g), NEW n \in Nodes(g), g.nodes[n].state = "leased",
         g.nodes[n].patch = "none", NEW s \in {"planned", "failed"}
  PROVE  Died(g, [g EXCEPT !.nodes[n].state = s], n, s)
<1> DEFINE x == [g.nodes[n] EXCEPT !.state = s]
           f == [g.nodes EXCEPT ![n] = x]
           h == WithNodes(g, f)
<1>1. /\ g \in GraphType /\ g.nodes \in [Nodes(g) -> NodeType] /\ g.nodes[n] \in NodeType
      /\ \A m \in Nodes(g) : g.nodes[m] \in NodeType
  BY NodeFacts DEF Sound, Typed
<1>2. x \in NodeType /\ x.state = s /\ x = [g.nodes[n] EXCEPT !.state = x.state]
  BY <1>1 DEF NodeType, States
<1>3. [g EXCEPT !.nodes[n].state = s] = h
  BY DEF WithNodes, GraphType
<1> HIDE DEF x
<1>4. f \in [Nodes(g) -> NodeType] /\ f[n] = x /\ \A m \in Nodes(g) : m # n => f[m] = g.nodes[m]
  BY <1>1, <1>2
<1> HIDE DEF f
<1>5. h.nodes = f
  BY <1>1 DEF WithNodes, GraphType
<1> HIDE DEF h
<1>6. ASSUME NEW m \in Nodes(g) PROVE RestatedNode(g, h, m)
  <2>1. CASE m = n
    BY <2>1, <1>2, <1>4, <1>5 DEF RestatedNode, Live
  <2>2. CASE m # n
    <3>1. h.nodes[m] = g.nodes[m] /\ g.nodes[m] \in NodeType
      BY <2>2, <1>1, <1>4, <1>5
    <3>2. QED BY <3>1 DEF RestatedNode, NodeType
  <2>3. QED BY <2>1, <2>2
<1>7. \A m \in Nodes(g) : RestatedNode(g, WithNodes(g, f), m)
  BY <1>6 DEF h
<1>8. Advances(g, h) /\ h.run = g.run /\ Restated(g, h)
  BY <1>4, <1>7, StatesChanged DEF h
<1>9. Died(g, h, n, s)
  BY <1>2, <1>4, <1>5, <1>8 DEF Died
<1>10. QED BY <1>3, <1>9

(* What is wired stays wired.                                              *)
LEMMA ProposedStays ==
  ASSUME NEW g, NEW h, Sound(g), Sound(h), Proposed(g), Grows(g, h),
         NEW n \in Nodes(g), KindOf(n) = "gap", g.nodes[n].patch = "work"
  PROVE  \E w \in Successors(h, {n}) : h.nodes[w].kind = "worker"
<1>1. n \in OfKind(g, {"gap"})
  BY KindFacts DEF OfKind
<1>2. PICK w \in Successors(g, {n}) : g.nodes[w].kind = "worker"
  BY <1>1 DEF Proposed
<1>3. PICK e \in g.edges : e[1] = n /\ e[2] = w
  BY DEF Successors
<1>4. w \in Nodes(g) /\ w \in Nodes(h) /\ e \in h.edges
  BY <1>3, EdgeFacts DEF Sound, Grows
<1>5. h.nodes[w].kind = "worker"
  BY <1>2, <1>4, KindFacts
<1>6. w \in Successors(h, {n})
  BY <1>3, <1>4 DEF Successors
<1>7. QED BY <1>5, <1>6

(* A step that proposes nothing leaves all proposals wired.                *)
LEMMA AdvancesProposed ==
  ASSUME NEW g, NEW h, Sound(g), Advances(g, h), Proposed(g)
  PROVE  Proposed(h)
<1> SUFFICES ASSUME NEW n \in OfKind(h, {"gap"}), h.nodes[n].patch = "work"
             PROVE  \E w \in Successors(h, {n}) : h.nodes[w].kind = "worker"
  BY DEF Proposed
<1>1. Sound(h) /\ Grows(g, h) /\ n \in Nodes(h) /\ h.nodes[n].kind = "gap"
  BY DEF Advances, OfKind
<1>2. n \in Nodes(g) /\ g.nodes[n].patch = "work"
  BY <1>1 DEF Advances, NoProposal
<1>3. KindOf(n) = "gap"
  BY <1>1, KindFacts
<1>4. QED BY <1>1, <1>2, <1>3, ProposedStays

(* The root is the only planner that is not a gap planner.                 *)
LEMMA RootFacts ==
  ASSUME NEW g, Sound(g)
  PROVE  /\ Root \in Nodes(g) /\ Root[1] = 0 /\ Root[2] = "planner" /\ Root = <<0, "planner">>
         /\ \A n \in Nodes(g) : g.nodes[n].kind = "planner" => n = Root
<1>1. Root \in Nodes(g) /\ Root[1] = 0 /\ Root[2] = "planner" /\ Root = <<0, "planner">>
  BY DEF Sound, Typed, Root
<1>2. ASSUME NEW n \in Nodes(g), g.nodes[n].kind = "planner" PROVE n = Root
  <2>1. n[2] = "planner" /\ Possible(n)
    BY <1>2, KindFacts DEF KindOf
  <2>2. QED BY <2>1 DEF Possible
<1>3. QED BY <1>1, <1>2

(* A plan's patch: its nodes are the first but the planner itself.         *)
LEMMA PlannedSound ==
  ASSUME NEW g, Sound(g), g.nodes[Root].state = "leased", g.nodes[Root].patch = "none",
         NEW plan \in Plans
  PROVE  LET p   == [g EXCEPT !.nodes[Root].patch = "work"]
             new == [m \in PlanNodes(plan) |-> NewNode(m[2], m[1], Root, NoNode)]
             h   == Connect(Created(p, new), PlanEdges(plan))
         IN  /\ Sound(h) /\ Grows(g, h) /\ Proposed(h) /\ h.run = g.run
             /\ Submits(g, h, PlanNodes(plan), PlanEdges(plan))
<1> DEFINE p == [g EXCEPT !.nodes[Root].patch = "work"]
           N == PlanNodes(plan)
           E == PlanEdges(plan)
           new == [m \in N |-> NewNode(m[2], m[1], Root, NoNode)]
           h == Connect(Created(p, new), E)
           Parts == {"worker", "verifier", "check", "gap"}
<1>1. /\ Root \in Nodes(g) /\ Root[1] = 0 /\ Root[2] = "planner" /\ Root = <<0, "planner">>
      /\ KindOf(Root) = "planner" /\ RegionOf(Root) = NoRegion /\ Root \in Ids
  BY RootFacts DEF KindOf, RegionOf, HomeOf, Recovering, Ids, Roles, Kinds
<1>2. Nodes(g) = {Root}
  BY DEF Sound, Unplanned
<1>3. /\ Sound(p) /\ Grows(g, p) /\ Nodes(p) = {Root} /\ p.run = g.run /\ p.edges = g.edges
      /\ p.nodes[Root].patch = "work" /\ Repatched(g, p)
  BY <1>1, <1>2, PatchedSound
<1> HIDE DEF p
<1>4. PICK k \in 1..MaxRegions : plan \in [1..k -> Shapes]
  BY DataflowAssumption
<1>5. /\ k \in Nat /\ MaxRegions \in Nat /\ k <= MaxRegions
      /\ \A r \in 1..k : /\ r \in Nat /\ r > 0 /\ r <= MaxRegions
                         /\ plan[r] \in {"plain", "gap", "check", "guarded"}
  BY <1>4, DataflowAssumption DEF Shapes
<1>6. \A s \in {"plain", "gap", "check", "guarded"} :
        /\ RolesOf[s] \subseteq Parts /\ "worker" \in RolesOf[s] /\ "verifier" \in RolesOf[s]
        /\ <<"worker", "verifier">> \in WiresOf[s]
        /\ \A x \in WiresOf[s] :
             /\ x[1] \in RolesOf[s] /\ x[2] \in RolesOf[s]
             /\ \/ x[1] = "worker" /\ x[2] = "verifier"
                \/ x[1] = "verifier" /\ x[2] \in {"gap", "check"}
                \/ x[1] = "check" /\ x[2] = "gap"
  BY DEF RolesOf, WiresOf
<1>7. DOMAIN plan = 1..k
  BY <1>4
<1>8. \A m \in N : /\ m[1] \in 1..k /\ m[2] \in Parts /\ m = <<m[1], m[2]>>
                   /\ m[2] \in RolesOf[plan[m[1]]]
  BY <1>5, <1>6, <1>7 DEF PlanNodes
<1>9. \A r \in 1..k : \A a \in RolesOf[plan[r]] : <<r, a>> \in N
  BY <1>7 DEF PlanNodes
<1>10. \A e \in E : \E r \in 1..k : \E x \in WiresOf[plan[r]] : e = <<<<r, x[1]>>, <<r, x[2]>>>>
  BY <1>7 DEF PlanEdges
<1>11. \A r \in 1..k : \A x \in WiresOf[plan[r]] : <<<<r, x[1]>>, <<r, x[2]>>>> \in E
  BY <1>7 DEF PlanEdges
<1> HIDE DEF N, E
<1>12. N \in SUBSET Ids
  BY <1>8, <1>5 DEF Ids, Roles, Kinds
<1>13. ASSUME NEW e \in E
       PROVE  /\ e \in N \X N /\ e[1] \in N /\ e[2] \in N /\ e[1][1] = e[2][1] /\ e[2][1] \in 1..k
              /\ \/ e[1][2] = "worker" /\ e[2][2] = "verifier"
                 \/ e[1][2] = "verifier" /\ e[2][2] \in {"gap", "check"}
                 \/ e[1][2] = "check" /\ e[2][2] = "gap"
  <2>1. PICK r \in 1..k : \E x \in WiresOf[plan[r]] : e = <<<<r, x[1]>>, <<r, x[2]>>>>
    BY <1>10
  <2>2. PICK x \in WiresOf[plan[r]] : e = <<<<r, x[1]>>, <<r, x[2]>>>>
    BY <2>1
  <2>3. /\ x[1] \in RolesOf[plan[r]] /\ x[2] \in RolesOf[plan[r]]
        /\ \/ x[1] = "worker" /\ x[2] = "verifier"
           \/ x[1] = "verifier" /\ x[2] \in {"gap", "check"}
           \/ x[1] = "check" /\ x[2] = "gap"
    BY <1>5, <1>6
  <2>4. <<r, x[1]>> \in N /\ <<r, x[2]>> \in N
    BY <2>3, <1>9
  <2>5. e[1] = <<r, x[1]>> /\ e[2] = <<r, x[2]>>
    BY <2>2
  <2>6. QED BY <2>2, <2>3, <2>4, <2>5
<1>14. E \in SUBSET (Ids \X Ids)
  BY <1>12, <1>13
<1>15. IsFiniteSet(N)
  <2>1. IsFiniteSet(1..k) /\ IsFiniteSet(Parts)
    <3>1. IsFiniteSet(1..k)
      BY <1>5, FS_Interval
    <3>2. IsFiniteSet(({"worker"} \cup {"verifier"}) \cup ({"check"} \cup {"gap"}))
      BY FS_Singleton, FS_Union
    <3>3. Parts = ({"worker"} \cup {"verifier"}) \cup ({"check"} \cup {"gap"})
      OBVIOUS
    <3>4. QED BY <3>1, <3>2, <3>3
  <2> HIDE DEF Parts
  <2>2. IsFiniteSet((1..k) \X Parts)
    BY <2>1, FS_Product
  <2>3. N \subseteq (1..k) \X Parts
    BY <1>8
  <2>4. QED BY <2>2, <2>3, FS_Subset
<1>16. \A m \in N : /\ new[m] \in NodeType /\ new[m].kind = m[2] /\ new[m].region = m[1]
                    /\ new[m].parent = Root /\ new[m].recovers = NoNode
                    /\ new[m].state = "planned" /\ new[m].outcome = "none"
                    /\ new[m].patch = "none" /\ new[m].at = 0
  <2> SUFFICES ASSUME NEW m \in N
               PROVE  LET x == NewNode(m[2], m[1], Root, NoNode)
                      IN  /\ x \in NodeType /\ x.kind = m[2] /\ x.region = m[1]
                          /\ x.parent = Root /\ x.recovers = NoNode /\ x.state = "planned"
                          /\ x.outcome = "none" /\ x.patch = "none" /\ x.at = 0
    OBVIOUS
  <2>1. m[2] \in Kinds /\ m[1] \in Nat /\ NoNode \in Ids
    BY <1>5, <1>8 DEF Kinds, NoNode, Ids, Roles
  <2>2. QED BY <2>1, <1>1, NewNodeFacts
<1>17. Fresh(N, new)
  BY <1>16 DEF Fresh
<1> HIDE DEF new
<1>18. p \in GraphType
  BY <1>3 DEF Sound, Typed
<1>19. CreatedAs(p, h, N, new, E)
  BY <1>12, <1>14, <1>17, <1>18, CreatedFacts
<1> HIDE DEF h
<1>20. /\ Extended(p, h, N, E) /\ Nodes(h) = {Root} \cup N /\ h.edges = p.edges \cup E
       /\ h.run = g.run /\ h.nodes[Root] = p.nodes[Root]
       /\ \A m \in N : m # Root /\ h.nodes[m] = new[m]
  <2>1. \A m \in N : m # Root
    BY <1>1, <1>8
  <2>2. /\ Extended(p, h, N, E) /\ \A m \in N \ Nodes(p) : h.nodes[m] = new[m]
    BY <1>19 DEF CreatedAs
  <2>3. /\ Nodes(h) = Nodes(p) \cup N /\ h.edges = p.edges \cup E /\ h.run = p.run
        /\ \A m \in Nodes(p) : h.nodes[m] = p.nodes[m]
    BY <2>2 DEF Extended
  <2>4. \A m \in N : m \in N \ Nodes(p)
    BY <2>1, <1>3
  <2>5. QED BY <2>1, <2>2, <2>3, <2>4, <1>3
<1>21. E \subseteq Nodes(h) \X Nodes(h)
  BY <1>13, <1>20
<1>22. Unplanned(h)
  BY <1>3, <1>20 DEF Unplanned
<1>23. ASSUME NEW m \in N
       PROVE  ShapedNode(h, m) /\ OwnedNode(h, m)
  <2>1. /\ m[1] \in Nat /\ m[1] > 0 /\ m[1] <= MaxRegions /\ m[2] \in Parts
        /\ m[1] \in 1..k /\ plan[m[1]] \in {"plain", "gap", "check", "guarded"}
    <3>1. m[1] \in 1..k /\ m[2] \in Parts
      BY <1>8
    <3> DEFINE r == m[1]
    <3>2. r \in 1..k
      BY <3>1
    <3> HIDE DEF Parts, r
    <3>3. r \in Nat /\ r > 0 /\ r <= MaxRegions
      BY <3>2, <1>5
    <3>4. plan[r] \in {"plain", "gap", "check", "guarded"}
      BY <3>2, <1>5
    <3>5. QED BY <3>1, <3>2, <3>3, <3>4 DEF r
  <2>2. Possible(m)
    <3>1. m[1] > 0 /\ MaxRegions \in Nat /\ m[2] # "planner"
      BY <2>1, DataflowAssumption
    <3>2. m[1] # 0 /\ ~(m[1] > MaxRegions)
      <4> DEFINE r == m[1]
      <4>1. r \in Nat /\ r > 0 /\ r <= MaxRegions /\ MaxRegions \in Nat
        BY <2>1, <3>1
      <4> HIDE DEF r
      <4>2. r # 0 /\ ~(r > MaxRegions)
        BY <4>1
      <4>3. QED BY <4>2 DEF r
    <3>3. QED BY <3>1, <3>2 DEF Possible
  <2>3. KindOf(m) = m[2] /\ RegionOf(m) = m[1] /\ AnswerOf(m) = NoNode /\ m[2] \notin Recovering
    BY <2>1 DEF KindOf, RegionOf, HomeOf, AnswerOf, Recovering
  <2>4. Pair(m) \in h.edges
    <3>1. <<"worker", "verifier">> \in WiresOf[plan[m[1]]]
      BY <2>1, <1>6
    <3>2. <<<<m[1], "worker">>, <<m[1], "verifier">>>> \in E
      BY <3>1, <2>1, <1>11
    <3>3. QED BY <3>2, <1>20 DEF Pair
  <2>5. ShapedNode(h, m)
    BY <2>2, <2>3, <2>4, <1>3, <1>16, <1>20 DEF ShapedNode
  <2>6. QED BY <2>3, <2>5 DEF OwnedNode
<1>24. ASSUME NEW e \in E
       PROVE  RoutedEdge(h, e) /\ RecoveryNode(e[1]) \notin Nodes(p)
  <2>1. e[1][1] = e[2][1] /\ e[1] = <<e[1][1], e[1][2]>> /\ e[2] = <<e[2][1], e[2][2]>>
    BY <1>8, <1>13
  <2>2. RoutedEdge(h, e)
    BY <2>1, <1>13 DEF RoutedEdge, PlanGap
  <2>3. RecoveryNode(e[1]) # Root
    BY <1>1 DEF RecoveryNode
  <2>4. QED BY <2>2, <2>3, <1>3
<1>25. Regions(p) = {}
  <2>1. \A m \in Nodes(p) : p.nodes[m].region = NoRegion
    BY <1>1, <1>3, KindFacts
  <2>2. QED BY <2>1 DEF Regions
<1>26. Advances(p, h)
  BY <1>3, <1>15, <1>20, <1>21, <1>22, <1>23, <1>24, <1>25, ExtendedSound
<1>27. Sound(h) /\ Grows(g, h)
  BY <1>3, <1>26, GrowsTransitive DEF Advances
<1>28. Proposed(h)
  <2> SUFFICES ASSUME NEW m \in OfKind(h, {"gap"}), h.nodes[m].patch = "work" PROVE FALSE
    BY DEF Proposed
  <2>1. m \in Nodes(h) /\ KindOf(m) = "gap"
    BY <1>27, KindFacts DEF OfKind
  <2>2. m \in N
    BY <2>1, <1>1, <1>20
  <2>3. QED BY <2>2, <1>16, <1>20
<1>29. Submits(g, h, N, E)
  <2>1. Adds(p, h, N, E)
    BY <1>19 DEF CreatedAs, Adds
  <2>2. QED BY <2>1, <1>3, <1>26 DEF Submits, Advances
<1>30. QED BY <1>20, <1>27, <1>28, <1>29 DEF h, p, new, N, E

(* A gap planner's patch that proposes nothing.                            *)
LEMMA EmptySound ==
  ASSUME NEW g, Sound(g), NEW n \in Nodes(g), KindOf(n) = "gap",
         g.nodes[n].state = "leased", g.nodes[n].patch = "none"
  PROVE  LET h == [g EXCEPT !.nodes[n].patch = "empty"]
         IN  /\ Sound(h) /\ Grows(g, h) /\ h.run = g.run /\ (Proposed(g) => Proposed(h))
             /\ Repatched(g, h)
<1> DEFINE h == [g EXCEPT !.nodes[n].patch = "empty"]
<1>1. /\ Sound(h) /\ Grows(g, h) /\ Nodes(h) = Nodes(g) /\ h.run = g.run /\ h.edges = g.edges
      /\ h.nodes[n].patch = "empty" /\ \A m \in Nodes(g) : m # n => h.nodes[m] = g.nodes[m]
      /\ Repatched(g, h)
  BY PatchedSound
<1> HIDE DEF h
<1>2. ASSUME Proposed(g), NEW m \in OfKind(h, {"gap"}), h.nodes[m].patch = "work"
      PROVE  \E w \in Successors(h, {m}) : h.nodes[w].kind = "worker"
  <2>1. m \in Nodes(g) /\ m # n /\ h.nodes[m].kind = "gap"
    BY <1>1, <1>2 DEF OfKind
  <2>2. g.nodes[m].patch = "work" /\ KindOf(m) = "gap"
    BY <2>1, <1>1, <1>2, KindFacts
  <2>3. QED BY <2>1, <2>2, <1>1, <1>2, ProposedStays
<1>3. Proposed(g) => Proposed(h)
  BY <1>2 DEF Proposed
<1>4. QED BY <1>1, <1>3 DEF h

(* A gap planner's patch that proposes a correction.                       *)
LEMMA CorrectedSound ==
  ASSUME NEW g, Sound(g), NEW n \in Nodes(g), KindOf(n) = "gap",
         g.nodes[n].state = "leased", g.nodes[n].patch = "none",
         NEW c \in Nat, NEW wired \in BOOLEAN
  PROVE  LET p   == [g EXCEPT !.nodes[n].patch = "work"]
             w   == CorrectionAt(c + 1, "worker")
             v   == CorrectionAt(c + 1, "verifier")
             new == [m \in {w, v} |-> NewNode(m[2], Corrective, n, NoNode)]
             h   == Connect(Created(p, new),
                            {<<w, v>>} \cup (IF wired THEN {<<n, w>>} ELSE {}))
         IN  /\ Sound(h) /\ Grows(g, h) /\ h.run = g.run /\ (wired /\ Proposed(g) => Proposed(h))
             /\ Corrects(g, h, n)
<1> DEFINE p   == [g EXCEPT !.nodes[n].patch = "work"]
           w   == CorrectionAt(c + 1, "worker")
           v   == CorrectionAt(c + 1, "verifier")
           N   == {w, v}
           new == [m \in N |-> NewNode(m[2], Corrective, n, NoNode)]
           E   == {<<w, v>>} \cup (IF wired THEN {<<n, w>>} ELSE {})
           h   == Connect(Created(p, new), E)
<1>1. /\ Sound(p) /\ Grows(g, p) /\ Nodes(p) = Nodes(g) /\ p.run = g.run /\ p.edges = g.edges
      /\ p.nodes[n].patch = "work" /\ \A m \in Nodes(g) : m # n => p.nodes[m] = g.nodes[m]
      /\ Repatched(g, p)
  BY PatchedSound
<1> HIDE DEF p
<1>2. MaxRegions \in Nat /\ Corrective \in Nat /\ Corrective = MaxRegions + 1
  BY DataflowAssumption DEF Corrective
<1> DEFINE k == MaxRegions + (c + 1)
<1>3. k \in Nat /\ k > MaxRegions /\ k # 0 /\ ~(k <= MaxRegions)
  BY <1>2
<1>4. w = <<k, "worker">> /\ v = <<k, "verifier">>
  BY DEF CorrectionAt
<1> HIDE DEF k, w, v
<1>5. /\ n \in Ids /\ n # Root /\ n = <<n[1], n[2]>> /\ NoNode \in Ids /\ n # NoNode
  <2>1. n \in Ids /\ n = <<n[1], n[2]>> /\ n # NoNode
    BY KindFacts
  <2>2. n # Root
    BY DEF KindOf, Recovering, Root
  <2>3. NoNode \in Ids
    BY DEF NoNode, Ids, Roles, Kinds
  <2>4. QED BY <2>1, <2>2, <2>3
<1>6. /\ w \in Ids /\ v \in Ids /\ w[1] = k /\ v[1] = k /\ w[2] = "worker" /\ v[2] = "verifier"
  BY <1>3, <1>4 DEF Ids, Roles, Kinds
<1>7. \A m \in N : /\ new[m] \in NodeType /\ new[m].kind = m[2] /\ new[m].region = Corrective
                   /\ new[m].parent = n /\ new[m].recovers = NoNode
                   /\ new[m].state = "planned" /\ new[m].outcome = "none"
                   /\ new[m].patch = "none" /\ new[m].at = 0
  <2> SUFFICES ASSUME NEW m \in N
               PROVE  LET x == NewNode(m[2], Corrective, n, NoNode)
                      IN  /\ x \in NodeType /\ x.kind = m[2] /\ x.region = Corrective
                          /\ x.parent = n /\ x.recovers = NoNode /\ x.state = "planned"
                          /\ x.outcome = "none" /\ x.patch = "none" /\ x.at = 0
    OBVIOUS
  <2>1. m[2] \in Kinds
    BY <1>6 DEF Kinds
  <2>2. QED BY <2>1, <1>2, <1>5, NewNodeFacts
<1>8. Fresh(N, new)
  BY <1>7 DEF Fresh
<1> HIDE DEF new
<1>9. \A e \in E : e = <<w, v>> \/ (wired /\ e = <<n, w>>)
  OBVIOUS
<1>10. <<w, v>> \in E /\ (wired => <<n, w>> \in E)
  OBVIOUS
<1>11. IsFiniteSet(N)
  <2>1. IsFiniteSet({w} \cup {v})
    BY FS_Singleton, FS_Union
  <2>2. {w} \cup {v} = N
    OBVIOUS
  <2>3. QED BY <2>1, <2>2
<1>12. N \in SUBSET Ids /\ w \in N /\ v \in N /\ \A m \in N : m = w \/ m = v
  BY <1>6
<1> HIDE DEF E, N
<1>13. E \in SUBSET (Ids \X Ids)
  BY <1>5, <1>6, <1>9
<1>14. p \in GraphType /\ Nodes(p) \in SUBSET Ids
  BY <1>1, NodeFacts DEF Sound, Typed
<1>15. CreatedAs(p, h, N, new, E)
  BY <1>12, <1>13, <1>14, <1>8, CreatedFacts
<1> HIDE DEF h
<1>16. /\ Extended(p, h, N, E) /\ Nodes(h) = Nodes(g) \cup N /\ h.edges = g.edges \cup E
       /\ h.run = g.run /\ \A m \in Nodes(g) : h.nodes[m] = p.nodes[m]
       /\ \A m \in N \ Nodes(g) : h.nodes[m] = new[m]
  BY <1>15, <1>1 DEF CreatedAs, Extended
<1>17. E \subseteq Nodes(h) \X Nodes(h)
  BY <1>9, <1>12, <1>16
<1>18. Unplanned(h)
  <2>1. Root \in Nodes(g) /\ p.nodes[Root].patch # "none"
    BY <1>1, <1>5 DEF Sound, Typed, Unplanned
  <2>2. QED BY <2>1, <1>16 DEF Unplanned
<1>19. ASSUME NEW m \in N \ Nodes(g)
       PROVE  ShapedNode(h, m) /\ OwnedNode(h, m) /\ RegionOf(m) \notin 1..MaxRegions
  <2>1. m[1] = k /\ m[2] \in {"worker", "verifier"} /\ m \in Ids
    BY <1>6, <1>12
  <2>2. m[2] \notin Recovering /\ KindOf(m) = m[2] /\ AnswerOf(m) = NoNode
    BY <2>1 DEF KindOf, AnswerOf, Recovering
  <2>3. RegionOf(m) = Corrective
    BY <2>1, <2>2, <1>3 DEF RegionOf, HomeOf
  <2>4. Possible(m)
    BY <2>1, <1>3 DEF Possible
  <2>5. Pair(m) \in h.edges
    BY <2>1, <1>4, <1>10, <1>16 DEF Pair
  <2>6. h.nodes[m] = new[m] /\ h.nodes[n].patch = "work" /\ n \in Nodes(h)
    BY <1>1, <1>16
  <2>7. ShapedNode(h, m)
    BY <2>2, <2>3, <2>4, <2>5, <2>6, <1>7 DEF ShapedNode
  <2>8. OwnedNode(h, m)
    BY <2>2 DEF OwnedNode
  <2>9. RegionOf(m) \notin 1..MaxRegions
    BY <2>3, <1>2
  <2>10. QED BY <2>7, <2>8, <2>9
<1>20. ASSUME NEW e \in E PROVE RoutedEdge(h, e) /\ e[2][2] # "gap"
  <2>1. CASE e = <<w, v>>
    <3>1. e[1] = w /\ e[2] = v
      BY <2>1
    <3>2. QED BY <3>1, <1>4, <1>6 DEF RoutedEdge
  <2>2. CASE e = <<n, w>>
    <3>1. e[1] = n /\ e[2] = w /\ h.nodes[n].patch = "work"
      BY <2>2, <1>1, <1>16
    <3>2. QED BY <3>1, <1>3, <1>6 DEF RoutedEdge
  <2>3. QED BY <2>1, <2>2, <1>9
<1>21. Advances(p, h)
  BY <1>1, <1>11, <1>16, <1>17, <1>18, <1>19, <1>20, ExtendedSound
<1>22. Sound(h) /\ Grows(g, h)
  BY <1>1, <1>21, GrowsTransitive DEF Advances
<1>23. ASSUME wired, Proposed(g), NEW m \in OfKind(h, {"gap"}), h.nodes[m].patch = "work"
       PROVE  \E x \in Successors(h, {m}) : h.nodes[x].kind = "worker"
  <2>1. m \in Nodes(h) /\ KindOf(m) = "gap"
    BY <1>22, KindFacts DEF OfKind
  <2>2. m \in Nodes(g)
    BY <1>7, <1>16, <1>23, <2>1
  <2>3. CASE m = n
    <3> DEFINE e == <<n, w>>
    <3>1. e \in h.edges /\ e[1] = n /\ e[2] = w
      BY <1>10, <1>16, <1>23
    <3> HIDE DEF e
    <3>2. w \in Successors(h, {n})
      BY <3>1 DEF Successors
    <3>3. w \in Nodes(h) /\ KindOf(w) = "worker"
      BY <1>6, <1>12, <1>16 DEF KindOf, Recovering
    <3>4. QED BY <2>3, <3>2, <3>3, <1>22, KindFacts
  <2>4. CASE m # n
    <3>1. g.nodes[m].patch = "work"
      BY <2>2, <2>4, <1>1, <1>16, <1>23
    <3>2. QED BY <3>1, <2>1, <2>2, <1>22, <1>23, ProposedStays
  <2>5. QED BY <2>3, <2>4
<1>24. wired /\ Proposed(g) => Proposed(h)
  BY <1>23 DEF Proposed
<1>25. Corrects(g, h, n)
  <2>1. Adds(p, h, N, E)
    BY <1>15 DEF CreatedAs, Adds
  <2>2. Submits(g, h, N, E)
    BY <2>1, <1>1, <1>21 DEF Submits, Advances
  <2>3. \A m \in N \ Nodes(g) : m[2] \in {"worker", "verifier"} /\ h.nodes[m].parent = n
    BY <1>6, <1>7, <1>12, <1>16
  <2>4. \A e \in E : e[2][2] \in {"worker", "verifier"}
    <3> SUFFICES ASSUME NEW e \in E PROVE e[2] \in {w, v}
      BY <1>6
    <3>1. QED BY <1>9
  <2>5. QED BY <2>2, <2>3, <2>4 DEF Corrects
<1>26. QED BY <1>16, <1>22, <1>24, <1>25 DEF h, p, new, N, E, w, v

(* The nodes and edges of a plan: each gap planner, and each check, has an *)
(* edge to it, a gap planner only one.                                     *)
LEMMA PlanFacts ==
  ASSUME NEW plan \in Plans
  PROVE  LET N == PlanNodes(plan)
             E == PlanEdges(plan)
         IN  /\ \A m \in N : m[1] \in 1..MaxRegions /\ m[2] \notin Recovering
             /\ \A m \in N : m[2] \in {"gap", "check"} => \E e \in E : e[2] = m
             /\ \A e, f \in E : e[2] = f[2] /\ e[2][2] = "gap" => e[1] = f[1]
             /\ \A e \in E : e[2] \in N
<1> DEFINE N == PlanNodes(plan)
           E == PlanEdges(plan)
           S == {"plain", "gap", "check", "guarded"}
<1>1. PICK k \in 1..MaxRegions : plan \in [1..k -> Shapes]
  BY DataflowAssumption
<1>2. DOMAIN plan = 1..k /\ \A r \in 1..k : plan[r] \in S /\ r \in 1..MaxRegions
  BY <1>1, DataflowAssumption DEF Shapes
<1>3. ASSUME NEW s \in S
      PROVE  /\ \A a \in RolesOf[s] : a \in {"worker", "verifier", "check", "gap"}
             /\ \A a \in RolesOf[s] : a \in {"gap", "check"} => \E x \in WiresOf[s] : x[2] = a
             /\ \A x, y \in WiresOf[s] : x[2] = "gap" /\ y[2] = "gap" => x[1] = y[1]
             /\ \A x \in WiresOf[s] : x[2] \in RolesOf[s]
  <2>1. /\ \A a \in RolesOf[s] : a \in {"worker", "verifier", "check", "gap"}
        /\ \A x \in WiresOf[s] : x[2] \in RolesOf[s]
    BY DEF RolesOf, WiresOf
  <2>2. \A x, y \in WiresOf[s] : x[2] = "gap" /\ y[2] = "gap" => x[1] = y[1]
    BY DEF WiresOf
  <2>3. \A a \in RolesOf[s] : a \in {"gap", "check"} => \E b : <<b, a>> \in WiresOf[s]
    <3>1. CASE s = "plain"
      BY <3>1 DEF RolesOf
    <3>2. CASE s = "gap"
      <4>1. <<"verifier", "gap">> \in WiresOf[s] /\ RolesOf[s] = {"worker", "verifier", "gap"}
        BY <3>2 DEF WiresOf, RolesOf
      <4>2. QED BY <4>1
    <3>3. CASE s = "check"
      <4>1. <<"verifier", "check">> \in WiresOf[s] /\ RolesOf[s] = {"worker", "verifier", "check"}
        BY <3>3 DEF WiresOf, RolesOf
      <4>2. QED BY <4>1
    <3>4. CASE s = "guarded"
      <4>1. <<"verifier", "check">> \in WiresOf[s] /\ <<"check", "gap">> \in WiresOf[s]
        BY <3>4 DEF WiresOf
      <4>2. RolesOf[s] = {"worker", "verifier", "check", "gap"}
        BY <3>4 DEF RolesOf
      <4>3. QED BY <4>1, <4>2
    <3>5. QED BY <3>1, <3>2, <3>3, <3>4
  <2>4. ASSUME NEW a \in RolesOf[s], a \in {"gap", "check"} PROVE \E x \in WiresOf[s] : x[2] = a
    <3>1. PICK b : <<b, a>> \in WiresOf[s]
      BY <2>3, <2>4
    <3> DEFINE x == <<b, a>>
    <3>2. x \in WiresOf[s] /\ x[2] = a
      BY <3>1
    <3> HIDE DEF x
    <3>3. QED BY <3>2
  <2>5. QED BY <2>1, <2>2, <2>4
<1>4. \A m \in N : /\ m[1] \in 1..k /\ m = <<m[1], m[2]>> /\ m[2] \in RolesOf[plan[m[1]]]
  BY <1>2 DEF PlanNodes
<1>5. \A r \in 1..k : \A a \in RolesOf[plan[r]] : <<r, a>> \in N
  BY <1>2 DEF PlanNodes
<1>6. \A e \in E : \E r \in 1..k : \E x \in WiresOf[plan[r]] : e = <<<<r, x[1]>>, <<r, x[2]>>>>
  BY <1>2 DEF PlanEdges
<1>7. \A r \in 1..k : \A x \in WiresOf[plan[r]] : <<<<r, x[1]>>, <<r, x[2]>>>> \in E
  BY <1>2 DEF PlanEdges
<1> HIDE DEF N, E
<1>8. \A m \in N : m[1] \in 1..MaxRegions /\ m[2] \notin Recovering
  BY <1>2, <1>3, <1>4 DEF Recovering
<1>9. ASSUME NEW m \in N, m[2] \in {"gap", "check"} PROVE \E e \in E : e[2] = m
  <2> DEFINE r == m[1]
  <2>1. r \in 1..k /\ m = <<r, m[2]>> /\ m[2] \in RolesOf[plan[r]]
    BY <1>4
  <2>2. PICK x \in WiresOf[plan[r]] : x[2] = m[2]
    BY <2>1, <1>2, <1>3, <1>9
  <2> HIDE DEF r
  <2> DEFINE e == <<<<r, x[1]>>, <<r, x[2]>>>>
  <2>3. e \in E /\ e[2] = <<r, x[2]>>
    BY <2>1, <1>7
  <2>4. e[2] = m
    BY <2>1, <2>2, <2>3
  <2>5. QED BY <2>3, <2>4
<1>10. ASSUME NEW e \in E, NEW f \in E, e[2] = f[2], e[2][2] = "gap" PROVE e[1] = f[1]
  <2>1. PICK r \in 1..k : \E x \in WiresOf[plan[r]] : e = <<<<r, x[1]>>, <<r, x[2]>>>>
    BY <1>6
  <2>2. PICK x \in WiresOf[plan[r]] : e = <<<<r, x[1]>>, <<r, x[2]>>>>
    BY <2>1
  <2>3. PICK q \in 1..k : \E y \in WiresOf[plan[q]] : f = <<<<q, y[1]>>, <<q, y[2]>>>>
    BY <1>6
  <2>4. PICK y \in WiresOf[plan[q]] : f = <<<<q, y[1]>>, <<q, y[2]>>>>
    BY <2>3
  <2>5. e[1] = <<r, x[1]>> /\ e[2] = <<r, x[2]>> /\ f[1] = <<q, y[1]>> /\ f[2] = <<q, y[2]>>
    BY <2>2, <2>4
  <2>6. r = q /\ x[2] = "gap" /\ y[2] = "gap"
    BY <2>5, <1>10
  <2>7. x[1] = y[1]
    BY <2>6, <1>2, <1>3
  <2>8. QED BY <2>5, <2>6, <2>7
<1>11. ASSUME NEW e \in E PROVE e[2] \in N
  <2>1. PICK r \in 1..k : \E x \in WiresOf[plan[r]] : e = <<<<r, x[1]>>, <<r, x[2]>>>>
    BY <1>6
  <2>2. PICK x \in WiresOf[plan[r]] : e = <<<<r, x[1]>>, <<r, x[2]>>>>
    BY <2>1
  <2>3. e[2] = <<r, x[2]>> /\ x[2] \in RolesOf[plan[r]]
    BY <2>2, <1>2, <1>3
  <2>4. QED BY <2>3, <1>5
<1>12. QED BY <1>8, <1>9, <1>10, <1>11 DEF N, E

-----------------------------------------------------------------------------
(* Dead ends.                                                              *)

(* A recovery planner that proposed nothing: what answers its failure is   *)
(* the planner itself and a planner of the plan that can no longer answer. *)
LEMMA EmptyUnrepaired ==
  ASSUME NEW g, Sound(g), NEW p \in Nodes(g), p[2] \in Recovering, g.nodes[p].patch = "empty"
  PROVE  /\ Recovered(p) \in Nodes(g) /\ p \in Recoveries(g, Recovered(p))
         /\ RepairedBy(g, Recovered(p)) = {}
<1> DEFINE n == Recovered(p)
           q == PlanGap(p)
           C == {m \in Nodes(g) : m = n \/ m = p \/ (m = q /\ <<n, q>> \in g.edges)}
<1>1. /\ n \in Nodes(g) /\ g.nodes[n].outcome = "failed"
      /\ <<n, q>> \in g.edges => g.nodes[q].state \in {"failed", "retired"}
  BY OwnedFacts DEF Sound, OwnedNode
<1>2. p \in Recoveries(g, n)
  BY KindFacts DEF Recoveries, AnswerOf
<1>3. /\ n[2] \in {"verifier", "check"} /\ RecoveryNode(n) = p /\ PlanGap(n) = q
      /\ q[2] = "gap" /\ q # n /\ p # n /\ p # q
  <2>1. p = <<p[1], p[2]>> /\ p[2] \in {"verifier_recovery", "check_recovery"}
    BY KindFacts DEF Recovering
  <2>2. QED BY <2>1 DEF Recovered, RecoveryNode, PlanGap
<1> HIDE DEF n, q
<1>4. n \in C /\ p \in C /\ (q \in C => <<n, q>> \in g.edges) /\ \A m \in C : m \in {n, p, q}
  BY <1>1, <1>3
<1>5. /\ C \in SUBSET Nodes(g)
      /\ <<n, q>> \in g.edges /\ q \in Nodes(g) => q \in C
  OBVIOUS
<1> HIDE DEF C
<1>6. Lineage(g) \in SUBSET (Nodes(g) \X Nodes(g)) /\ IsFiniteSet(Nodes(g))
  BY DEF Lineage, Sound, Typed
<1>7. Closed(Lineage(g), C)
  <2> SUFFICES ASSUME NEW e \in Lineage(g), e[1] \in C PROVE e[2] \in C
    BY DEF Closed
  <2>1. e[1] \in Nodes(g) /\ e[2] \in Nodes(g) /\ e = <<e[1], e[2]>>
    BY <1>6
  <2>2. CASE e \in g.edges /\ g.nodes[e[2]].kind = "gap"
    <3>1. KindOf(e[2]) = "gap" /\ RoutedEdge(g, e)
      BY <2>1, <2>2, KindFacts DEF Sound
    <3>2. e[1][2] \in {"verifier", "check"} /\ e[2] \in {RecoveryNode(e[1]), PlanGap(e[1])}
      BY <3>1 DEF RoutedEdge, KindOf, Recovering
    <3>3. e[1] = n
      <4>1. p[2] \notin {"verifier", "check"} /\ q[2] \notin {"verifier", "check"}
        BY <1>3 DEF Recovering
      <4>2. QED BY <4>1, <3>2, <1>4
    <3>4. e[2] = p \/ (e[2] = q /\ <<n, q>> \in g.edges)
      BY <3>2, <3>3, <1>3, <2>1, <2>2
    <3>5. QED BY <3>4, <2>1, <1>4, <1>5
  <2>3. CASE g.nodes[e[2]].parent = e[1]
    <3>1. e[1] # NoNode /\ ShapedNode(g, e[2])
      BY <2>1, KindFacts DEF Sound
    <3>2. g.nodes[e[1]].patch = "work" /\ RecordedNode(g, e[1])
      BY <3>1, <2>1, <2>3 DEF ShapedNode, Sound
    <3>3. KindOf(e[1]) \in {"planner", "gap"} /\ g.nodes[e[1]].state \in {"leased", "completed"}
      BY <3>2 DEF RecordedNode
    <3>4. e[1] # n
      BY <3>3, <1>3 DEF KindOf, Recovering
    <3>5. e[1] # p
      BY <3>2
    <3>6. e[1] # q
      BY <3>3, <1>1, <1>4
    <3>7. QED BY <3>4, <3>5, <3>6, <1>4
  <2>4. QED BY <2>2, <2>3 DEF Lineage
<1>8. Reachable(Nodes(g), Lineage(g), {n}) \subseteq C
  <2>1. {n} \in SUBSET Nodes(g) /\ {n} \subseteq C
    BY <1>1, <1>4
  <2>2. QED BY <2>1, <1>5, <1>6, <1>7, ReachableIsClosure
<1>9. ASSUME NEW m \in C PROVE m \notin Passing(g, {"verifier"})
  <2>1. CASE m = n
    BY <2>1, <1>1 DEF Passing, WithOutcome
  <2>2. CASE m = p \/ m = q
    <3>1. KindOf(m) = "gap"
      BY <2>2, <1>3 DEF KindOf, Recovering
    <3>2. g.nodes[m].kind = "gap"
      BY <3>1, <1>5, KindFacts
    <3>3. QED BY <3>2 DEF Passing, OfKind
  <2>3. QED BY <2>1, <2>2, <1>4
<1>10. RepairedBy(g, n) = {}
  BY <1>8, <1>9 DEF RepairedBy
<1>11. QED BY <1>1, <1>2, <1>10 DEF n

(* A graph that has a dead end, and what follows, has such a planner.      *)
LEMMA DeadEndUnrepaired ==
  ASSUME NEW g, NEW h, NEW S, Sound(g), Sound(h), Grows(g, h), Proposed(g), HasDeadEnd(g, S)
  PROVE  \E n \in Nodes(h) : \E p \in Recoveries(h, n) :
            h.nodes[p].state = "completed" /\ RepairedBy(h, n) = {}
<1>1. PICK p \in DeadEnds(g, S) : TRUE
  BY DEF HasDeadEnd
<1>2. /\ p \in Nodes(g) /\ g.nodes[p].state = "completed" /\ g.nodes[p].patch # "none"
      /\ g.nodes[p].recovers \in Nodes(g) /\ ~CreatedSuccessors(g, p)
  BY DEF DeadEnds, InState, CurrentFailures, Failing, OfKind
<1>3. p[2] \in Recovering
  <2>1. AnswerOf(p) \in Nodes(g)
    BY <1>2, KindFacts
  <2>2. AnswerOf(p) # NoNode
    BY <2>1, KindFacts
  <2>3. QED BY <2>2 DEF AnswerOf
<1>4. g.nodes[p].patch = "empty"
  <2>1. g.nodes[p].patch \in Patches
    BY <1>2, NodeFacts DEF Sound, Typed
  <2>2. ASSUME g.nodes[p].patch = "work" PROVE FALSE
    <3>1. p \in OfKind(g, {"gap"})
      BY <1>2, <1>3, KindFacts DEF OfKind, KindOf
    <3>2. PICK w \in Successors(g, {p}) : g.nodes[w].kind = "worker"
      BY <2>2, <3>1 DEF Proposed
    <3>3. QED BY <3>2, <1>2 DEF CreatedSuccessors
  <2>3. QED BY <1>2, <2>1, <2>2 DEF Patches
<1>5. p \in Nodes(h) /\ h.nodes[p].state = "completed" /\ h.nodes[p].patch = "empty"
  <2>1. KeptNode(g, h, p) /\ p \in Nodes(h)
    BY <1>2 DEF Grows
  <2>2. "completed" \notin Live
    BY DEF Live, Schedulable
  <2>3. QED BY <2>1, <2>2, <1>2, <1>4 DEF KeptNode
<1>6. /\ Recovered(p) \in Nodes(h) /\ p \in Recoveries(h, Recovered(p))
      /\ RepairedBy(h, Recovered(p)) = {}
  BY <1>3, <1>5, EmptyUnrepaired
<1>7. QED BY <1>5, <1>6

-----------------------------------------------------------------------------
(* Accepted regions.                                                       *)

(* What a later graph keeps of a node.                                     *)
LEMMA NodeStays ==
  ASSUME NEW g, NEW h, Sound(g), Sound(h), Grows(g, h), NEW n \in Nodes(g)
  PROVE  /\ n \in Nodes(h) /\ h.nodes[n].kind = g.nodes[n].kind
         /\ h.nodes[n].region = g.nodes[n].region /\ h.nodes[n].recovers = g.nodes[n].recovers
         /\ g.nodes[n].outcome # "none" => h.nodes[n].outcome = g.nodes[n].outcome
<1>1. n \in Nodes(h) /\ KeptNode(g, h, n)
  BY DEF Grows
<1>2. QED BY <1>1, KindFacts DEF KeptNode

(* A passed verdict stays passed.                                          *)
LEMMA PassingStays ==
  ASSUME NEW g, NEW h, Sound(g), Sound(h), Grows(g, h), NEW K
  PROVE  Passing(g, K) \subseteq Passing(h, K)
BY NodeStays DEF Passing, OfKind, WithOutcome

(* What is downstream of a node is a least closed set.                     *)
LEMMA DownstreamFacts ==
  ASSUME NEW g, Sound(g), NEW p
  PROVE  /\ Successors(g, {p}) \subseteq DownstreamOf(g, p) /\ DownstreamOf(g, p) \subseteq Nodes(g)
         /\ Closed(g.edges, DownstreamOf(g, p))
         /\ \A C \in SUBSET Nodes(g) : Successors(g, {p}) \subseteq C /\ Closed(g.edges, C) =>
              DownstreamOf(g, p) \subseteq C
<1>1. IsFiniteSet(Nodes(g)) /\ g.edges \in SUBSET (Nodes(g) \X Nodes(g))
  BY DEF Sound, Typed
<1>2. Successors(g, {p}) \in SUBSET Nodes(g)
  BY <1>1 DEF Successors
<1>3. QED BY <1>1, <1>2, ReachableIsClosure DEF DownstreamOf

(* Nothing ceases to be downstream.                                        *)
LEMMA DownstreamGrows ==
  ASSUME NEW g, NEW h, Sound(g), Sound(h), Grows(g, h), NEW p
  PROVE  DownstreamOf(g, p) \subseteq DownstreamOf(h, p)
<1> DEFINE C == DownstreamOf(h, p) \cap Nodes(g)
<1>1. /\ Successors(h, {p}) \subseteq DownstreamOf(h, p)
      /\ Closed(h.edges, DownstreamOf(h, p))
  BY DownstreamFacts
<1>2. g.edges \subseteq h.edges /\ \A e \in g.edges : e[2] \in Nodes(g)
  BY EdgeFacts DEF Grows, Sound
<1>3. Successors(g, {p}) \subseteq C
  BY <1>1, <1>2 DEF Successors
<1>4. Closed(g.edges, C)
  BY <1>1, <1>2 DEF Closed
<1>5. C \in SUBSET Nodes(g)
  OBVIOUS
<1> HIDE DEF C
<1>6. DownstreamOf(g, p) \subseteq C
  BY <1>3, <1>4, <1>5, DownstreamFacts
<1>7. QED BY <1>6 DEF C

(* A superseded check stays superseded.                                    *)
LEMMA CheckSupersededStays ==
  ASSUME NEW g, NEW h, Sound(g), Sound(h), Grows(g, h), NEW c, CheckSuperseded(g, c)
  PROVE  CheckSuperseded(h, c)
<1>1. PICK p \in Recoveries(g, c) : DownstreamOf(g, p) \cap Passing(g, {"verifier", "check"}) # {}
  BY DEF CheckSuperseded
<1>2. p \in Recoveries(h, c)
  BY NodeStays DEF Recoveries
<1>3. DownstreamOf(h, p) \cap Passing(h, {"verifier", "check"}) # {}
  BY <1>1, DownstreamGrows, PassingStays
<1>4. QED BY <1>2, <1>3 DEF CheckSuperseded

(* The verifiers that a recovery planner leads to are those of corrections.*)
LEMMA RecoveryLeadsToCorrections ==
  ASSUME NEW g, Sound(g), NEW p \in Nodes(g), p[2] \in Recovering,
         NEW u \in DownstreamOf(g, p), g.nodes[u].kind = "verifier"
  PROVE  u[1] > MaxRegions
<1> DEFINE C == {m \in Nodes(g) : m[2] \in {"worker", "verifier"} => m[1] > MaxRegions}
<1>1. ASSUME NEW e \in g.edges, e[1][2] = "worker" => e[1][1] > MaxRegions
      PROVE  e[2] \in C
  <2>1. RoutedEdge(g, e) /\ e[2] \in Nodes(g)
    BY EdgeFacts DEF Sound
  <2>2. CASE e[2][2] = "worker"
    BY <2>1, <2>2 DEF RoutedEdge, RecoveryNode, PlanGap
  <2>3. CASE e[2][2] = "verifier"
    <3>1. e[1] = <<e[2][1], "worker">>
      BY <2>1, <2>3 DEF RoutedEdge, RecoveryNode, PlanGap
    <3>2. e[1][1] = e[2][1] /\ e[1][2] = "worker"
      BY <3>1
    <3>3. QED BY <3>2, <2>1, <1>1
  <2>4. QED BY <2>1, <2>2, <2>3
<1>2. Successors(g, {p}) \subseteq C
  <2> SUFFICES ASSUME NEW e \in g.edges, e[1] = p PROVE e[2] \in C
    BY DEF Successors
  <2>1. e[1][2] # "worker"
    BY DEF Recovering
  <2> HIDE DEF C
  <2>2. QED BY <2>1, <1>1
<1>3. Closed(g.edges, C)
  <2> SUFFICES ASSUME NEW e \in g.edges, e[1] \in C PROVE e[2] \in C
    BY DEF Closed
  <2>1. e[1][2] = "worker" => e[1][1] > MaxRegions
    OBVIOUS
  <2> HIDE DEF C
  <2>2. QED BY <2>1, <1>1
<1>4. C \in SUBSET Nodes(g)
  OBVIOUS
<1> HIDE DEF C
<1>5. u \in C
  BY <1>2, <1>3, <1>4, DownstreamFacts
<1>6. u \in Nodes(g) /\ u[2] = "verifier"
  BY <1>5, KindFacts DEF C, KindOf
<1>7. QED BY <1>5, <1>6 DEF C

(* The region of the corrections has no checks.                            *)
LEMMA CorrectionsUnchecked ==
  ASSUME NEW g, Sound(g), NEW n \in Nodes(g), n[1] > MaxRegions, g.nodes[n].kind = "verifier"
  PROVE  OfKind(g, {"check"}) \cap InRegion(g, g.nodes[n].region) = {}
<1>1. n[1] \in Nat /\ MaxRegions \in Nat /\ n[2] = "verifier"
  BY KindFacts, DataflowAssumption DEF KindOf
<1>2. g.nodes[n].region = MaxRegions + 1
  <2>1. RegionOf(n) = HomeOf(n)
    BY <1>1 DEF RegionOf, Recovering
  <2>2. HomeOf(n) = Corrective
    <3> DEFINE k == n[1]
    <3>1. k \in Nat /\ k > MaxRegions
      BY <1>1
    <3> HIDE DEF k
    <3>2. k # 0 /\ ~(k <= MaxRegions)
      BY <1>1, <3>1
    <3>3. QED BY <3>2 DEF HomeOf, k
  <2>3. QED BY <2>1, <2>2, KindFacts DEF Corrective
<1>3. ASSUME NEW c \in Nodes(g), g.nodes[c].kind = "check"
      PROVE  g.nodes[c].region # MaxRegions + 1
  <2>1. c[2] = "check" /\ c[1] \in Nat /\ Possible(c) /\ g.nodes[c].region = RegionOf(c)
    BY <1>3, KindFacts DEF KindOf
  <2>2. RegionOf(c) = HomeOf(c) /\ ~(c[1] > MaxRegions)
    BY <2>1 DEF RegionOf, Possible, Recovering
  <2>3. HomeOf(c) # MaxRegions + 1
    <3> DEFINE k == c[1]
               x == HomeOf(c)
    <3>1. k \in Nat /\ ~(k > MaxRegions) /\ c[2] = "check" /\ MaxRegions \in Nat
      BY <1>1, <2>1, <2>2
    <3>2. x = IF k = 0 THEN MaxRegions + 2 ELSE IF k <= MaxRegions THEN k ELSE Corrective
      BY <3>1 DEF HomeOf, FinalInvariant
    <3> HIDE DEF k, x
    <3>3. k <= MaxRegions /\ MaxRegions + 2 # MaxRegions + 1 /\ k # MaxRegions + 1
      BY <3>1
    <3>4. x = MaxRegions + 2 \/ x = k
      BY <3>2, <3>3
    <3>5. x # MaxRegions + 1
      BY <3>3, <3>4
    <3>6. QED BY <3>5 DEF x
  <2>4. QED BY <2>1, <2>2, <2>3
<1>4. QED BY <1>2, <1>3 DEF OfKind, InRegion

(* A region of the plan consists of the nodes named after it, and has its  *)
(* worker and its verifier.                                                *)
LEMMA PlannedRegion ==
  ASSUME NEW g, Sound(g), NEW r \in Regions(g) \cap 1..MaxRegions
  PROVE  /\ <<r, "worker">> \in Nodes(g) /\ <<r, "verifier">> \in Nodes(g)
         /\ RegionOf(<<r, "worker">>) = r /\ RegionOf(<<r, "verifier">>) = r
         /\ \A n \in InRegion(g, r) : n[1] = r /\ n[2] \notin Recovering /\ RegionOf(n) = r
<1>1. r \in Nat /\ r > 0 /\ r <= MaxRegions /\ MaxRegions \in Nat
  BY DataflowAssumption
<1>2. ASSUME NEW n \in InRegion(g, r) PROVE n[1] = r /\ n[2] \notin Recovering /\ RegionOf(n) = r
  <2>1. n \in Nodes(g) /\ RegionOf(n) = r /\ n[1] \in Nat /\ n \in Ids
    BY KindFacts DEF InRegion
  <2> DEFINE k == n[1]
             x == HomeOf(n)
  <2>2. /\ k \in Nat /\ x \in Nat
        /\ x = IF k = 0 THEN (IF n[2] = "planner" THEN 0 ELSE MaxRegions + 2)
               ELSE IF k <= MaxRegions THEN k ELSE MaxRegions + 1
        /\ r = IF n[2] \in Recovering THEN MaxRegions + 2 + x ELSE x
    BY <2>1, HomeTypes DEF HomeOf, RegionOf, RecoveryOf, FinalInvariant, Corrective, NoRegion
  <2> HIDE DEF k, x
  <2>3. n[2] \notin Recovering
    BY <2>2, <1>1
  <2>4. k = r
    BY <2>2, <2>3, <1>1
  <2>5. QED BY <2>1, <2>3, <2>4 DEF k
<1>3. PICK n \in Nodes(g) : g.nodes[n].region = r
  BY DEF Regions
<1>4. n[1] = r
  BY <1>2, <1>3 DEF InRegion
<1>5. <<r, "worker">> \in Nodes(g) /\ <<r, "verifier">> \in Nodes(g)
  BY <1>1, <1>4, KindFacts
<1>6. \A a \in {"worker", "verifier"} : RegionOf(<<r, a>>) = r
  <2> SUFFICES ASSUME NEW a \in {"worker", "verifier"} PROVE RegionOf(<<r, a>>) = r
    OBVIOUS
  <2> DEFINE n1 == <<r, a>>
  <2>1. n1[1] = r /\ n1[2] = a /\ a \notin Recovering
    BY DEF Recovering
  <2> HIDE DEF n1
  <2>2. RegionOf(n1) = r
    BY <2>1, <1>1 DEF RegionOf, HomeOf
  <2>3. QED BY <2>2 DEF n1
<1>7. QED BY <1>2, <1>5, <1>6

(* The candidate of a region of the plan is its worker's.                  *)
LEMMA PlannedCandidate ==
  ASSUME NEW g, Sound(g), NEW r \in Regions(g) \cap 1..MaxRegions, Candidates(g, r) # {}
  PROVE  Candidates(g, r) = {<<r, "worker">>} /\ Latest(g, r) = <<r, "worker">>
<1> DEFINE w == <<r, "worker">>
<1>1. \A c \in Candidates(g, r) : c = w
  <2> SUFFICES ASSUME NEW c \in Candidates(g, r) PROVE c = w
    OBVIOUS
  <2>1. c \in InRegion(g, r) /\ c \in Nodes(g) /\ g.nodes[c].kind = "worker"
    BY DEF Candidates, OfKind
  <2>2. c[1] = r /\ c[2] = "worker" /\ c = <<c[1], c[2]>>
    BY <2>1, PlannedRegion, KindFacts DEF KindOf
  <2>3. QED BY <2>2
<1> HIDE DEF w
<1>2. Candidates(g, r) = {w}
  BY <1>1
<1>3. g.nodes[w].at \in Nat
  <2>1. w \in Nodes(g)
    BY <1>2 DEF Candidates, OfKind
  <2>2. QED BY <2>1, NodeFacts DEF Sound, Typed
<1>4. Latest(g, r) = w
  <2> DEFINE Best(x) == \A c \in {w} : Position(g, c) <= Position(g, x)
  <2>1. Latest(g, r) = CHOOSE x \in {w} : Best(x)
    BY <1>2 DEF Latest
  <2>2. Best(w)
    BY <1>3 DEF Position
  <2> HIDE DEF Best
  <2>3. QED BY <2>1, <2>2
<1>5. QED BY <1>2, <1>4 DEF w

(* A region of the plan that was accepted has a candidate.                 *)
LEMMA AcceptedCandidate ==
  ASSUME NEW g, Sound(g), NEW r \in Regions(g) \cap 1..MaxRegions, Accepted(g, r)
  PROVE  Candidates(g, r) # {}
<1> SUFFICES ASSUME Candidates(g, r) = {} PROVE FALSE
  OBVIOUS
<1> DEFINE w == <<r, "worker">>
<1>1. w \in Nodes(g) /\ RegionOf(w) = r /\ w[2] = "worker"
  BY PlannedRegion
<1> HIDE DEF w
<1>2. /\ RecordedNode(g, w) /\ g.nodes[w].kind = "worker" /\ g.nodes[w].region = r
  BY <1>1, KindFacts DEF Sound, KindOf, Recovering
<1>3. g.nodes[w].state # "retired"
  BY <1>1, <1>2 DEF RecordedNode
<1> DEFINE active       == InRegion(g, r) \ InState(g, {"retired"})
           task         == active \cap OfKind(g, {"worker", "verifier"})
           contributing == IF task # {} THEN task ELSE active \cap OfKind(g, {"check"})
<1>4. \/ active = {}
      \/ \A n \in contributing : g.nodes[n].state = "completed"
  BY DEF Accepted, CandidateFreeAccepted
<1>5. w \in active /\ w \in task
  BY <1>1, <1>2, <1>3 DEF InRegion, InState, OfKind
<1>6. g.nodes[w].state = "completed"
  BY <1>4, <1>5
<1>7. w \in Candidates(g, r)
  BY <1>1, <1>2, <1>6 DEF RecordedNode, Candidates, OfKind, InRegion, WithOutcome
<1>8. QED BY <1>7

(* A verifier is never retired, so a region of the plan is not accepted    *)
(* for want of verifiers.                                                  *)
LEMMA VerifierNotRetired ==
  ASSUME NEW g, Sound(g), NEW v \in Nodes(g), v[2] = "verifier"
  PROVE  ~(OfKind(g, {"verifier"}) \cap InRegion(g, g.nodes[v].region)
             \subseteq InState(g, {"retired"}))
<1>1. g.nodes[v].kind = "verifier" /\ RecordedNode(g, v)
  BY KindFacts DEF Sound, KindOf, Recovering
<1>2. QED BY <1>1 DEF RecordedNode, OfKind, InRegion, InState

(* An accepted region of the plan stays accepted in whatever follows.      *)
LEMMA AcceptanceStays ==
  ASSUME NEW g, NEW h, Sound(g), Sound(h), Grows(g, h),
         NEW r \in Regions(g) \cap 1..MaxRegions, Accepted(g, r)
  PROVE  Accepted(h, r)
<1> DEFINE w == <<r, "worker">>
<1>1. r \in Regions(h) \cap 1..MaxRegions
  BY NodeStays DEF Regions
<1>2. Candidates(g, r) # {} /\ Latest(g, r) = w /\ w \in Candidates(g, r)
  BY AcceptedCandidate, PlannedCandidate
<1>3. w \in Candidates(h, r)
  BY <1>2, NodeStays DEF Candidates, OfKind, InRegion, WithOutcome
<1>4. Candidates(h, r) # {} /\ Latest(h, r) = w
  BY <1>1, <1>3, PlannedCandidate
<1> HIDE DEF w
<1>5. VerifierRequirementPassed(g, r, w) /\ RequiredChecksPassed(g, r)
  BY <1>2 DEF Accepted
<1>6. VerifierRequirementPassed(h, r, w)
  <2>1. PICK v \in Judged(g, w) : Passed(g, v) \/ VerificationSuperseded(g, v)
    <3> DEFINE n == <<r, "verifier">>
    <3>1. n \in Nodes(g) /\ n[2] = "verifier" /\ RegionOf(n) = r
      BY PlannedRegion
    <3> HIDE DEF n
    <3>2. ~(OfKind(g, {"verifier"}) \cap InRegion(g, r) \subseteq InState(g, {"retired"}))
      BY <3>1, KindFacts, VerifierNotRetired
    <3>3. QED BY <3>2, <1>5 DEF VerifierRequirementPassed
  <2>2. v \in Nodes(g) /\ g.nodes[v].kind = "verifier" /\ <<w, v>> \in g.edges
        /\ g.nodes[v].outcome \in {"passed", "failed"}
    BY DEF Judged, Verifiers, Passing, Failing, OfKind, WithOutcome
  <2>3. v \in Judged(h, w)
    <3>1. <<w, v>> \in h.edges
      BY <2>2 DEF Grows
    <3>2. QED BY <2>2, <3>1, NodeStays DEF Judged, Verifiers, Passing, Failing, OfKind, WithOutcome
  <2>4. CASE Passed(g, v)
    <3>1. Passed(h, v)
      BY <2>2, <2>4, NodeStays DEF Passed
    <3>2. QED BY <2>3, <3>1 DEF VerifierRequirementPassed
  <2>5. CASE VerificationSuperseded(g, v)
    <3>1. PICK p \in Recoveries(g, v) : \E u \in DownstreamOf(g, p) \cap Passing(g, {"verifier"}) :
             RequiredChecksPassed(g, g.nodes[u].region)
      BY <2>5 DEF VerificationSuperseded
    <3>2. PICK u \in DownstreamOf(g, p) \cap Passing(g, {"verifier"}) : TRUE
      BY <3>1
    <3>3. p \in Recoveries(h, v) /\ u \in DownstreamOf(h, p) \cap Passing(h, {"verifier"})
      BY <3>1, <3>2, NodeStays, DownstreamGrows, PassingStays DEF Recoveries
    <3>4. p \in Nodes(g) /\ p[2] \in Recovering
      <4>1. p \in Nodes(g) /\ AnswerOf(p) = v /\ v # NoNode
        BY <2>2, <3>1, KindFacts DEF Recoveries
      <4>2. QED BY <4>1 DEF AnswerOf
    <3>5. u[1] > MaxRegions /\ u \in Nodes(h) /\ h.nodes[u].kind = "verifier"
      <4>1. g.nodes[u].kind = "verifier" /\ u \in Nodes(h) /\ h.nodes[u].kind = "verifier"
        BY <3>2, <3>3 DEF Passing, OfKind
      <4>2. QED BY <4>1, <3>2, <3>4, RecoveryLeadsToCorrections
    <3>6. RequiredChecksPassed(h, h.nodes[u].region)
      BY <3>5, CorrectionsUnchecked DEF RequiredChecksPassed
    <3>7. VerificationSuperseded(h, v)
      BY <3>3, <3>6 DEF VerificationSuperseded
    <3>8. QED BY <2>3, <3>7 DEF VerifierRequirementPassed
  <2>6. QED BY <2>1, <2>4, <2>5
<1>7. RequiredChecksPassed(h, r)
  <2> SUFFICES ASSUME NEW c \in (OfKind(h, {"check"}) \cap InRegion(h, r)) \ InState(h, {"retired"})
               PROVE  \/ Passed(h, c) /\ Cites(h, c, w)
                      \/ h.nodes[c].outcome = "failed" /\ CheckSuperseded(h, c)
    BY <1>4 DEF RequiredChecksPassed
  <2>1. c \in Nodes(h) /\ h.nodes[c].kind = "check" /\ h.nodes[c].region = r
    BY DEF OfKind, InRegion
  <2>2. c \in Nodes(g) /\ g.nodes[c].kind = "check" /\ g.nodes[c].region = r
    <3>1. RegionOf(c) = r
      BY <2>1, KindFacts
    <3>2. c \in Nodes(g)
      BY <3>1, <2>1 DEF Grows
    <3>3. QED BY <3>2, <2>1, NodeStays
  <2>3. g.nodes[c].state # "retired"
    <3>1. c[2] = "check" /\ RecordedNode(g, c)
      BY <2>2, KindFacts DEF Sound, KindOf
    <3>2. QED BY <3>1 DEF RecordedNode
  <2>4. \/ Passed(g, c) /\ Cites(g, c, w)
        \/ g.nodes[c].outcome = "failed" /\ CheckSuperseded(g, c)
    BY <2>2, <2>3, <1>2, <1>5 DEF RequiredChecksPassed, OfKind, InRegion, InState
  <2>5. CASE Passed(g, c) /\ Cites(g, c, w)
    <3>1. PICK v \in Verifiers(g, w) : <<v, c>> \in g.bound
      BY <2>5 DEF Cites
    <3>2. v \in Verifiers(h, w) /\ <<v, c>> \in h.bound
      BY <3>1, NodeStays DEF Verifiers, OfKind, Grows
    <3>3. Passed(h, c)
      BY <2>2, <2>5, NodeStays DEF Passed
    <3>4. QED BY <3>2, <3>3 DEF Cites
  <2>6. CASE g.nodes[c].outcome = "failed" /\ CheckSuperseded(g, c)
    <3>1. h.nodes[c].outcome = "failed"
      BY <2>2, <2>6, NodeStays
    <3>2. CheckSuperseded(h, c)
      BY <2>6, CheckSupersededStays
    <3>3. QED BY <3>1, <3>2
  <2>7. QED BY <2>4, <2>5, <2>6
<1>8. QED BY <1>4, <1>6, <1>7 DEF Accepted

(* A recovery planner has a region of its own, which is never accepted.    *)
LEMMA RecoveryBlocks ==
  ASSUME NEW g, Sound(g), NEW p \in Nodes(g), p[2] \in Recovering
  PROVE  ~AllAccepted(g)
<1>2. p \in Nodes(g) /\ p[2] \in Recovering /\ p \in Ids /\ p[1] \in Nat
  BY KindFacts
<1> DEFINE q == RegionOf(p)
<1>3. q \in Nat /\ q > MaxRegions + 2 /\ MaxRegions \in Nat
  <2> DEFINE x == HomeOf(p)
             k == p[1]
  <2>1. k \in Nat /\ MaxRegions \in Nat /\ q = MaxRegions + 2 + x /\ p[2] # "planner"
    BY <1>2, DataflowAssumption DEF RegionOf, RecoveryOf, FinalInvariant, Recovering
  <2>2. x = IF k = 0 THEN MaxRegions + 2 ELSE IF k <= MaxRegions THEN k ELSE MaxRegions + 1
    BY <2>1 DEF HomeOf, FinalInvariant, Corrective
  <2> HIDE DEF x, k, q
  <2>3. x \in Nat /\ x > 0
    BY <2>1, <2>2
  <2>4. QED BY <2>1, <2>3
<1>4. ASSUME NEW m \in InRegion(g, q) PROVE g.nodes[m].kind = "gap"
  <2>1. m \in Nodes(g) /\ RegionOf(m) = q /\ m \in Ids /\ m[1] \in Nat
    BY KindFacts DEF InRegion
  <2>2. ASSUME m[2] \notin Recovering PROVE FALSE
    <3> DEFINE x == HomeOf(m)
               k == m[1]
    <3>1. q = x /\ k \in Nat
      BY <2>1, <2>2 DEF RegionOf
    <3>2. x = IF k = 0 THEN (IF m[2] = "planner" THEN 0 ELSE MaxRegions + 2)
              ELSE IF k <= MaxRegions THEN k ELSE MaxRegions + 1
      BY DEF HomeOf, FinalInvariant, Corrective, NoRegion
    <3> HIDE DEF x, k, q
    <3>3. QED BY <1>3, <3>1, <3>2
  <2>3. QED BY <2>1, <2>2, KindFacts DEF KindOf
<1>5. p \in InRegion(g, q) /\ q \in Regions(g)
  <2>1. g.nodes[p].region = q
    BY <1>2, KindFacts
  <2>2. q # NoRegion
    <3> HIDE DEF q
    <3>1. QED BY <1>3 DEF NoRegion
  <2>3. QED BY <1>2, <2>1, <2>2 DEF InRegion, Regions
<1> HIDE DEF q
<1>6. Candidates(g, q) = {}
  BY <1>4 DEF Candidates, OfKind
<1>7. g.nodes[p].state # "retired"
  <2>1. RecordedNode(g, p) /\ p[2] # "gap"
    BY <1>2 DEF Sound, Recovering
  <2>2. QED BY <2>1 DEF RecordedNode
<1>8. ~CandidateFreeAccepted(g, q)
  <2> DEFINE active       == InRegion(g, q) \ InState(g, {"retired"})
             task         == active \cap OfKind(g, {"worker", "verifier"})
             contributing == IF task # {} THEN task ELSE active \cap OfKind(g, {"check"})
  <2>1. p \in active
    BY <1>5, <1>7 DEF InState
  <2>2. contributing = {}
    BY <1>4 DEF OfKind
  <2>3. CandidateFreeAccepted(g, q) => active = {} \/ contributing # {}
    BY DEF CandidateFreeAccepted
  <2>4. QED BY <2>1, <2>2, <2>3
<1>9. ~Accepted(g, q)
  BY <1>6, <1>8 DEF Accepted
<1>10. QED BY <1>5, <1>9 DEF AllAccepted

(* So a verdict that has a recovery planner accepts nothing for the run.   *)
LEMMA RecoveredBlocks ==
  ASSUME NEW g, Sound(g), NEW v \in Nodes(g), Recoveries(g, v) # {}
  PROVE  ~AllAccepted(g)
<1>1. PICK p \in Recoveries(g, v) : TRUE
  OBVIOUS
<1>2. p \in Nodes(g) /\ AnswerOf(p) = v /\ v # NoNode
  BY KindFacts DEF Recoveries
<1>3. p[2] \in Recovering
  BY <1>2 DEF AnswerOf
<1>4. QED BY <1>2, <1>3, RecoveryBlocks

LEMMA SupersededBlocks ==
  ASSUME NEW g, Sound(g), NEW v \in Nodes(g), VerificationSuperseded(g, v)
  PROVE  ~AllAccepted(g)
<1>1. Recoveries(g, v) # {}
  BY DEF VerificationSuperseded
<1>2. QED BY <1>1, RecoveredBlocks

(* Where all is accepted, the latest candidate of each region was passed.  *)
LEMMA AcceptedMeansPassed ==
  ASSUME NEW g, Sound(g), AllAccepted(g), NEW r \in Regions(g), Candidates(g, r) # {}
  PROVE  \E v \in Verifiers(g, Latest(g, r)) : Passed(g, v)
<1> DEFINE w == Latest(g, r)
<1>1. VerifierRequirementPassed(g, r, w)
  BY DEF AllAccepted, Accepted
<1> HIDE DEF w
<1>2. CASE \E v \in Judged(g, w) : Passed(g, v) \/ VerificationSuperseded(g, v)
  <2>1. PICK v \in Judged(g, w) : Passed(g, v) \/ VerificationSuperseded(g, v)
    BY <1>2
  <2>2. v \in Verifiers(g, w) /\ v \in Nodes(g)
    BY DEF Judged, Verifiers, OfKind
  <2>3. ~VerificationSuperseded(g, v)
    BY <2>2, SupersededBlocks
  <2>4. QED BY <2>1, <2>2, <2>3 DEF w
<1>3. CASE OfKind(g, {"verifier"}) \cap InRegion(g, r) \subseteq InState(g, {"retired"})
  <2>1. PICK c \in Candidates(g, r) : TRUE
    OBVIOUS
  <2>2. c \in Nodes(g) /\ g.nodes[c].kind = "worker" /\ g.nodes[c].region = r
    BY <2>1 DEF Candidates, OfKind, InRegion
  <2>3. c[1] \in Nat /\ c[2] = "worker" /\ Possible(c) /\ RegionOf(c) = r
    BY <2>2, KindFacts DEF KindOf
  <2>4. c[1] > 0
    BY <2>3 DEF Possible
  <2> DEFINE v == <<c[1], "verifier">>
  <2>5. v \in Nodes(g) /\ v[1] = c[1] /\ v[2] = "verifier"
    BY <2>2, <2>4, KindFacts
  <2> HIDE DEF v
  <2>6. RegionOf(v) = r
    BY <2>3, <2>5 DEF RegionOf, HomeOf, Recovering
  <2>7. g.nodes[v].region = r
    BY <2>5, <2>6, KindFacts
  <2>8. QED BY <1>3, <2>5, <2>7, VerifierNotRetired
<1>4. QED BY <1>1, <1>2, <1>3 DEF VerifierRequirementPassed

-----------------------------------------------------------------------------
(* Links.                                                                  *)

(* A port that has its record keeps it.                                    *)
LEMMA PortStays ==
  ASSUME NEW g, NEW h, g.bound \subseteq h.bound, NEW n, PortBound(g, n)
  PROVE  PortBound(h, n)
BY DEF PortBound

(* Nodes and edges are added so that the planners and checks among them    *)
(* have an edge, and no gap planner of the plan gets another.              *)
LEMMA AddsLinked ==
  ASSUME NEW g, NEW h, NEW N, NEW E, Sound(g), Adds(g, h, N, E), Linked(g),
         \A n \in N \ Nodes(g) : CorrectingNode(h, n),
         \A n \in N \ Nodes(g) : KindOf(n) \in {"gap", "check"} => \E e \in E : e[2] = n,
         \A e \in E : e[2][2] = "gap" => e[2] \notin Nodes(g),
         \A e, f \in E : e[2] = f[2] /\ e[2][2] = "gap" => e[1] = f[1]
  PROVE  Linked(h)
<1>1. /\ Nodes(h) = Nodes(g) \cup N /\ h.edges = g.edges \cup E /\ g.bound \subseteq h.bound
      /\ \A n \in Nodes(g) : h.nodes[n] = g.nodes[n]
      /\ \A n \in N \ Nodes(g) : h.nodes[n].state = "planned"
      /\ Delivered(h)
  BY DEF Adds, Extended, Sound, Linked
<1>2. \A e \in g.edges : e[2] \in Nodes(g)
  BY EdgeFacts DEF Sound
<1>3. Sourced(h)
  <2>1. ASSUME NEW n \in Nodes(h), KindOf(n) \in {"gap", "check"} PROVE \E e \in h.edges : e[2] = n
    BY <2>1, <1>1 DEF Linked, Sourced
  <2>2. ASSUME NEW e \in h.edges, NEW f \in h.edges, e[2] = f[2], e[2][2] = "gap" PROVE e[1] = f[1]
    <3>1. CASE e \in g.edges /\ f \in g.edges
      BY <2>2, <3>1 DEF Linked, Sourced
    <3>2. CASE e \notin g.edges \/ f \notin g.edges
      BY <2>2, <3>2, <1>1, <1>2
    <3>3. QED BY <3>1, <3>2
  <2>3. QED BY <2>1, <2>2 DEF Sourced
<1>4. ASSUME NEW n \in Nodes(h) PROVE BegunNode(h, n)
  <2>1. CASE n \in Nodes(g)
    <3>1. BegunNode(g, n) /\ h.nodes[n] = g.nodes[n]
      BY <2>1, <1>1 DEF Linked
    <3>2. PortBound(g, n) => PortBound(h, n)
      BY <1>1, PortStays
    <3>3. QED BY <3>1, <3>2 DEF BegunNode
  <2>2. CASE n \notin Nodes(g)
    BY <2>2, <1>1 DEF BegunNode
  <2>3. QED BY <2>1, <2>2
<1>5. ASSUME NEW n \in Nodes(h) PROVE CorrectingNode(h, n)
  <2>1. CASE n \in Nodes(g)
    BY <2>1, <1>1 DEF Linked, CorrectingNode
  <2>2. QED BY <2>1, <1>1
<1>6. QED BY <1>1, <1>3, <1>4, <1>5 DEF Linked

(* A planner or a check becomes ready only with its record.                *)
LEMMA RestatedLinked ==
  ASSUME NEW g, NEW h, Sound(g), Restated(g, h), Linked(g),
         \A n \in Nodes(g) :
            KindOf(n) \in {"gap", "check"} /\ h.nodes[n].state \notin {"planned", "retired"}
            /\ g.nodes[n].state \in {"planned", "retired"} => PortBound(g, n)
  PROVE  Linked(h)
<1>1. /\ Typed(g) /\ Nodes(h) = Nodes(g) /\ h.edges = g.edges /\ h.bound = g.bound
      /\ \A n \in Nodes(g) : RestatedNode(g, h, n) /\ g.nodes[n] \in NodeType
  BY NodeFacts DEF Restated, Sound, Typed
<1>2. \A n \in Nodes(g) :
         /\ h.nodes[n].kind = g.nodes[n].kind /\ h.nodes[n].outcome = g.nodes[n].outcome
         /\ h.nodes[n].parent = g.nodes[n].parent /\ h.nodes[n].patch = g.nodes[n].patch
         /\ h.nodes[n].state = "completed" => g.nodes[n].state = "completed"
  BY <1>1 DEF RestatedNode, NodeType
<1>3. Delivered(h)
  BY <1>1, <1>2, SameDelivers DEF Linked
<1>4. Sourced(h)
  BY <1>1 DEF Linked, Sourced
<1>5. ASSUME NEW n \in Nodes(h) PROVE BegunNode(h, n)
  <2>1. BegunNode(g, n) /\ (PortBound(g, n) => PortBound(h, n))
    BY <1>1 DEF Linked, PortBound
  <2>2. QED BY <2>1, <1>1, <1>2 DEF BegunNode
<1>6. ASSUME NEW n \in Nodes(h) PROVE CorrectingNode(h, n)
  BY <1>1, <1>2 DEF Linked, CorrectingNode
<1>7. QED BY <1>3, <1>4, <1>5, <1>6 DEF Linked

(* An accepted patch.                                                      *)
LEMMA RepatchedLinked ==
  ASSUME NEW g, NEW h, Sound(g), Grows(g, h), Repatched(g, h), Linked(g)
  PROVE  Linked(h)
<1>1. /\ Typed(g) /\ Nodes(h) = Nodes(g) /\ h.edges = g.edges /\ h.bound = g.bound
      /\ \A n \in Nodes(g) :
           /\ h.nodes[n].kind = g.nodes[n].kind /\ h.nodes[n].parent = g.nodes[n].parent
           /\ h.nodes[n].state = g.nodes[n].state /\ h.nodes[n].outcome = g.nodes[n].outcome
           /\ g.nodes[n].patch # "none" => h.nodes[n].patch = g.nodes[n].patch
  BY DEF Repatched, Sound, Grows, KeptNode
<1>2. Delivered(h)
  BY <1>1, SameDelivers DEF Linked
<1>3. Sourced(h)
  BY <1>1 DEF Linked, Sourced
<1>4. ASSUME NEW n \in Nodes(h) PROVE BegunNode(h, n)
  <2>1. BegunNode(g, n) /\ (PortBound(g, n) => PortBound(h, n))
    BY <1>1 DEF Linked, PortBound
  <2>2. QED BY <2>1, <1>1 DEF BegunNode
<1>5. ASSUME NEW n \in Nodes(h) PROVE CorrectingNode(h, n)
  BY <1>1 DEF Linked, CorrectingNode
<1>6. QED BY <1>2, <1>3, <1>4, <1>5 DEF Linked

(* An accepted record.                                                     *)
LEMMA AcceptedLinked ==
  ASSUME NEW g, Sound(g), Linked(g), NEW n \in Nodes(g), g.nodes[n].state = "leased",
         NEW o \in Outcomes, KindOf(n) = "gap" => g.nodes[n].patch # "none"
  PROVE  Linked(Accept(g, n, o))
<1> DEFINE h == Accept(g, n, o)
<1>1. Typed(g) /\ g \in GraphType
  BY DEF Sound, Typed
<1>2. g.nodes[n].outcome = "none"
  BY DEF Sound, RecordedNode
<1>3. ASSUME NEW e \in g.edges PROVE g.nodes[e[2]].kind # "planner"
  <2>1. e[2] \in Nodes(g) /\ RoutedEdge(g, e)
    BY <1>1, EdgeFacts DEF Sound
  <2>2. e[2][2] # "planner"
    BY <2>1 DEF RoutedEdge, RecoveryNode, PlanGap
  <2>3. QED BY <2>1, <2>2, KindFacts DEF KindOf
<1>4. RecordedAs(g, h, n, o) /\ Delivered(h)
  BY <1>1, <1>2, <1>3, AcceptFacts DEF Linked
<1> HIDE DEF h
<1>5. /\ Nodes(h) = Nodes(g) /\ h.edges = g.edges /\ g.bound \subseteq h.bound
      /\ \A m \in Nodes(g) : m # n => h.nodes[m] = g.nodes[m]
      /\ h.nodes[n].patch = g.nodes[n].patch /\ h.nodes[n].parent = g.nodes[n].parent
  <2>1. g.nodes[n] \in NodeType
    BY <1>1, NodeFacts
  <2>2. QED BY <2>1, <1>4 DEF RecordedAs, NodeType
<1>6. Sourced(h)
  BY <1>5 DEF Linked, Sourced
<1>7. ASSUME NEW m \in Nodes(h) PROVE BegunNode(h, m)
  <2>1. BegunNode(g, m) /\ (PortBound(g, m) => PortBound(h, m))
    BY <1>5, PortStays DEF Linked
  <2>2. CASE m = n
    BY <2>1, <2>2, <1>5 DEF BegunNode
  <2>3. CASE m # n
    BY <2>1, <2>3, <1>5 DEF BegunNode
  <2>4. QED BY <2>2, <2>3
<1>8. ASSUME NEW m \in Nodes(h) PROVE CorrectingNode(h, m)
  <2>1. CorrectingNode(g, m) /\ h.nodes[m].parent = g.nodes[m].parent
    BY <1>5 DEF Linked
  <2>2. QED BY <2>1 DEF CorrectingNode
<1>9. Linked(h)
  BY <1>4, <1>6, <1>7, <1>8 DEF Linked
<1>10. QED BY <1>9 DEF h

-----------------------------------------------------------------------------
(* Answers.                                                                *)

(* Verdicts stay answered while no gap planner of a failed one is lost, no *)
(* gap planner is wired to a passed one, and no check begins to wait.      *)
LEMMA AttendsStays ==
  ASSUME NEW g, NEW h, Sound(g), Sound(h), Grows(g, h), NEW X, Attends(g, X),
         \A n \in Nodes(h) \ X : h.nodes[n].outcome \in {"passed", "failed"} =>
            n \in Nodes(g) /\ g.nodes[n].outcome = h.nodes[n].outcome,
         WaitingChecks(h) \subseteq WaitingChecks(g),
         \A e \in g.edges :
            KindOf(e[2]) = "gap" /\ g.nodes[e[1]].outcome = "failed"
            /\ h.nodes[e[2]].state \in {"failed", "retired"}
            => g.nodes[e[2]].state \in {"failed", "retired"},
         \A e \in h.edges \ g.edges : KindOf(e[2]) = "gap" => h.nodes[e[1]].outcome # "passed"
  PROVE  Attends(h, X)
<1>1. \A m \in Nodes(g) : /\ m \in Nodes(h) /\ h.nodes[m].kind = g.nodes[m].kind
                          /\ g.nodes[m].kind = KindOf(m)
                          /\ g.nodes[m].state \notin Live => h.nodes[m].state = g.nodes[m].state
  <2> SUFFICES ASSUME NEW m \in Nodes(g)
               PROVE  /\ m \in Nodes(h) /\ h.nodes[m].kind = g.nodes[m].kind
                      /\ g.nodes[m].kind = KindOf(m)
                      /\ g.nodes[m].state \notin Live => h.nodes[m].state = g.nodes[m].state
    OBVIOUS
  <2>1. m \in Nodes(h) /\ h.nodes[m].kind = g.nodes[m].kind
    BY NodeStays
  <2>2. g.nodes[m].kind = KindOf(m)
    BY KindFacts DEF Sound
  <2>3. KeptNode(g, h, m)
    BY DEF Grows
  <2>4. QED BY <2>1, <2>2, <2>3 DEF KeptNode
<1>2. g.edges \subseteq h.edges /\ \A e \in g.edges : e[1] \in Nodes(g) /\ e[2] \in Nodes(g)
  BY EdgeFacts DEF Grows, Sound
<1>3. \A e \in h.edges : e[2] \in Nodes(h) /\ h.nodes[e[2]].kind = KindOf(e[2])
  BY EdgeFacts, KindFacts DEF Sound
<1> SUFFICES ASSUME NEW n \in Nodes(h) \ X PROVE AttendedNode(h, n)
  BY DEF Attends
<1>4. ASSUME n \in Nodes(g) PROVE AttendedNode(g, n)
  BY <1>4 DEF Attends
<1>5. ASSUME n \in Failing(h, {"verifier"}) PROVE Answered(h, n)
  <2>1. h.nodes[n].kind = "verifier" /\ h.nodes[n].outcome = "failed"
    BY <1>5 DEF Failing, OfKind, WithOutcome
  <2>2. n \in Nodes(g) /\ g.nodes[n].outcome = "failed"
    BY <2>1
  <2>3. n \in Failing(g, {"verifier"})
    BY <2>1, <2>2, <1>1 DEF Failing, OfKind, WithOutcome
  <2>4. PICK e \in g.edges : /\ e[1] = n /\ g.nodes[e[2]].kind = "gap"
                            /\ g.nodes[e[2]].state \notin {"failed", "retired"}
    BY <2>2, <2>3, <1>4 DEF AttendedNode, Answered
  <2>5. h.nodes[e[2]].kind = "gap" /\ KindOf(e[2]) = "gap" /\ e \in h.edges
    BY <2>4, <1>1, <1>2
  <2>6. h.nodes[e[2]].state \notin {"failed", "retired"}
    BY <2>2, <2>4, <2>5
  <2>7. QED BY <2>4, <2>5, <2>6 DEF Answered
<1>6. ASSUME n \in Passing(h, {"verifier", "check"}) PROVE Unneeded(h, n)
  <2>1. h.nodes[n].kind \in {"verifier", "check"} /\ h.nodes[n].outcome = "passed"
    BY <1>6 DEF Passing, OfKind, WithOutcome
  <2>2. n \in Nodes(g) /\ g.nodes[n].outcome = "passed"
    BY <2>1
  <2>3. n \in Passing(g, {"verifier", "check"})
    BY <2>1, <2>2, <1>1 DEF Passing, OfKind, WithOutcome
  <2>4. Unneeded(g, n)
    BY <2>2, <2>3, <1>4 DEF AttendedNode
  <2>5. ASSUME NEW e \in h.edges, e[1] = n, h.nodes[e[2]].kind = "gap"
        PROVE  h.nodes[e[2]].state \notin Live
    <3>1. e \in g.edges
      BY <2>1, <2>5, <1>3
    <3>2. g.nodes[e[2]].kind = "gap"
      BY <3>1, <2>5, <1>1, <1>2
    <3>3. g.nodes[e[2]].state \notin Live
      BY <3>1, <3>2, <2>4, <2>5 DEF Unneeded
    <3>4. QED BY <3>1, <3>3, <1>1, <1>2
  <2>6. QED BY <2>5 DEF Unneeded
<1>7. ASSUME n \in Passing(h, {"verifier"}) PROVE Supplied(h, n)
  <2>1. h.nodes[n].kind = "verifier" /\ h.nodes[n].outcome = "passed"
    BY <1>7 DEF Passing, OfKind, WithOutcome
  <2>2. n \in Nodes(g) /\ g.nodes[n].outcome = "passed"
    BY <2>1
  <2>3. n \in Passing(g, {"verifier"})
    BY <2>1, <2>2, <1>1 DEF Passing, OfKind, WithOutcome
  <2>4. Supplied(g, n)
    BY <2>2, <2>3, <1>4 DEF AttendedNode
  <2>5. ASSUME NEW c \in WaitingChecks(h)
        PROVE  <<n, c>> \in h.edges \/ WouldCreateCycle(h, n, c)
    <3>1. <<n, c>> \in g.edges \/ WouldCreateCycle(g, n, c)
      BY <2>4, <2>5 DEF Supplied
    <3>2. DownstreamOf(g, c) \subseteq DownstreamOf(h, c)
      BY DownstreamGrows
    <3>3. QED BY <3>1, <3>2, <1>2 DEF WouldCreateCycle
  <2>6. QED BY <2>5 DEF Supplied
<1>8. QED BY <1>5, <1>6, <1>7 DEF AttendedNode

(* Nodes and edges are added.                                              *)
LEMMA AddsAttends ==
  ASSUME NEW g, NEW h, NEW N, NEW E, Sound(g), Sound(h), Grows(g, h), Adds(g, h, N, E),
         \A n \in N \ Nodes(g) : n[2] = "check" => PortBound(h, n),
         \A e \in E : KindOf(e[2]) = "gap" => h.nodes[e[1]].outcome # "passed"
  PROVE  /\ WaitingChecks(h) \subseteq WaitingChecks(g)
         /\ \A X : Attends(g, X) => Attends(h, X)
<1>1. /\ Nodes(h) = Nodes(g) \cup N /\ h.edges = g.edges \cup E /\ g.bound \subseteq h.bound
      /\ \A n \in Nodes(g) : h.nodes[n] = g.nodes[n]
      /\ \A n \in N \ Nodes(g) : h.nodes[n].outcome = "none"
  BY DEF Adds, Extended
<1>2. WaitingChecks(h) \subseteq WaitingChecks(g)
  <2> SUFFICES ASSUME NEW c \in WaitingChecks(h) PROVE c \in WaitingChecks(g)
    OBVIOUS
  <2>1. /\ c \in Nodes(h) /\ h.nodes[c].kind = "check" /\ h.nodes[c].state \in Schedulable
        /\ ~PortBound(h, c)
    BY DEF WaitingChecks, OfKind, InState
  <2>2. c[2] = "check"
    BY <2>1, KindFacts DEF KindOf
  <2>3. c \in Nodes(g) /\ ~PortBound(g, c)
    BY <2>1, <2>2, <1>1, PortStays
  <2>4. QED BY <2>1, <2>3, <1>1 DEF WaitingChecks, OfKind, InState
<1>3. ASSUME NEW X, Attends(g, X) PROVE Attends(h, X)
  <2>1. \A n \in Nodes(h) \ X : h.nodes[n].outcome \in {"passed", "failed"} =>
           n \in Nodes(g) /\ g.nodes[n].outcome = h.nodes[n].outcome
    BY <1>1
  <2>2. \A e \in g.edges : e[2] \in Nodes(g)
    BY EdgeFacts DEF Sound
  <2>3. \A e \in g.edges :
           KindOf(e[2]) = "gap" /\ g.nodes[e[1]].outcome = "failed"
           /\ h.nodes[e[2]].state \in {"failed", "retired"}
           => g.nodes[e[2]].state \in {"failed", "retired"}
    BY <1>1, <2>2
  <2>4. \A e \in h.edges \ g.edges : KindOf(e[2]) = "gap" => h.nodes[e[1]].outcome # "passed"
    BY <1>1
  <2>5. QED BY <1>2, <1>3, <2>1, <2>3, <2>4, AttendsStays
<1>4. QED BY <1>2, <1>3

(* States change, but no gap planner of a failed verdict is lost.          *)
LEMMA RestatedAttends ==
  ASSUME NEW g, NEW h, Sound(g), Sound(h), Grows(g, h), Restated(g, h),
         \A n \in Nodes(g) : KindOf(n) = "check" /\ h.nodes[n].state \in Schedulable =>
            PortBound(g, n) \/ g.nodes[n].state \in Schedulable,
         \A e \in g.edges :
            KindOf(e[2]) = "gap" /\ g.nodes[e[1]].outcome = "failed"
            /\ h.nodes[e[2]].state \in {"failed", "retired"}
            => g.nodes[e[2]].state \in {"failed", "retired"}
  PROVE  /\ WaitingChecks(h) \subseteq WaitingChecks(g)
         /\ \A X : Attends(g, X) => Attends(h, X)
<1>1. /\ Typed(g) /\ Nodes(h) = Nodes(g) /\ h.edges = g.edges /\ h.bound = g.bound
      /\ \A n \in Nodes(g) : RestatedNode(g, h, n) /\ g.nodes[n] \in NodeType
  BY NodeFacts DEF Restated, Sound, Typed
<1>2. \A n \in Nodes(g) : h.nodes[n].kind = g.nodes[n].kind /\ h.nodes[n].outcome = g.nodes[n].outcome
  BY <1>1 DEF RestatedNode, NodeType
<1>3. WaitingChecks(h) \subseteq WaitingChecks(g)
  <2> SUFFICES ASSUME NEW c \in WaitingChecks(h) PROVE c \in WaitingChecks(g)
    OBVIOUS
  <2>1. /\ c \in Nodes(g) /\ h.nodes[c].kind = "check" /\ h.nodes[c].state \in Schedulable
        /\ ~PortBound(g, c)
    BY <1>1 DEF WaitingChecks, OfKind, InState, PortBound
  <2>2. KindOf(c) = "check" /\ g.nodes[c].kind = "check"
    BY <2>1, <1>2, KindFacts
  <2>3. QED BY <2>1, <2>2 DEF WaitingChecks, OfKind, InState
<1>4. ASSUME NEW X, Attends(g, X) PROVE Attends(h, X)
  <2>1. \A n \in Nodes(h) \ X : h.nodes[n].outcome \in {"passed", "failed"} =>
           n \in Nodes(g) /\ g.nodes[n].outcome = h.nodes[n].outcome
    BY <1>1, <1>2
  <2>2. h.edges \ g.edges = {}
    BY <1>1
  <2>3. QED BY <1>3, <1>4, <2>1, <2>2, AttendsStays
<1>5. QED BY <1>3, <1>4

(* A patch is accepted.                                                    *)
LEMMA RepatchedAttends ==
  ASSUME NEW g, NEW h, Sound(g), Sound(h), Grows(g, h), Repatched(g, h), NEW X, Attends(g, X)
  PROVE  Attends(h, X)
<1>1. /\ Nodes(h) = Nodes(g) /\ h.edges = g.edges /\ h.bound = g.bound
      /\ \A n \in Nodes(g) :
           /\ h.nodes[n].kind = g.nodes[n].kind
           /\ h.nodes[n].state = g.nodes[n].state /\ h.nodes[n].outcome = g.nodes[n].outcome
  BY DEF Repatched
<1>2. WaitingChecks(h) \subseteq WaitingChecks(g)
  BY <1>1 DEF WaitingChecks, OfKind, InState, PortBound
<1>3. \A e \in g.edges : e[2] \in Nodes(g)
  BY EdgeFacts DEF Sound
<1>4. \A e \in g.edges :
         KindOf(e[2]) = "gap" /\ g.nodes[e[1]].outcome = "failed"
         /\ h.nodes[e[2]].state \in {"failed", "retired"}
         => g.nodes[e[2]].state \in {"failed", "retired"}
  BY <1>1, <1>3
<1>5. h.edges \ g.edges = {}
  BY <1>1
<1>6. \A n \in Nodes(h) \ X : h.nodes[n].outcome \in {"passed", "failed"} =>
         n \in Nodes(g) /\ g.nodes[n].outcome = h.nodes[n].outcome
  BY <1>1
<1>7. QED BY <1>2, <1>4, <1>5, <1>6, AttendsStays

(* A record is accepted: all verdicts but that stay answered.              *)
LEMMA AcceptedAttends ==
  ASSUME NEW g, NEW h, Sound(g), Sound(h), Grows(g, h), NEW n \in Nodes(g), NEW o,
         RecordedAs(g, h, n, o), Attends(g, {})
  PROVE  Attends(h, {n})
<1>1. /\ Nodes(h) = Nodes(g) /\ h.edges = g.edges /\ g.bound \subseteq h.bound
      /\ \A m \in Nodes(g) : m # n => h.nodes[m] = g.nodes[m]
  BY DEF RecordedAs
<1>2. h.nodes[n].state = "completed"
  <2>1. g.nodes[n] \in NodeType
    BY NodeFacts DEF Sound, Typed
  <2>2. QED BY <2>1 DEF RecordedAs, NodeType
<1>3. WaitingChecks(h) \subseteq WaitingChecks(g)
  <2> SUFFICES ASSUME NEW c \in WaitingChecks(h) PROVE c \in WaitingChecks(g)
    OBVIOUS
  <2>1. /\ c \in Nodes(g) /\ h.nodes[c].kind = "check" /\ h.nodes[c].state \in Schedulable
        /\ ~PortBound(g, c)
    BY <1>1, PortStays DEF WaitingChecks, OfKind, InState
  <2>2. c # n
    BY <2>1, <1>2 DEF Schedulable
  <2>3. QED BY <2>1, <2>2, <1>1 DEF WaitingChecks, OfKind, InState
<1>4. \A e \in g.edges : e[2] \in Nodes(g)
  BY EdgeFacts DEF Sound
<1>5. \A e \in g.edges :
         KindOf(e[2]) = "gap" /\ g.nodes[e[1]].outcome = "failed"
         /\ h.nodes[e[2]].state \in {"failed", "retired"}
         => g.nodes[e[2]].state \in {"failed", "retired"}
  BY <1>1, <1>2, <1>4
<1>6. h.edges \ g.edges = {}
  BY <1>1
<1>7. \A m \in Nodes(h) \ {n} : h.nodes[m].outcome \in {"passed", "failed"} =>
         m \in Nodes(g) /\ g.nodes[m].outcome = h.nodes[m].outcome
  BY <1>1
<1>8. Attends(g, {n})
  BY DEF Attends
<1>9. QED BY <1>3, <1>5, <1>6, <1>7, <1>8, AttendsStays

(* What a repair of the records S does to them.                            *)
Keeps(g, h, S) ==
  /\ Linked(h) /\ \A X : Attends(g, X) => Attends(h, X)
  /\ \A n \in Nodes(g) \ ToRetire(g, S) : h.nodes[n].state = g.nodes[n].state
  /\ \A n \in ToRecover(g, S) :
        /\ RecoveryNode(n) \in Nodes(h) \ Nodes(g)
        /\ h.nodes[RecoveryNode(n)].state = "planned"
        /\ <<n, RecoveryNode(n)>> \in h.edges
  /\ Settled(g) => /\ \A n \in S \cap Passing(g, {"verifier", "check"}) : Unneeded(h, n)
                   /\ \A n \in S \cap LatestPass(g) : Supplied(h, n)

(* The recovery planners are new nodes and wired to failed verdicts.       *)
LEMMA RecoverFacts ==
  ASSUME NEW g, Sound(g), NEW S, NEW n \in ToRecover(g, S)
  PROVE  /\ n \in Nodes(g) /\ n[2] \in {"verifier", "check"} /\ g.nodes[n].outcome = "failed"
         /\ RecoveryNode(n) \notin Nodes(g) /\ RecoveryNode(n)[2] \in Recovering
         /\ KindOf(RecoveryNode(n)) = "gap"
<1>1. /\ n \in Nodes(g) /\ g.nodes[n].kind \in {"verifier", "check"}
      /\ g.nodes[n].outcome = "failed" /\ ~HasRecovery(g, n)
  BY DEF ToRecover, CurrentFailures, Failing, OfKind, WithOutcome
<1>2. n[2] \in {"verifier", "check"} /\ n \in Ids
  BY <1>1, KindFacts DEF KindOf
<1> DEFINE p == RecoveryNode(n)
<1>3. p[2] \in Recovering /\ AnswerOf(p) = n /\ KindOf(p) = "gap"
  BY <1>2, RecoveryFacts
<1> HIDE DEF p
<1>4. p \notin Nodes(g)
  <2> SUFFICES ASSUME p \in Nodes(g) PROVE FALSE
    OBVIOUS
  <2>1. g.nodes[p].recovers = n
    BY <1>3, KindFacts
  <2>2. QED BY <2>1, <1>1 DEF HasRecovery, Recoveries
<1>5. QED BY <1>1, <1>2, <1>3, <1>4 DEF p

(* The checks that a repair feeds, and the verdicts it feeds them from.    *)
LEMMA FeedFacts ==
  ASSUME NEW g, Sound(g), NEW S
  PROVE  /\ \A e \in FinalCheckEdges(g, S) : e[2] \in Nodes(g) /\ e[2][2] = "check"
         /\ NeedsFinalCheck(g, S) # {} => FinalCheck \notin Nodes(g)
         /\ \A v \in NeedsFinalCheck(g, S) : v \in Nodes(g) /\ g.nodes[v].outcome = "passed"
<1>1. ASSUME NEW e \in FinalCheckEdges(g, S) PROVE e[2] \in Nodes(g) /\ e[2][2] = "check"
  <2>1. e[2] \in Nodes(g) /\ g.nodes[e[2]].kind = "check"
    BY DEF FinalCheckEdges, WaitingChecks, OfKind
  <2>2. QED BY <2>1, KindFacts DEF KindOf
<1>2. ASSUME NEW v \in NeedsFinalCheck(g, S)
      PROVE  /\ v \in Nodes(g) /\ g.nodes[v].outcome = "passed"
             /\ OfKind(g, {"check"}) = {}
  BY DEF NeedsFinalCheck, LatestPass, Passing, OfKind, WithOutcome
<1>3. ASSUME FinalCheck \in Nodes(g) PROVE OfKind(g, {"check"}) # {}
  <2>1. KindOf(FinalCheck) = "check"
    BY DEF KindOf, FinalCheck, Recovering
  <2>2. g.nodes[FinalCheck].kind = "check"
    BY <1>3, <2>1, KindFacts
  <2>3. QED BY <1>3, <2>2 DEF OfKind
<1>4. QED BY <1>1, <1>2, <1>3

(* Each sweep keeps the links, and the verdicts answered.                  *)
LEMMA PartsKeep ==
  ASSUME NEW g, Sound(g), Linked(g), NEW S, NEW a, NEW b, NEW c, NEW d,
         Swept(g, S, a, b, c, d)
  PROVE  /\ Linked(d) /\ WaitingChecks(d) \subseteq WaitingChecks(g)
         /\ \A X : Attends(g, X) => Attends(d, X)
<1> DEFINE R == ToRecover(g, S)
           N == {RecoveryNode(n) : n \in R}
           E == {<<n, RecoveryNode(n)>> : n \in R}
           D == FinalCheckEdges(g, S)
           F == NeedsFinalCheck(g, S)
<1>1. /\ Advances(g, a) /\ Adds(g, a, N, E) /\ Advances(a, b) /\ Adds(a, b, {}, D)
      /\ Advances(b, c) /\ (F = {} => c = b) /\ (F # {} => Adds(b, c, {FinalCheck}, F \X {FinalCheck}))
      /\ Advances(c, d) /\ Restated(c, d)
  BY DEF Swept
<1>2. \A n \in N : n[2] \in Recovering
  BY RecoverFacts
<1>3. \A e \in E : /\ e[2] \in N /\ e[2][2] \in Recovering
                   /\ g.nodes[e[1]].outcome = "failed" /\ e[1] \in Nodes(g)
  BY RecoverFacts
<1>4. ASSUME NEW n \in N PROVE \E e \in E : e[2] = n
  <2>1. PICK m \in R : n = RecoveryNode(m)
    OBVIOUS
  <2> DEFINE e == <<m, RecoveryNode(m)>>
  <2>2. e \in E /\ e[2] = n
    BY <2>1
  <2> HIDE DEF e, E
  <2>3. QED BY <2>2
<1>5. /\ \A e \in D : e[2] \in Nodes(g) /\ e[2][2] = "check"
      /\ F # {} => FinalCheck \notin Nodes(g)
      /\ \A v \in F : v \in Nodes(g) /\ g.nodes[v].outcome = "passed"
  BY FeedFacts
<1>6. \A n \in Nodes(g) : n \in Nodes(c) /\ c.nodes[n] = g.nodes[n]
  BY DEF Swept
<1>7. \A n \in Nodes(c) :
        d.nodes[n].state = IF n \in ToRetire(g, S) THEN "retired" ELSE c.nodes[n].state
  BY DEF Swept
<1> HIDE DEF R, N, E, D, F
<1>8. /\ Sound(a) /\ Grows(g, a) /\ Sound(b) /\ Grows(a, b) /\ Sound(c) /\ Grows(b, c)
      /\ Sound(d) /\ Grows(c, d)
  BY <1>1 DEF Advances
<1>9. /\ Nodes(a) = Nodes(g) \cup N /\ Nodes(b) = Nodes(a)
      /\ \A n \in Nodes(g) : a.nodes[n] = g.nodes[n]
  BY <1>1 DEF Adds, Extended
<1>10. /\ Linked(a) /\ WaitingChecks(a) \subseteq WaitingChecks(g)
       /\ \A X : Attends(g, X) => Attends(a, X)
  <2>1. \A n \in N \ Nodes(g) : CorrectingNode(a, n)
    BY <1>2 DEF CorrectingNode, Recovering
  <2>2. \A n \in N \ Nodes(g) : KindOf(n) \in {"gap", "check"} => \E e \in E : e[2] = n
    BY <1>4
  <2>3. \A e \in E : e[2][2] # "gap"
    BY <1>3 DEF Recovering
  <2>4. Linked(a)
    BY <1>1, <2>1, <2>2, <2>3, AddsLinked
  <2>5. \A n \in N \ Nodes(g) : n[2] = "check" => PortBound(a, n)
    BY <1>2 DEF Recovering
  <2>6. \A e \in E : KindOf(e[2]) = "gap" => a.nodes[e[1]].outcome # "passed"
    BY <1>3, <1>9
  <2>7. /\ WaitingChecks(a) \subseteq WaitingChecks(g)
        /\ \A X : Attends(g, X) => Attends(a, X)
    BY <1>1, <1>8, <2>5, <2>6, AddsAttends
  <2>8. QED BY <2>4, <2>7
<1>11. /\ Linked(b) /\ WaitingChecks(b) \subseteq WaitingChecks(a)
       /\ \A X : Attends(a, X) => Attends(b, X)
  <2>1. \A e \in D : e[2][2] # "gap" /\ KindOf(e[2]) # "gap"
    BY <1>5 DEF KindOf, Recovering
  <2>2. Linked(b)
    BY <1>1, <1>8, <1>10, <2>1, AddsLinked
  <2>3. /\ WaitingChecks(b) \subseteq WaitingChecks(a)
        /\ \A X : Attends(a, X) => Attends(b, X)
    BY <1>1, <1>8, <2>1, AddsAttends
  <2>4. QED BY <2>2, <2>3
<1>12. /\ Linked(c) /\ WaitingChecks(c) \subseteq WaitingChecks(b)
       /\ \A X : Attends(b, X) => Attends(c, X)
  <2>1. CASE F = {}
    BY <2>1, <1>1, <1>11
  <2>2. CASE F # {}
    <3> DEFINE M == {FinalCheck}
               C == F \X M
    <3>1. Adds(b, c, M, C)
      BY <2>2, <1>1
    <3>2. \A n \in M : n = FinalCheck /\ n[2] = "check" /\ n[1] = 0 /\ KindOf(n) = "check"
      BY DEF FinalCheck, KindOf, Recovering
    <3>3. \A e \in C : e[2] \in M /\ e[1] \in F
      OBVIOUS
    <3>4. \A n \in M : \E e \in C : e[2] = n
      <4>1. PICK v \in F : TRUE
        BY <2>2
      <4>2. <<v, FinalCheck>> \in C /\ <<v, FinalCheck>>[2] = FinalCheck
        BY <4>1
      <4>3. QED BY <4>2
    <3> HIDE DEF M, C
    <3>5. \A n \in M \ Nodes(b) : CorrectingNode(c, n)
      BY <3>2 DEF CorrectingNode
    <3>6. \A n \in M \ Nodes(b) : KindOf(n) \in {"gap", "check"} => \E e \in C : e[2] = n
      BY <3>4
    <3>7. \A e \in C : e[2][2] # "gap" /\ KindOf(e[2]) # "gap"
      BY <3>2, <3>3
    <3>8. Linked(c)
      BY <1>8, <1>11, <3>1, <3>5, <3>6, <3>7, AddsLinked
    <3>9. ASSUME NEW n \in M PROVE PortBound(c, n)
      <4>1. PICK e \in C : e[2] = n
        BY <3>4
      <4>2. e \in c.edges /\ n \in Nodes(c)
        BY <3>1 DEF Adds, Extended
      <4>3. c.nodes[n].kind = "check"
        BY <4>2, <3>2, <1>8, KindFacts
      <4>4. c.nodes[e[1]].outcome = "passed"
        BY <3>3, <1>5, <1>6
      <4>5. Selected(c, e)
        BY <4>1, <4>3, <4>4 DEF Selected, Selector
      <4>6. QED BY <4>1, <4>2, <4>5, <3>8 DEF Linked, Delivered
    <3>10. /\ WaitingChecks(c) \subseteq WaitingChecks(b)
           /\ \A X : Attends(b, X) => Attends(c, X)
      BY <1>8, <3>1, <3>7, <3>9, AddsAttends
    <3>11. QED BY <3>8, <3>10
  <2>3. QED BY <2>1, <2>2
<1>13. /\ Linked(d) /\ WaitingChecks(d) \subseteq WaitingChecks(c)
       /\ \A X : Attends(c, X) => Attends(d, X)
  <2>1. Linked(d)
    <3>1. \A n \in Nodes(c) :
             KindOf(n) \in {"gap", "check"} /\ d.nodes[n].state \notin {"planned", "retired"}
             /\ c.nodes[n].state \in {"planned", "retired"} => PortBound(c, n)
      BY <1>7
    <3>2. QED BY <1>1, <1>8, <1>12, <3>1, RestatedLinked
  <2>2. \A n \in Nodes(c) : d.nodes[n].state \in Schedulable => c.nodes[n].state \in Schedulable
    BY <1>7 DEF Schedulable
  <2>3. ASSUME NEW e \in c.edges, c.nodes[e[1]].outcome = "failed",
               d.nodes[e[2]].state \in {"failed", "retired"}
        PROVE  c.nodes[e[2]].state \in {"failed", "retired"}
    <3> SUFFICES ASSUME e[2] \in ToRetire(g, S) PROVE FALSE
      <4>1. e[2] \in Nodes(c)
        BY <1>8, EdgeFacts DEF Sound
      <4>2. QED BY <4>1, <1>7, <2>3
    <3>1. PICK f \in g.edges : f[2] = e[2] /\ g.nodes[f[1]].outcome = "passed"
      BY RetireFacts
    <3>2. e[2][2] = "gap"
      BY RetireFacts DEF Idle
    <3>3. f \in c.edges /\ f[1] \in Nodes(g)
      <4>1. g.edges \subseteq c.edges
        BY <1>8 DEF Grows
      <4>2. QED BY <4>1, EdgeFacts DEF Sound
    <3>4. e[1] = f[1]
      BY <1>12, <3>1, <3>2, <3>3 DEF Linked, Sourced
    <3>5. QED BY <3>1, <3>3, <3>4, <2>3, <1>6
  <2>4. /\ WaitingChecks(d) \subseteq WaitingChecks(c)
        /\ \A X : Attends(c, X) => Attends(d, X)
    BY <1>1, <1>8, <2>2, <2>3, RestatedAttends
  <2>5. QED BY <2>1, <2>4
<1>14. QED BY <1>10, <1>11, <1>12, <1>13

(* What a repair of the records S does to them, as long as the run goes    *)
(* on.                                                                     *)
LEMMA RepairedKeeps ==
  ASSUME NEW g, Sound(g), Linked(g), g.run = "active", NEW S,
         Repaired(g, S).run = "active"
  PROVE  Keeps(g, Repaired(g, S), S)
<1> DEFINE h == Repaired(g, S)
<1>1. ~HasDeadEnd(g, S) /\ Sound(h) /\ Grows(g, h)
  BY RepairedSound DEF RepairedTo, Advances
<1>2. PICK a, b, c, d : Swept(g, S, a, b, c, d) /\ h = d
  BY <1>1, RepairParts
<1> DEFINE R == ToRecover(g, S)
           N == {RecoveryNode(n) : n \in R}
           E == {<<n, RecoveryNode(n)>> : n \in R}
           D == FinalCheckEdges(g, S)
           F == NeedsFinalCheck(g, S)
<1> HIDE DEF h
<1>3. /\ Linked(h) /\ WaitingChecks(h) \subseteq WaitingChecks(g)
      /\ \A X : Attends(g, X) => Attends(h, X)
  BY <1>2, PartsKeep
<1>4. /\ Advances(g, a) /\ Adds(g, a, N, E) /\ Advances(a, b) /\ Adds(a, b, {}, D)
      /\ Advances(b, c) /\ (F = {} => c = b) /\ (F # {} => Adds(b, c, {FinalCheck}, F \X {FinalCheck}))
      /\ Advances(c, h) /\ Restated(c, h)
      /\ \A n \in Nodes(c) :
           h.nodes[n].state = IF n \in ToRetire(g, S) THEN "retired" ELSE c.nodes[n].state
      /\ \A n \in Nodes(g) : n \in Nodes(c) /\ c.nodes[n] = g.nodes[n]
  BY <1>2 DEF Swept
<1>5. \A e \in E : g.nodes[e[1]].outcome = "failed"
  BY RecoverFacts
<1>6. \A x \in ToRetire(g, S) : x \in Nodes(g)
  BY RetireFacts DEF Idle
<1>7. \A n \in R : RecoveryNode(n) \in N /\ <<n, RecoveryNode(n)>> \in E
  OBVIOUS
<1>8. \A n \in R : RecoveryNode(n) \notin Nodes(g)
  BY RecoverFacts
<1>9. \A e \in D \cup (F \X {FinalCheck}) : KindOf(e[2]) # "gap"
  <2>1. \A e \in D : e[2][2] = "check"
    BY FeedFacts
  <2>2. \A e \in F \X {FinalCheck} : e[2][2] = "check"
    BY DEF FinalCheck
  <2> HIDE DEF D, F
  <2>3. QED BY <2>1, <2>2 DEF KindOf, Recovering
<1> HIDE DEF N, E, F
<1>10. /\ Sound(a) /\ Grows(g, a) /\ Sound(b) /\ Grows(a, b) /\ Sound(c) /\ Grows(b, c)
      /\ Sound(h) /\ Grows(c, h)
  BY <1>4 DEF Advances
<1>11. /\ h.edges \subseteq g.edges \cup E \cup D \cup (F \X {FinalCheck})
       /\ g.edges \cup E \cup D \subseteq h.edges
  <2>1. a.edges = g.edges \cup E /\ b.edges = a.edges \cup D /\ h.edges = c.edges
    BY <1>4 DEF Adds, Extended, Restated
  <2>2. c.edges = b.edges \/ c.edges = b.edges \cup (F \X {FinalCheck})
    BY <1>4 DEF Adds, Extended
  <2>3. QED BY <2>1, <2>2
<1>12. ASSUME NEW n \in R
       PROVE  /\ RecoveryNode(n) \in Nodes(h) \ Nodes(g)
              /\ h.nodes[RecoveryNode(n)].state = "planned"
              /\ <<n, RecoveryNode(n)>> \in h.edges
  <2> DEFINE p == RecoveryNode(n)
  <2>1. p \in N \ Nodes(g) /\ <<n, p>> \in E
    BY <1>7, <1>8
  <2> HIDE DEF p
  <2>2. p \in Nodes(a) /\ a.nodes[p].state = "planned"
    BY <2>1, <1>4 DEF Adds, Extended
  <2>3. p \in Nodes(b) /\ b.nodes[p].state = "planned"
    BY <2>2, <1>4 DEF Adds, Extended
  <2>4. p \in Nodes(c) /\ c.nodes[p].state = "planned"
    BY <2>3, <1>4 DEF Adds, Extended
  <2>5. p \in Nodes(h) /\ h.nodes[p].state = "planned"
    BY <2>1, <2>4, <1>4, <1>6 DEF Restated
  <2>6. QED BY <2>1, <2>5, <1>11 DEF p
<1> HIDE DEF D
<1>13. ASSUME Settled(g), NEW n \in S \cap Passing(g, {"verifier", "check"}) PROVE Unneeded(h, n)
  <2> SUFFICES ASSUME NEW e \in h.edges, e[1] = n, h.nodes[e[2]].kind = "gap",
                      h.nodes[e[2]].state \in Live
               PROVE  FALSE
    BY DEF Unneeded
  <2>1. n \in Nodes(g) /\ g.nodes[n].outcome = "passed"
    BY DEF Passing, OfKind, WithOutcome
  <2>2. KindOf(e[2]) = "gap"
    <3>1. e[2] \in Nodes(h)
      BY <1>10, EdgeFacts DEF Sound
    <3>2. QED BY <3>1, <1>10, KindFacts
  <2>3. e \in g.edges
    BY <2>1, <2>2, <1>5, <1>9, <1>11
  <2> DEFINE x == e[2]
             open == InState(g, Live) \ OfKind(g, {"check"})
             T == Successors(g, {n}) \cap OfKind(g, {"gap"})
             O == {f \in g.edges : f[1] \in open}
  <2>4. x \in Nodes(g) /\ g.nodes[x].kind = "gap"
    <3>1. x \in Nodes(g)
      BY <2>3, EdgeFacts DEF Sound
    <3>2. QED BY <3>1, <2>2, KindFacts
  <2>5. g.nodes[x].state \in Live
    <3>1. KeptNode(g, h, x)
      BY <2>4, <1>1 DEF Grows
    <3>2. QED BY <3>1 DEF KeptNode
  <2>6. x \in T /\ x \in open
    BY <2>3, <2>4, <2>5 DEF Successors, OfKind, InState
  <2>7. /\ IsFiniteSet(Nodes(g)) /\ O \in SUBSET (Nodes(g) \X Nodes(g))
        /\ T \in SUBSET Nodes(g)
    BY DEF Sound, Typed, OfKind
  <2>8. FailureBranch(g, n) = Reachable(Nodes(g), O, T) \cap open
    BY DEF FailureBranch, Retirable
  <2> HIDE DEF O, T, open
  <2>9. x \in FailureBranch(g, n)
    BY <2>6, <2>7, <2>8, ReachableIsClosure
  <2>10. x \in ToRetire(g, S)
    BY <2>9, <1>13 DEF ToRetire
  <2>11. h.nodes[x].state = "retired"
    BY <2>4, <2>10, <1>4
  <2>12. QED BY <2>11 DEF Live, Schedulable
<1>14. ASSUME Settled(g), NEW n \in S \cap LatestPass(g) PROVE Supplied(h, n)
  <2> SUFFICES ASSUME NEW k \in WaitingChecks(h), ~WouldCreateCycle(h, n, k)
               PROVE  <<n, k>> \in h.edges
    BY DEF Supplied
  <2>1. k \in WaitingChecks(g)
    BY <1>3
  <2>2. ~WouldCreateCycle(g, n, k)
    <3>1. DownstreamOf(g, k) \subseteq DownstreamOf(h, k)
      BY <1>1, DownstreamGrows
    <3>2. QED BY <3>1 DEF WouldCreateCycle
  <2> DEFINE e == <<n, k>>
  <2>3. e \in (S \cap LatestPass(g)) \X WaitingChecks(g) /\ e[1] = n /\ e[2] = k
    BY <2>1
  <2> HIDE DEF e
  <2>4. e \in g.edges \/ e \in D
    BY <2>2, <2>3, <1>14 DEF FinalCheckEdges, D
  <2>5. e \in h.edges
    BY <2>4, <1>11
  <2>6. QED BY <2>5 DEF e
<1>15. \A n \in Nodes(g) \ ToRetire(g, S) : h.nodes[n].state = g.nodes[n].state
  BY <1>4
<1>16. QED BY <1>3, <1>12, <1>13, <1>14, <1>15 DEF Keeps, h, R

(* A region of the plan in which a verdict failed is not accepted.         *)
LEMMA FailedBlocks ==
  ASSUME NEW g, Sound(g), NEW m \in Nodes(g), m[1] \in 1..MaxRegions,
         m[2] \in {"verifier", "check"}, g.nodes[m].outcome = "failed"
  PROVE  ~AllAccepted(g)
<1> SUFFICES ASSUME AllAccepted(g) PROVE FALSE
  OBVIOUS
<1> DEFINE r == m[1]
           w == <<r, "worker">>
<1>1. r \in 1..MaxRegions /\ r \in Nat /\ MaxRegions \in Nat /\ r > 0 /\ r <= MaxRegions
  BY DataflowAssumption
<1>2. g.nodes[m].kind = m[2] /\ g.nodes[m].region = r
  <2>1. KindOf(m) = m[2] /\ RegionOf(m) = r
    BY <1>1 DEF KindOf, RegionOf, HomeOf, Recovering
  <2>2. QED BY <2>1, KindFacts
<1>3. r \in Regions(g) \cap 1..MaxRegions
  BY <1>1, <1>2 DEF Regions, NoRegion
<1>4. Accepted(g, r)
  BY <1>3 DEF AllAccepted
<1>5. Candidates(g, r) # {} /\ Latest(g, r) = w
  BY <1>3, <1>4, AcceptedCandidate, PlannedCandidate
<1>6. VerifierRequirementPassed(g, r, w) /\ RequiredChecksPassed(g, r)
  BY <1>4, <1>5 DEF Accepted
<1>7. CASE m[2] = "verifier"
  <2>1. m \in Verifiers(g, w)
    <3>1. Pair(m) \in g.edges /\ m = <<r, "verifier">>
      BY <1>1, <1>7, KindFacts DEF Sound, ShapedNode
    <3>2. <<w, m>> \in g.edges
      BY <3>1 DEF Pair
    <3>3. QED BY <3>2, <1>2, <1>7 DEF Verifiers, OfKind
  <2>2. m \in Judged(g, w)
    BY <2>1, <1>2, <1>7 DEF Judged, Failing, OfKind, WithOutcome
  <2>3. ASSUME NEW v \in Verifiers(g, w) PROVE v = m
    <3> DEFINE e == <<w, v>>
    <3>1. e \in g.edges /\ e[1] = w /\ e[2] = v /\ v \in Nodes(g) /\ g.nodes[v].kind = "verifier"
      BY DEF Verifiers, OfKind
    <3> HIDE DEF e
    <3>2. v[2] = "verifier" /\ v = <<v[1], v[2]>> /\ m = <<m[1], m[2]>>
      BY <3>1, KindFacts DEF KindOf
    <3>3. w = <<v[1], "worker">>
      BY <3>1, <3>2 DEF Sound, RoutedEdge
    <3>4. QED BY <3>2, <3>3, <1>7
  <2>4. PICK v \in Judged(g, w) : Passed(g, v) \/ VerificationSuperseded(g, v)
    BY <1>6, <2>2 DEF VerifierRequirementPassed
  <2>5. v = m
    BY <2>3 DEF Judged
  <2>6. ~Passed(g, m)
    BY DEF Passed
  <2>7. QED BY <2>4, <2>5, <2>6, SupersededBlocks
<1>8. CASE m[2] = "check"
  <2>1. g.nodes[m].state # "retired"
    BY <1>8 DEF Sound, RecordedNode
  <2>2. m \in (OfKind(g, {"check"}) \cap InRegion(g, r)) \ InState(g, {"retired"})
    BY <1>2, <1>8, <2>1 DEF OfKind, InRegion, InState
  <2>3. CheckSuperseded(g, m)
    BY <2>2, <1>6 DEF RequiredChecksPassed, Passed
  <2>4. Recoveries(g, m) # {}
    BY <2>3 DEF CheckSuperseded
  <2>5. QED BY <2>4, RecoveredBlocks
<1>9. QED BY <1>7, <1>8

(* Nor is anything else then, where the verdict is on a correction: what   *)
(* that corrects has failed before.                                        *)
LEMMA FailingBlocks ==
  ASSUME NEW g, Sound(g), Linked(g), NEW v \in Failing(g, {"verifier"})
  PROVE  ~AllAccepted(g)
<1>1. v \in Nodes(g) /\ g.nodes[v].outcome = "failed" /\ v[2] = "verifier" /\ v[1] \in Nat
  BY KindFacts DEF Failing, OfKind, WithOutcome, KindOf
<1>2. v[1] > 0 /\ MaxRegions \in Nat
  <2>1. Possible(v)
    BY <1>1, KindFacts
  <2>2. v[1] # 0
    BY <1>1, <2>1 DEF Possible
  <2>3. QED BY <1>1, <2>2, DataflowAssumption
<1>3. CASE v[1] <= MaxRegions
  <2>1. v[1] \in 1..MaxRegions
    BY <1>1, <1>2, <1>3
  <2>2. QED BY <1>1, <2>1, FailedBlocks
<1>4. CASE v[1] > MaxRegions
  <2> DEFINE p == g.nodes[v].parent
  <2>1. KindOf(p) = "gap" /\ p # NoNode
    BY <1>1, <1>4 DEF Linked, CorrectingNode
  <2>2. p \in Nodes(g) /\ g.nodes[p].patch = "work"
    BY <1>1, <2>1 DEF Sound, ShapedNode
  <2> HIDE DEF p
  <2>3. CASE p[2] \in Recovering
    BY <2>2, <2>3, RecoveryBlocks
  <2>4. CASE p[2] \notin Recovering
    <3>1. p[2] = "gap" /\ p[1] \in Nat /\ Possible(p)
      BY <2>1, <2>2, <2>4, KindFacts DEF KindOf
    <3>2. p[1] \in 1..MaxRegions
      BY <3>1, <1>2 DEF Possible
    <3>3. g.nodes[p].state \in {"leased", "completed"}
      BY <2>2 DEF Sound, RecordedNode
    <3>4. PICK e \in g.bound : e[2] = p
      <4>1. BegunNode(g, p)
        BY <2>2 DEF Linked
      <4>2. PortBound(g, p)
        BY <2>1, <3>3, <4>1 DEF BegunNode
      <4>3. QED BY <4>2 DEF PortBound
    <3>5. e \in g.edges /\ Selected(g, e)
      BY DEF Sound, Typed, Linked, Delivered
    <3>6. e[1] \in Nodes(g) /\ RoutedEdge(g, e)
      BY <3>5, EdgeFacts DEF Sound
    <3>7. g.nodes[e[1]].outcome = "failed"
      <4>1. g.nodes[e[2]].kind = "gap"
        BY <2>1, <2>2, <3>4, KindFacts
      <4>2. QED BY <4>1, <3>5 DEF Selected, Selector
    <3>8. e[1][2] \in {"verifier", "check"} /\ e[1][1] = p[1]
      BY <3>1, <3>4, <3>6 DEF RoutedEdge, RecoveryNode, PlanGap
    <3>9. QED BY <3>2, <3>6, <3>7, <3>8, FailedBlocks
  <2>5. QED BY <2>3, <2>4
<1>5. QED BY <1>1, <1>2, <1>3, <1>4

(* A record is accepted and repaired by its own command: its verdict is    *)
(* attended to when nothing else was leased or ready.                      *)
Closes(g, h, n, o) ==
  /\ Linked(h)
  /\ Attends(g, {}) /\ (o \in {"passed", "failed"} => InState(g, {"leased", "ready"}) = {n}) =>
       Attends(h, {})

LEMMA FinishCloses ==
  ASSUME NEW g, Sound(g), Linked(g), g.run = "active",
         NEW n \in Nodes(g), g.nodes[n].state = "leased",
         NEW o \in Outcomes, o # "none", n[2] = "worker" => o = "candidate",
         KindOf(n) = "gap" => g.nodes[n].patch # "none",
         Repaired(Accept(g, n, o), {n}).run = "active"
  PROVE  Closes(g, Repaired(Accept(g, n, o), {n}), n, o)
<1> DEFINE k == Accept(g, n, o)
           S == {n}
           h == Repaired(k, S)
<1>1. RecordedAs(g, k, n, o)
  BY AcceptFacts DEF Sound, Typed
<1>2. Linked(k)
  BY AcceptedLinked
<1> HIDE DEF k
<1>3. Sound(k) /\ Grows(g, k) /\ k.run = "active"
  <2>1. Advances(g, k)
    BY <1>1, RecordedSound
  <2>2. QED BY <1>1, <2>1 DEF Advances, RecordedAs
<1>4. RepairedTo(k, h, S)
  BY <1>3, RepairedSound
<1>5. Keeps(k, h, S)
  BY <1>2, <1>3, RepairedKeeps DEF k
<1> HIDE DEF h
<1>6. Sound(h) /\ Grows(k, h)
  BY <1>4 DEF RepairedTo, Advances
<1>7. /\ n \in Nodes(k) /\ k.nodes[n].outcome = o /\ k.nodes[n].at = g.records + 1
      /\ k.nodes[n].state = "completed"
      /\ Nodes(k) = Nodes(g) /\ \A m \in Nodes(g) : m # n => k.nodes[m] = g.nodes[m]
  <2>1. g.nodes[n] \in NodeType
    BY NodeFacts DEF Sound, Typed
  <2>2. QED BY <2>1, <1>1 DEF RecordedAs, NodeType
<1>8. n \in Nodes(h) /\ h.nodes[n].outcome = o /\ h.nodes[n].kind = k.nodes[n].kind
  BY <1>3, <1>6, <1>7, NodeStays
<1>9. \A m \in Nodes(k) : k.nodes[m].at <= k.nodes[n].at /\ ~(k.nodes[m].at > k.nodes[n].at)
  <2> SUFFICES ASSUME NEW m \in Nodes(k)
               PROVE  k.nodes[m].at <= k.nodes[n].at /\ ~(k.nodes[m].at > k.nodes[n].at)
    OBVIOUS
  <2>1. RecordedNode(k, m) /\ k.records = g.records + 1 /\ g.records \in Nat
    BY <1>1, <1>3, NodeFacts DEF Sound, Typed, RecordedAs
  <2>2. k.nodes[m].at <= g.records + 1 /\ k.nodes[m].at \in Nat
    BY <2>1, <1>3, NodeFacts DEF RecordedNode, Sound, Typed
  <2>3. QED BY <2>1, <2>2, <1>7
<1>10. ASSUME Attends(g, {}), o \in {"passed", "failed"} => InState(g, {"leased", "ready"}) = {n}
       PROVE  Attends(h, {})
  <2>1. Attends(h, {n})
    <3>1. Attends(k, {n})
      BY <1>1, <1>3, <1>10, AcceptedAttends
    <3>2. QED BY <3>1, <1>5 DEF Keeps
  <2> SUFFICES AttendedNode(h, n)
    BY <2>1 DEF Attends
  <2>2. CASE o \notin {"passed", "failed"}
    BY <2>2, <1>8 DEF AttendedNode, Failing, Passing, WithOutcome
  <2>3. CASE o \in {"passed", "failed"}
    <3>1. InState(g, {"leased", "ready"}) = {n}
      BY <2>3, <1>10
    <3>2. InState(k, {"leased"}) = {} /\ InState(k, {"ready"}) = {}
      <4>1. \A m \in Nodes(k) : k.nodes[m].state \notin {"leased", "ready"}
        BY <3>1, <1>7 DEF InState
      <4>2. QED BY <4>1 DEF InState
    <3>3. Quiet(k) /\ Settled(k)
      BY <3>2, <1>3 DEF Quiet, Settled
    <3>4. ASSUME n \in Failing(h, {"verifier"}) PROVE Answered(h, n)
      <4>1. n \in Failing(k, {"verifier"}) /\ o = "failed" /\ k.nodes[n].kind = "verifier"
        BY <3>4, <1>7, <1>8 DEF Failing, OfKind, WithOutcome
      <4>2. n \in S \cap CurrentFailures(k)
        <5>1. ~LaterRegionalPass(k, n)
          <6> SUFFICES ASSUME NEW u \in Passing(k, {"verifier"}), Position(k, u) > Position(k, n)
                       PROVE  FALSE
            BY DEF LaterRegionalPass
          <6>1. u \in Nodes(k)
            BY DEF Passing, OfKind
          <6>2. QED BY <6>1, <1>9 DEF Position
        <5>2. QED BY <4>1, <5>1 DEF CurrentFailures
      <4>3. ~AllAccepted(k)
        BY <4>1, <1>2, <1>3, FailingBlocks
      <4>4. CASE HasRecovery(k, n)
        <5>1. ASSUME NEW p \in Recoveries(k, n) PROVE FALSE
          <6>1. p \in Nodes(g) /\ AnswerOf(p) = n /\ n # NoNode
            BY <1>3, <1>7, KindFacts DEF Recoveries
          <6>2. p[2] \in Recovering /\ Recovered(p) = n
            BY <6>1 DEF AnswerOf
          <6>3. OwnedNode(g, p) /\ RecordedNode(g, n)
            BY <6>1 DEF Sound
          <6>4. QED BY <6>2, <6>3 DEF OwnedNode, RecordedNode
        <5>2. PICK p \in OfKind(k, {"gap"}) : <<n, p>> \in k.edges
                                             /\ k.nodes[p].state \notin {"failed", "retired"}
          BY <4>4, <5>1 DEF HasRecovery
        <5> DEFINE e == <<n, p>>
        <5>3. e \in h.edges /\ e[1] = n /\ e[2] = p
          BY <5>2, <1>6 DEF Grows
        <5>4. p \in Nodes(k) /\ h.nodes[p].kind = "gap"
          BY <5>2, <1>3, <1>6, NodeStays DEF OfKind
        <5>5. ToRetire(k, S) = {}
          <6>1. S \cap Passing(k, {"verifier", "check"}) = {}
            BY <4>1, <1>7 DEF Passing, WithOutcome
          <6>2. QED BY <6>1 DEF ToRetire
        <5>6. h.nodes[p].state = k.nodes[p].state
          BY <5>4, <5>5, <1>5 DEF Keeps
        <5> HIDE DEF e
        <5>7. QED BY <5>2, <5>3, <5>4, <5>6 DEF Answered
      <4>5. CASE ~HasRecovery(k, n)
        <5>1. n \in ToRecover(k, S)
          BY <4>1, <4>2, <4>3, <4>5, <3>2, <3>3 DEF ToRecover
        <5> DEFINE p == RecoveryNode(n)
                   e == <<n, p>>
        <5>2. p \in Nodes(h) /\ h.nodes[p].state = "planned" /\ e \in h.edges
          BY <5>1, <1>5 DEF Keeps
        <5>3. KindOf(p) = "gap"
          BY <5>1, <1>3, RecoverFacts
        <5>4. e[1] = n /\ e[2] = p
          OBVIOUS
        <5> HIDE DEF p, e
        <5>5. h.nodes[p].kind = "gap"
          BY <5>2, <5>3, <1>6, KindFacts
        <5>6. QED BY <5>2, <5>4, <5>5 DEF Answered
      <4>6. QED BY <4>4, <4>5
    <3>5. ASSUME n \in Passing(h, {"verifier", "check"}) PROVE Unneeded(h, n)
      <4>1. n \in S \cap Passing(k, {"verifier", "check"})
        BY <3>5, <1>7, <1>8 DEF Passing, OfKind, WithOutcome
      <4>2. QED BY <4>1, <3>3, <1>5 DEF Keeps
    <3>6. ASSUME n \in Passing(h, {"verifier"}) PROVE Supplied(h, n)
      <4>1. n \in Passing(k, {"verifier"})
        BY <3>6, <1>7, <1>8 DEF Passing, OfKind, WithOutcome
      <4>2. \A u \in Passing(k, {"verifier"}) : Position(k, u) <= Position(k, n)
        BY <1>9 DEF Passing, OfKind, Position
      <4>3. n \in S \cap LatestPass(k)
        BY <4>1, <4>2 DEF LatestPass
      <4>4. QED BY <4>3, <3>3, <1>5 DEF Keeps
    <3>7. QED BY <3>4, <3>5, <3>6 DEF AttendedNode
  <2>4. QED BY <2>2, <2>3
<1>11. QED BY <1>5, <1>10 DEF Closes, Keeps, h, k

-----------------------------------------------------------------------------
(* The steps of the system.                                                *)

AllPassed(g) ==
  \A r \in Regions(g) : Candidates(g, r) # {} =>
    \E v \in Verifiers(g, Latest(g, r)) : Passed(g, v)

HasUnrepaired(g) ==
  \E n \in Nodes(g) : \E p \in Recoveries(g, n) :
     g.nodes[p].state = "completed" /\ RepairedBy(g, n) = {}

(* What a step does: an ended run does not move, a run completes when all  *)
(* was passed, and it fails, where corrections are wired, for a failure    *)
(* that nothing repaired.                                                  *)
Steps(g, h) ==
  /\ Sound(h) /\ Grows(g, h)
  /\ g.run # "active" => h = g
  /\ h.run = "completed" /\ g.run = "active" => InState(h, Live) = {} /\ AllPassed(h)
  /\ Wirings \subseteq {TRUE} /\ Proposed(g) =>
       /\ Proposed(h)
       /\ h.run = "failed" /\ g.run = "active" => HasUnrepaired(h)

(* A step that leaves the run active.                                      *)
LEMMA StepsOfActive ==
  ASSUME NEW g, NEW h, g.run = "active", h.run = "active", Sound(h), Grows(g, h),
         Wirings \subseteq {TRUE} /\ Proposed(g) => Proposed(h)
  PROVE  Steps(g, h)
BY DEF Steps

(* Such a step that proposes nothing.                                      *)
LEMMA StepsOfAdvance ==
  ASSUME NEW g, NEW h, Sound(g), g.run = "active", h.run = "active", Advances(g, h)
  PROVE  Steps(g, h)
BY AdvancesProposed DEF Steps, Advances

(* A repair, which may fail the run.                                       *)
LEMMA StepsOfRepair ==
  ASSUME NEW g, NEW S, Sound(g), g.run = "active"
  PROVE  Steps(g, Repaired(g, S))
<1> DEFINE h == Repaired(g, S)
<1>1. RepairedTo(g, h, S)
  BY RepairedSound
<1> HIDE DEF h
<1>2. /\ Sound(h) /\ Grows(g, h) /\ Advances(g, h)
      /\ h.run = "active" \/ (h.run = "failed" /\ HasDeadEnd(g, S))
  BY <1>1 DEF RepairedTo, Advances
<1>3. Proposed(g) => Proposed(h)
  BY <1>2, AdvancesProposed
<1>4. Proposed(g) /\ h.run = "failed" => HasUnrepaired(h)
  BY <1>2, DeadEndUnrepaired DEF HasUnrepaired
<1>5. h.run # "completed"
  BY <1>2
<1>6. Steps(g, h)
  BY <1>2, <1>3, <1>4, <1>5 DEF Steps
<1>7. QED BY <1>6 DEF h

(* A record and its repair, in one command.                                *)
LEMMA StepsOfFinish ==
  ASSUME NEW g, Sound(g), g.run = "active", NEW n \in Nodes(g), g.nodes[n].state = "leased",
         NEW o \in Outcomes, o # "none", n[2] = "worker" => o = "candidate"
  PROVE  Steps(g, Repaired(Accept(g, n, o), {n}))
<1> DEFINE k == Accept(g, n, o)
           h == Repaired(k, {n})
<1>1. RecordedAs(g, k, n, o)
  BY AcceptFacts DEF Sound, Typed
<1> HIDE DEF k
<1>2. Advances(g, k)
  BY <1>1, RecordedSound
<1>3. Sound(k) /\ Grows(g, k) /\ k.run = "active"
  BY <1>1, <1>2 DEF Advances, RecordedAs
<1>4. Steps(k, h)
  BY <1>3, StepsOfRepair
<1> HIDE DEF h
<1>5. Sound(h) /\ Grows(g, h)
  BY <1>3, <1>4, GrowsTransitive DEF Steps
<1>6. Proposed(g) => Proposed(k)
  BY <1>2, AdvancesProposed
<1>7. Steps(g, h)
  BY <1>3, <1>4, <1>5, <1>6 DEF Steps
<1>8. QED BY <1>7 DEF h, k

(* A reconcile, by the driver or after a restart.                          *)
LEMMA StepsOfReconcile ==
  ASSUME NEW g, Sound(g), g.run = "active"
  PROVE  Steps(g, Reconciled(g))
BY StepsOfRepair DEF Reconciled

(* A step that leaves the graph alone.                                     *)
LEMMA StepsOfNothing ==
  ASSUME NEW g, Sound(g)
  PROVE  Steps(g, g)
<1>1. Grows(g, g)
  BY AdvancesReflexive DEF Advances
<1>2. g.run = "active" => g.run # "completed" /\ g.run # "failed"
  OBVIOUS
<1>3. QED BY <1>1, <1>2 DEF Steps

(* The run completes.                                                      *)
LEMMA StepsOfComplete ==
  ASSUME NEW g, Sound(g), g.run = "active", InState(g, Live) = {}, AllAccepted(g)
  PROVE  Steps(g, [g EXCEPT !.run = "completed"])
<1> DEFINE h == [g EXCEPT !.run = "completed"]
<1>1. Advances(g, h) /\ h.run = "completed" /\ h.nodes = g.nodes /\ h.edges = g.edges
  BY RunSound
<1> HIDE DEF h
<1>2. AllPassed(g)
  BY AcceptedMeansPassed DEF AllPassed
<1>3. Nodes(h) = Nodes(g)
  BY <1>1 DEF Nodes
<1>4. /\ Regions(h) = Regions(g) /\ InState(h, Live) = InState(g, Live)
      /\ \A r : Candidates(h, r) = Candidates(g, r)
      /\ \A w : Verifiers(h, w) = Verifiers(g, w)
      /\ \A n : Position(h, n) = Position(g, n) /\ (Passed(h, n) <=> Passed(g, n))
  BY <1>1, <1>3 DEF Regions, InState, Candidates, Verifiers, Position, Passed, OfKind,
                    InRegion, WithOutcome
<1>5. \A r : Latest(h, r) = Latest(g, r)
  BY <1>4 DEF Latest
<1>6. AllPassed(h) /\ InState(h, Live) = {}
  BY <1>2, <1>4, <1>5 DEF AllPassed
<1>7. Proposed(g) => Proposed(h)
  BY <1>1, AdvancesProposed
<1>8. Steps(g, h)
  BY <1>1, <1>6, <1>7 DEF Steps, Advances
<1>9. QED BY <1>8 DEF h

(* The corrections so far are finitely many.                               *)
LEMMA CorrectionsCounted ==
  ASSUME Sound(graph)
  PROVE  Corrections \in Nat
<1> DEFINE G == {m \in Nodes(graph) : graph.nodes[m].kind = "gap" /\ graph.nodes[m].patch = "work"}
<1>1. IsFiniteSet(Nodes(graph)) /\ G \subseteq Nodes(graph)
  BY DEF Sound, Typed
<1>2. Corrections = Cardinality(G)
  BY DEF Corrections
<1> HIDE DEF G
<1>3. IsFiniteSet(G)
  BY <1>1, FS_Subset
<1>4. QED BY <1>2, <1>3, FS_CardinalityType

(* Every action of the system, one case each.                              *)
LEMMA StepSound ==
  ASSUME Sound(graph), [Next]_vars
  PROVE  Steps(graph, graph')
<1>1. CASE UNCHANGED vars
  BY <1>1, StepsOfNothing DEF vars
<1>2. ASSUME NEW n \in Nodes(graph), SubmitPlan(n) PROVE Steps(graph, graph')
  <2>1. /\ graph.run = "active" /\ graph.nodes[n].state = "leased"
        /\ graph.nodes[n].kind = "planner" /\ graph.nodes[n].patch = "none"
    BY <1>2 DEF SubmitPlan, Leased, InState
  <2>2. n = Root
    BY <2>1, RootFacts
  <2>3. PICK plan \in Plans :
          LET p   == [graph EXCEPT !.nodes[Root].patch = "work"]
              new == [m \in PlanNodes(plan) |-> NewNode(m[2], m[1], Root, NoNode)]
          IN  graph' = Connect(Created(p, new), PlanEdges(plan))
    BY <1>2, <2>2 DEF SubmitPlan
  <2>4. Sound(graph') /\ Grows(graph, graph') /\ Proposed(graph') /\ graph'.run = graph.run
    BY <2>1, <2>2, <2>3, PlannedSound
  <2>5. QED BY <2>1, <2>4, StepsOfActive
<1>3. ASSUME NEW n \in Nodes(graph), SubmitCorrection(n) PROVE Steps(graph, graph')
  <2>1. /\ graph.run = "active" /\ graph.nodes[n].state = "leased"
        /\ graph.nodes[n].kind = "gap" /\ graph.nodes[n].patch = "none"
    BY <1>3 DEF SubmitCorrection, Leased, InState
  <2>2. KindOf(n) = "gap"
    BY <2>1, KindFacts
  <2>3. CASE graph' = [graph EXCEPT !.nodes[n].patch = "empty"]
    <3>1. /\ Sound(graph') /\ Grows(graph, graph') /\ graph'.run = graph.run
          /\ Proposed(graph) => Proposed(graph')
      BY <2>1, <2>2, <2>3, EmptySound
    <3>2. QED BY <2>1, <3>1, StepsOfActive
  <2>4. CASE \E wired \in Wirings :
               LET p   == [graph EXCEPT !.nodes[n].patch = "work"]
                   w   == CorrectionAt(Corrections + 1, "worker")
                   v   == CorrectionAt(Corrections + 1, "verifier")
                   new == [m \in {w, v} |-> NewNode(m[2], Corrective, n, NoNode)]
               IN  graph' = Connect(Created(p, new),
                                    {<<w, v>>} \cup (IF wired THEN {<<n, w>>} ELSE {}))
    <3> DEFINE c == Corrections
    <3>1. c \in Nat
      BY CorrectionsCounted
    <3>2. PICK wired \in Wirings :
             LET p   == [graph EXCEPT !.nodes[n].patch = "work"]
                 w   == CorrectionAt(c + 1, "worker")
                 v   == CorrectionAt(c + 1, "verifier")
                 new == [m \in {w, v} |-> NewNode(m[2], Corrective, n, NoNode)]
             IN  graph' = Connect(Created(p, new),
                                  {<<w, v>>} \cup (IF wired THEN {<<n, w>>} ELSE {}))
      BY <2>4
    <3>3. wired \in BOOLEAN
      BY DataflowAssumption
    <3> HIDE DEF c
    <3>4. /\ Sound(graph') /\ Grows(graph, graph') /\ graph'.run = graph.run
          /\ wired /\ Proposed(graph) => Proposed(graph')
      BY <2>1, <2>2, <3>1, <3>2, <3>3, CorrectedSound
    <3>5. Wirings \subseteq {TRUE} => wired
      OBVIOUS
    <3>6. QED BY <2>1, <3>4, <3>5, StepsOfActive
  <2>5. QED BY <1>3, <2>3, <2>4 DEF SubmitCorrection
<1>4. ASSUME NEW n \in Nodes(graph), NEW o \in Outcomes, Leased(n), Finish(n, o), o # "none",
             n[2] = "worker" => o = "candidate"
      PROVE  Steps(graph, graph')
  <2>1. graph.run = "active" /\ graph.nodes[n].state = "leased"
    BY <1>4 DEF Leased, InState
  <2>2. graph' = Repaired(Accept(graph, n, o), {n})
    BY <1>4 DEF Finish
  <2>3. QED BY <1>4, <2>1, <2>2, StepsOfFinish
<1>5. ASSUME NEW n \in Nodes(graph), CompleteWorker(n) PROVE Steps(graph, graph')
  BY <1>4, <1>5 DEF CompleteWorker, Outcomes
<1>6. ASSUME NEW n \in Nodes(graph), Judge(n) PROVE Steps(graph, graph')
  <2>1. n[2] # "worker"
    BY <1>6, KindFacts DEF Judge, KindOf
  <2>2. PICK o \in {"passed", "failed"} : Leased(n) /\ Finish(n, o)
    BY <1>6 DEF Judge
  <2>3. QED BY <2>1, <2>2, <1>4 DEF Outcomes
<1>7. ASSUME NEW n \in Nodes(graph), CompletePlanner(n) PROVE Steps(graph, graph')
  <2>1. n[2] # "worker"
    BY <1>7, KindFacts DEF CompletePlanner, KindOf, Recovering
  <2> DEFINE o == graph.nodes[n].patch
  <2>2. Leased(n) /\ Finish(n, o) /\ o # "none"
    BY <1>7 DEF CompletePlanner
  <2>3. o \in Patches
    BY NodeFacts DEF Sound, Typed
  <2> HIDE DEF o
  <2>4. o \in Outcomes
    BY <2>2, <2>3 DEF Patches, Outcomes
  <2>5. QED BY <2>1, <2>2, <2>4, <1>4
<1>8. ASSUME NEW n \in Nodes(graph), Die(n) PROVE Steps(graph, graph')
  <2>1. graph.run = "active" /\ graph.nodes[n].state = "leased" /\ graph.nodes[n].patch = "none"
    BY <1>8 DEF Die, Leased, InState
  <2>2. PICK s \in {"planned", "failed"} : graph' = [graph EXCEPT !.nodes[n].state = s]
    BY <1>8 DEF Die
  <2>3. Died(graph, graph', n, s)
    BY <2>1, <2>2, DeadSound
  <2>4. QED BY <2>1, <2>3, StepsOfAdvance DEF Died
<1>9. CASE Tick
  <2>1. graph.run = "active" /\ graph' = Ticked(graph)
    BY <1>9 DEF Tick, Driving
  <2>2. QED BY <2>1, TickedSound, StepsOfAdvance DEF TickedTo
<1>10. CASE DriveComplete
  <2>1. /\ graph.run = "active" /\ InState(graph, Live) = {} /\ AllAccepted(graph)
        /\ graph' = graph \/ graph' = [graph EXCEPT !.run = "completed"]
    BY <1>10 DEF DriveComplete, Driving, Exhausted
  <2>2. QED BY <2>1, StepsOfComplete, StepsOfNothing
<1>11. CASE DriveReconcile
  BY <1>11, StepsOfReconcile DEF DriveReconcile, Driving
<1>12. CASE Park
  BY <1>12, StepsOfNothing DEF Park
<1>13. CASE Rearm
  BY <1>13, StepsOfReconcile DEF Rearm
<1> HIDE DEF vars
<1>14. QED
  BY <1>1, <1>2, <1>3, <1>5, <1>6, <1>7, <1>8, <1>9, <1>10, <1>11, <1>12, <1>13
     DEF Next, Runner, Answer, Driver

(* The run begins with its root planner.                                   *)
LEMMA InitSound == Init => Sound(graph) /\ Proposed(graph) /\ graph.run = "active"
<1> SUFFICES ASSUME Init PROVE Sound(graph) /\ Proposed(graph) /\ graph.run = "active"
  OBVIOUS
<1> DEFINE x == NewNode("planner", NoRegion, NoNode, NoNode)
           f == [n \in {Root} |-> x]
<1>1. /\ Root \in Ids /\ NoNode \in Ids /\ Root[1] = 0 /\ Root[2] = "planner"
      /\ "planner" \in Kinds /\ NoRegion \in Nat /\ {Root} \in SUBSET Ids
  BY DEF Root, NoNode, Ids, Roles, Kinds, NoRegion
<1>2. /\ x \in NodeType /\ x.kind = "planner" /\ x.region = NoRegion /\ x.parent = NoNode
      /\ x.recovers = NoNode /\ x.state = "planned" /\ x.outcome = "none"
      /\ x.patch = "none" /\ x.at = 0
  BY <1>1, NewNodeFacts
<1> HIDE DEF x
<1>3. f \in [{Root} -> NodeType] /\ f[Root] = x
  BY <1>2
<1>4. f \in UNION {[N -> NodeType] : N \in SUBSET Ids}
  BY <1>1, <1>3
<1>5. graph = [run |-> "active", nodes |-> f, edges |-> {}, bound |-> {}, records |-> 0]
  BY DEF Init, x
<1> HIDE DEF f
<1>6. /\ graph \in GraphType /\ Nodes(graph) = {Root} /\ graph.nodes[Root] = x
      /\ graph.run = "active" /\ graph.edges = {} /\ graph.bound = {} /\ graph.records = 0
  BY <1>3, <1>4, <1>5 DEF GraphType, Nodes
<1>7. Typed(graph) /\ Distinct(graph) /\ Unplanned(graph)
  BY <1>6, FS_Singleton DEF Typed, Distinct, Unplanned
<1>8. RecordedNode(graph, Root)
  BY <1>1, <1>2, <1>6 DEF RecordedNode
<1>9. ShapedNode(graph, Root) /\ OwnedNode(graph, Root)
  <2>1. Root[2] \notin Recovering
    BY <1>1 DEF Recovering
  <2>2. KindOf(Root) = "planner" /\ RegionOf(Root) = NoRegion /\ AnswerOf(Root) = NoNode
    BY <1>1, <2>1 DEF KindOf, RegionOf, HomeOf, AnswerOf
  <2>3. ~(Root[1] > MaxRegions) /\ ~(Root[1] > 0)
    BY <1>1, DataflowAssumption
  <2>4. Possible(Root)
    BY <1>1, <2>3 DEF Possible
  <2>5. ShapedNode(graph, Root)
    BY <1>2, <1>6, <2>2, <2>3, <2>4 DEF ShapedNode
  <2>6. QED BY <2>1, <2>5 DEF OwnedNode
<1>10. Proposed(graph)
  BY <1>2, <1>6 DEF Proposed, OfKind
<1>11. Sound(graph)
  BY <1>6, <1>7, <1>8, <1>9 DEF Sound
<1>12. QED BY <1>6, <1>10, <1>11

(* The graph is sound in every reachable state: the inductive invariant    *)
(* that the theorems below rest on.                                        *)
THEOREM Invariant == Spec => []Sound(graph)
<1>1. Sound(graph) /\ [Next]_vars => Sound(graph)'
  BY StepSound DEF Steps
<1>2. QED BY <1>1, InitSound, PTL DEF Spec

-----------------------------------------------------------------------------
(* The verdicts of an active run are attended to, unless one was missed.   *)

(* The plan begins without verdicts.                                       *)
LEMMA PlannedTended ==
  ASSUME NEW g, Sound(g), Linked(g), g.nodes[Root].state = "leased",
         g.nodes[Root].patch = "none", NEW plan \in Plans,
         NEW h, Submits(g, h, PlanNodes(plan), PlanEdges(plan))
  PROVE  Linked(h) /\ Attends(h, {})
<1> DEFINE N == PlanNodes(plan)
           E == PlanEdges(plan)
<1>1. PICK p : Sound(p) /\ Grows(g, p) /\ Repatched(g, p) /\ Grows(p, h) /\ Adds(p, h, N, E)
  BY DEF Submits
<1>2. /\ \A m \in N : m[1] \in 1..MaxRegions /\ m[2] \notin Recovering
      /\ \A m \in N : m[2] \in {"gap", "check"} => \E e \in E : e[2] = m
      /\ \A e, f \in E : e[2] = f[2] /\ e[2][2] = "gap" => e[1] = f[1]
      /\ \A e \in E : e[2] \in N
  BY PlanFacts
<1> HIDE DEF N, E
<1>3. Nodes(p) = {Root} /\ p.nodes[Root].outcome = "none"
  <2>1. Nodes(g) = {Root} /\ Root \in Nodes(g)
    BY DEF Sound, Unplanned
  <2>2. g.nodes[Root].outcome = "none"
    BY <2>1 DEF Sound, RecordedNode
  <2>3. QED BY <2>1, <2>2, <1>1 DEF Repatched
<1>4. /\ Nodes(h) = Nodes(p) \cup N /\ \A n \in Nodes(p) : h.nodes[n] = p.nodes[n]
      /\ \A n \in N \ Nodes(p) : h.nodes[n].outcome = "none"
  BY <1>1 DEF Adds, Extended
<1>5. Linked(p)
  BY <1>1, RepatchedLinked
<1>6. \A m \in N : ~(m[1] > MaxRegions) /\ m # Root
  BY <1>2, DataflowAssumption, RootFacts
<1>7. \A n \in N \ Nodes(p) : CorrectingNode(h, n)
  BY <1>6 DEF CorrectingNode
<1>8. \A n \in N \ Nodes(p) : KindOf(n) \in {"gap", "check"} => \E e \in E : e[2] = n
  BY <1>2 DEF KindOf
<1>9. \A e \in E : e[2][2] = "gap" => e[2] \notin Nodes(p)
  BY <1>2, <1>3, <1>6
<1>10. Linked(h)
  BY <1>1, <1>2, <1>5, <1>7, <1>8, <1>9, AddsLinked
<1>11. \A n \in Nodes(h) : h.nodes[n].outcome = "none"
  BY <1>3, <1>4
<1>12. Attends(h, {})
  BY <1>11 DEF Attends, AttendedNode, Failing, Passing, WithOutcome
<1>13. QED BY <1>10, <1>12

(* A correction adds neither planners nor checks.                          *)
LEMMA CorrectedTended ==
  ASSUME NEW g, Sound(g), Linked(g), NEW n \in Nodes(g), KindOf(n) = "gap",
         NEW h, Sound(h), Corrects(g, h, n)
  PROVE  Linked(h) /\ (Attends(g, {}) => Attends(h, {}))
<1>1. PICK N, E : /\ Submits(g, h, N, E)
                  /\ \A m \in N \ Nodes(g) : m[2] \in {"worker", "verifier"} /\ h.nodes[m].parent = n
                  /\ \A e \in E : e[2][2] \in {"worker", "verifier"}
  BY DEF Corrects
<1>2. PICK p : Sound(p) /\ Grows(g, p) /\ Repatched(g, p) /\ Grows(p, h) /\ Adds(p, h, N, E)
  BY <1>1 DEF Submits
<1>3. Nodes(p) = Nodes(g)
  BY <1>2 DEF Repatched
<1>4. Linked(p)
  BY <1>2, RepatchedLinked
<1>5. n # NoNode
  BY KindFacts
<1>6. \A m \in N \ Nodes(p) : CorrectingNode(h, m)
  BY <1>1, <1>3, <1>5 DEF CorrectingNode
<1>7. \A m \in N \ Nodes(p) : KindOf(m) \notin {"gap", "check"} /\ m[2] # "check"
  BY <1>1, <1>3 DEF KindOf, Recovering
<1>8. \A e \in E : e[2][2] # "gap" /\ KindOf(e[2]) # "gap"
  BY <1>1 DEF KindOf, Recovering
<1>9. Linked(h)
  BY <1>2, <1>4, <1>6, <1>7, <1>8, AddsLinked
<1>10. ASSUME Attends(g, {}) PROVE Attends(h, {})
  <2>1. Attends(p, {})
    BY <1>2, <1>10, RepatchedAttends
  <2>2. \A X : Attends(p, X) => Attends(h, X)
    BY <1>2, <1>7, <1>8, AddsAttends
  <2>3. QED BY <2>1, <2>2
<1>11. QED BY <1>9, <1>10

(* A patch that creates nothing.                                           *)
LEMMA EmptyTended ==
  ASSUME NEW g, Sound(g), Linked(g), NEW h, Sound(h), Grows(g, h), Repatched(g, h)
  PROVE  Linked(h) /\ (Attends(g, {}) => Attends(h, {}))
BY RepatchedLinked, RepatchedAttends

(* A runner dies: a check keeps its record, and only a gap planner that is *)
(* lost leaves a verdict unanswered.                                       *)
LEMMA DeadTended ==
  ASSUME NEW g, Sound(g), Linked(g), NEW n \in Nodes(g), g.nodes[n].state = "leased",
         NEW s \in {"planned", "failed"}, NEW h, Died(g, h, n, s)
  PROVE  /\ Linked(h)
         /\ Attends(g, {}) /\ ~(s = "failed" /\ g.nodes[n].kind = "gap") => Attends(h, {})
<1>1. /\ Sound(h) /\ Grows(g, h) /\ Restated(g, h) /\ h.nodes[n].state = s
      /\ \A m \in Nodes(g) : m # n => h.nodes[m] = g.nodes[m]
  BY DEF Died, Advances
<1>2. Linked(h)
  <2>1. \A m \in Nodes(g) :
           KindOf(m) \in {"gap", "check"} /\ h.nodes[m].state \notin {"planned", "retired"}
           /\ g.nodes[m].state \in {"planned", "retired"} => PortBound(g, m)
    BY <1>1
  <2>2. QED BY <1>1, <2>1, RestatedLinked
<1>3. ASSUME Attends(g, {}), ~(s = "failed" /\ g.nodes[n].kind = "gap") PROVE Attends(h, {})
  <2>1. \A m \in Nodes(g) : KindOf(m) = "check" /\ h.nodes[m].state \in Schedulable =>
           PortBound(g, m) \/ g.nodes[m].state \in Schedulable
    <3>1. BegunNode(g, n)
      BY DEF Linked
    <3>2. KindOf(n) = "check" => PortBound(g, n)
      BY <3>1 DEF BegunNode
    <3>3. QED BY <1>1, <3>2
  <2>2. \A e \in g.edges :
           KindOf(e[2]) = "gap" /\ g.nodes[e[1]].outcome = "failed"
           /\ h.nodes[e[2]].state \in {"failed", "retired"}
           => g.nodes[e[2]].state \in {"failed", "retired"}
    <3> SUFFICES ASSUME NEW e \in g.edges, KindOf(e[2]) = "gap",
                        h.nodes[e[2]].state \in {"failed", "retired"}
                 PROVE  g.nodes[e[2]].state \in {"failed", "retired"}
      OBVIOUS
    <3>1. e[2] \in Nodes(g)
      BY EdgeFacts DEF Sound
    <3>2. e[2] # n
      BY <1>1, <1>3, KindFacts
    <3>3. QED BY <1>1, <3>1, <3>2
  <2>3. \A X : Attends(g, X) => Attends(h, X)
    BY <1>1, <2>1, <2>2, RestatedAttends
  <2>4. QED BY <1>3, <2>3
<1>4. QED BY <1>2, <1>3

(* A tick begins planners and checks that have their records.              *)
LEMMA TickTended ==
  ASSUME NEW g, Sound(g), Linked(g), NEW h, TickedTo(g, h)
  PROVE  Linked(h) /\ (Attends(g, {}) => Attends(h, {}))
<1>1. /\ Sound(h) /\ Grows(g, h) /\ Restated(g, h)
      /\ \A n \in Nodes(g) : IF n \in Ready(g) THEN h.nodes[n].state \in {"leased", "ready"}
                              ELSE h.nodes[n] = g.nodes[n]
  BY DEF TickedTo, Advances
<1>2. \A n \in Ready(g) : n \in Nodes(g) /\ g.nodes[n].state \in Schedulable /\ InputsReady(g, n)
  BY DEF Ready, InState
<1>3. ASSUME NEW n \in Ready(g), KindOf(n) \in {"gap", "check"} PROVE PortBound(g, n)
  <2>1. PICK e \in g.edges : e[2] = n
    BY <1>2, <1>3 DEF Linked, Sourced
  <2>2. QED BY <2>1, <1>2 DEF InputsReady
<1>4. Linked(h)
  <2>1. \A n \in Nodes(g) :
           KindOf(n) \in {"gap", "check"} /\ h.nodes[n].state \notin {"planned", "retired"}
           /\ g.nodes[n].state \in {"planned", "retired"} => PortBound(g, n)
    BY <1>1, <1>3
  <2>2. QED BY <1>1, <2>1, RestatedLinked
<1>5. \A X : Attends(g, X) => Attends(h, X)
  <2>1. \A n \in Nodes(g) : KindOf(n) = "check" /\ h.nodes[n].state \in Schedulable =>
           PortBound(g, n) \/ g.nodes[n].state \in Schedulable
    BY <1>1, <1>2
  <2>2. \A e \in g.edges :
           KindOf(e[2]) = "gap" /\ g.nodes[e[1]].outcome = "failed"
           /\ h.nodes[e[2]].state \in {"failed", "retired"}
           => g.nodes[e[2]].state \in {"failed", "retired"}
    <3>1. \A e \in g.edges : e[2] \in Nodes(g)
      BY EdgeFacts DEF Sound
    <3>2. QED BY <1>1, <3>1
  <2>3. QED BY <1>1, <2>1, <2>2, RestatedAttends
<1>6. QED BY <1>4, <1>5

(* A reconcile.                                                            *)
LEMMA ReconcileTended ==
  ASSUME NEW g, Sound(g), Linked(g), g.run = "active", Reconciled(g).run = "active"
  PROVE  Linked(Reconciled(g)) /\ (Attends(g, {}) => Attends(Reconciled(g), {}))
<1>1. Reconciled(g) = Repaired(g, Nodes(g))
  BY DEF Reconciled
<1>2. Keeps(g, Reconciled(g), Nodes(g))
  BY <1>1, RepairedKeeps
<1>3. QED BY <1>2 DEF Keeps

Tending(g, b) == Linked(g) /\ (~b => Attends(g, {}))
Tended(g, b)  == g.run = "active" => Tending(g, b)

(* Every step keeps this.                                                  *)
LEMMA StepTended ==
  ASSUME Sound(graph), Tended(graph, missed), [Next]_vars
  PROVE  Tended(graph', missed')
<1> SUFFICES ASSUME graph'.run = "active" PROVE Tending(graph', missed')
  BY DEF Tended
<1>1. graph.run = "active" /\ Sound(graph') /\ Grows(graph, graph')
  BY StepSound DEF Steps
<1>2. Linked(graph) /\ (~missed => Attends(graph, {}))
  BY <1>1 DEF Tended, Tending
<1>3. CASE graph' = graph /\ missed' = missed
  BY <1>2, <1>3 DEF Tending
<1>4. ASSUME NEW n \in Nodes(graph), SubmitPlan(n) PROVE Tending(graph', missed')
  <2>1. /\ graph.nodes[n].state = "leased"
        /\ graph.nodes[n].kind = "planner" /\ graph.nodes[n].patch = "none"
    BY <1>4 DEF SubmitPlan, Leased, InState
  <2>2. n = Root
    BY <2>1, RootFacts
  <2>3. PICK plan \in Plans :
          LET p   == [graph EXCEPT !.nodes[Root].patch = "work"]
              new == [m \in PlanNodes(plan) |-> NewNode(m[2], m[1], Root, NoNode)]
          IN  graph' = Connect(Created(p, new), PlanEdges(plan))
    BY <1>4, <2>2 DEF SubmitPlan
  <2>4. Submits(graph, graph', PlanNodes(plan), PlanEdges(plan))
    BY <2>1, <2>2, <2>3, PlannedSound
  <2>5. QED BY <1>2, <2>1, <2>2, <2>4, PlannedTended DEF Tending
<1>5. ASSUME NEW n \in Nodes(graph), SubmitCorrection(n) PROVE Tending(graph', missed')
  <2>1. /\ graph.nodes[n].state = "leased" /\ graph.nodes[n].kind = "gap"
        /\ graph.nodes[n].patch = "none" /\ missed' = missed
    BY <1>5 DEF SubmitCorrection, Leased, InState
  <2>2. KindOf(n) = "gap"
    BY <2>1, KindFacts
  <2>3. CASE graph' = [graph EXCEPT !.nodes[n].patch = "empty"]
    <3>1. Repatched(graph, graph')
      BY <2>1, <2>2, <2>3, EmptySound
    <3>2. QED BY <1>1, <1>2, <2>1, <3>1, EmptyTended DEF Tending
  <2>4. CASE \E wired \in Wirings :
               LET p   == [graph EXCEPT !.nodes[n].patch = "work"]
                   w   == CorrectionAt(Corrections + 1, "worker")
                   v   == CorrectionAt(Corrections + 1, "verifier")
                   new == [m \in {w, v} |-> NewNode(m[2], Corrective, n, NoNode)]
               IN  graph' = Connect(Created(p, new),
                                    {<<w, v>>} \cup (IF wired THEN {<<n, w>>} ELSE {}))
    <3> DEFINE c == Corrections
    <3>1. c \in Nat
      BY CorrectionsCounted
    <3>2. PICK wired \in Wirings :
             LET p   == [graph EXCEPT !.nodes[n].patch = "work"]
                 w   == CorrectionAt(c + 1, "worker")
                 v   == CorrectionAt(c + 1, "verifier")
                 new == [m \in {w, v} |-> NewNode(m[2], Corrective, n, NoNode)]
             IN  graph' = Connect(Created(p, new),
                                  {<<w, v>>} \cup (IF wired THEN {<<n, w>>} ELSE {}))
      BY <2>4
    <3>3. wired \in BOOLEAN
      BY DataflowAssumption
    <3> HIDE DEF c
    <3>4. Corrects(graph, graph', n)
      BY <2>1, <2>2, <3>1, <3>2, <3>3, CorrectedSound
    <3>5. QED BY <1>1, <1>2, <2>1, <2>2, <3>4, CorrectedTended DEF Tending
  <2>5. QED BY <1>5, <2>3, <2>4 DEF SubmitCorrection
<1>6. ASSUME NEW n \in Nodes(graph), NEW o \in Outcomes, Leased(n), Finish(n, o), o # "none",
             n[2] = "worker" => o = "candidate",
             KindOf(n) = "gap" => graph.nodes[n].patch # "none"
      PROVE  Tending(graph', missed')
  <2>1. graph.nodes[n].state = "leased"
    BY <1>6 DEF Leased, InState
  <2>2. graph' = Repaired(Accept(graph, n, o), {n})
    BY <1>6 DEF Finish
  <2>3. Closes(graph, graph', n, o)
    BY <1>1, <1>2, <1>6, <2>1, <2>2, FinishCloses
  <2>4. ~missed' => ~missed /\ ~MissedBy(n, o)
    BY <1>6, Zenon DEF Finish
  <2>5. ~MissedBy(n, o) => (o \in {"passed", "failed"} => InState(graph, {"leased", "ready"}) = {n})
    BY DEF MissedBy
  <2>6. QED BY <1>2, <2>3, <2>4, <2>5 DEF Closes, Tending
<1>7. ASSUME NEW n \in Nodes(graph), CompleteWorker(n) PROVE Tending(graph', missed')
  <2>1. KindOf(n) # "gap"
    BY <1>7, KindFacts DEF CompleteWorker
  <2>2. QED BY <2>1, <1>6, <1>7 DEF CompleteWorker, Outcomes
<1>8. ASSUME NEW n \in Nodes(graph), Judge(n) PROVE Tending(graph', missed')
  <2>1. n[2] # "worker" /\ KindOf(n) # "gap"
    BY <1>8, KindFacts DEF Judge, KindOf
  <2>2. PICK o \in {"passed", "failed"} : Leased(n) /\ Finish(n, o)
    BY <1>8 DEF Judge
  <2>3. QED BY <2>1, <2>2, <1>6 DEF Outcomes
<1>9. ASSUME NEW n \in Nodes(graph), CompletePlanner(n) PROVE Tending(graph', missed')
  <2>1. n[2] # "worker"
    BY <1>9, KindFacts DEF CompletePlanner, KindOf, Recovering
  <2> DEFINE o == graph.nodes[n].patch
  <2>2. Leased(n) /\ Finish(n, o) /\ o # "none"
    BY <1>9 DEF CompletePlanner
  <2>3. o \in Patches
    BY NodeFacts DEF Sound, Typed
  <2>4. graph.nodes[n].patch # "none"
    BY <2>2
  <2> HIDE DEF o
  <2>5. o \in Outcomes
    BY <2>2, <2>3 DEF Patches, Outcomes
  <2>6. QED BY <2>1, <2>2, <2>4, <2>5, <1>6
<1>10. ASSUME NEW n \in Nodes(graph), Die(n) PROVE Tending(graph', missed')
  <2>1. graph.nodes[n].state = "leased" /\ graph.nodes[n].patch = "none"
    BY <1>10 DEF Die, Leased, InState
  <2>2. PICK s \in {"planned", "failed"} :
          /\ graph' = [graph EXCEPT !.nodes[n].state = s]
          /\ missed' = (missed \/ (s = "failed" /\ graph.nodes[n].kind = "gap"))
    BY <1>10 DEF Die
  <2>3. Died(graph, graph', n, s)
    BY <2>1, <2>2, DeadSound
  <2>4. ~missed' => ~missed /\ ~(s = "failed" /\ graph.nodes[n].kind = "gap")
    BY <2>2, Zenon
  <2>5. QED BY <1>2, <2>1, <2>3, <2>4, DeadTended DEF Tending
<1>11. CASE Tick
  <2>1. graph' = Ticked(graph) /\ missed' = missed
    BY <1>11 DEF Tick
  <2>2. TickedTo(graph, graph')
    BY <2>1, TickedSound
  <2>3. QED BY <1>2, <2>1, <2>2, TickTended DEF Tending
<1>12. CASE DriveComplete
  <2>1. graph' = graph \/ graph' = [graph EXCEPT !.run = "completed"]
    BY <1>12 DEF DriveComplete
  <2>2. [graph EXCEPT !.run = "completed"].run = "completed"
    BY RunSound
  <2>3. graph' = graph /\ missed' = missed
    BY <1>12, <2>1, <2>2 DEF DriveComplete
  <2>4. QED BY <2>3, <1>3
<1>13. CASE graph' = Reconciled(graph) /\ missed' = missed
  BY <1>1, <1>2, <1>13, ReconcileTended DEF Tending
<1>14. CASE DriveReconcile
  BY <1>13, <1>14 DEF DriveReconcile
<1>15. CASE Rearm
  BY <1>13, <1>15 DEF Rearm
<1>16. CASE Park
  BY <1>3, <1>16 DEF Park
<1>17. CASE UNCHANGED vars
  BY <1>3, <1>17 DEF vars
<1> HIDE DEF vars
<1>18. QED
  BY <1>4, <1>5, <1>7, <1>8, <1>9, <1>10, <1>11, <1>12, <1>14, <1>15, <1>16, <1>17
     DEF Next, Runner, Answer, Driver

(* The run begins without verdicts.                                        *)
LEMMA InitTended == Init => Tended(graph, missed)
<1> SUFFICES ASSUME Init PROVE Tended(graph, missed)
  OBVIOUS
<1>1. Nodes(graph) = {Root} /\ graph.edges = {} /\ graph.bound = {}
  BY DEF Init, Nodes
<1>2. graph.nodes[Root].outcome = "none" /\ graph.nodes[Root].state = "planned"
  BY DEF Init, NewNode
<1>3. KindOf(Root) = "planner" /\ Root[2] = "planner"
  BY DEF KindOf, Root, Recovering
<1>4. Delivered(graph) /\ Sourced(graph)
  BY <1>1, <1>3 DEF Delivered, Sourced
<1>5. BegunNode(graph, Root) /\ CorrectingNode(graph, Root)
  BY <1>3 DEF BegunNode, CorrectingNode
<1>6. Linked(graph)
  BY <1>1, <1>4, <1>5 DEF Linked
<1>7. Attends(graph, {})
  BY <1>1, <1>2 DEF Attends, AttendedNode, Failing, Passing, WithOutcome
<1>8. QED BY <1>6, <1>7 DEF Tended, Tending

(* In an active run every port has the records accepted for it, and while  *)
(* no verdict was missed each one is attended to.                          *)
THEOREM VerdictsAttended == Spec => [](Sound(graph) /\ Tended(graph, missed))
<1>1. Sound(graph) /\ Tended(graph, missed) /\ [Next]_vars => (Sound(graph) /\ Tended(graph, missed))'
  BY StepSound, StepTended DEF Steps
<1>2. QED BY <1>1, InitSound, InitTended, PTL DEF Spec

-----------------------------------------------------------------------------
(* A parked run rests.                                                     *)

(* Graphs with the same parts are the same.                                *)
LEMMA SameGraph ==
  ASSUME NEW g \in GraphType, NEW h \in GraphType,
         h.run = g.run, h.edges = g.edges, h.bound = g.bound, h.records = g.records,
         Nodes(h) = Nodes(g), \A n \in Nodes(g) : h.nodes[n] = g.nodes[n]
  PROVE  h = g
<1>1. g.nodes \in [Nodes(g) -> NodeType] /\ h.nodes \in [Nodes(h) -> NodeType]
  BY NodeFacts
<1>2. h.nodes = g.nodes
  BY <1>1
<1>3. QED BY <1>2 DEF GraphType

LEMMA NothingAdded ==
  ASSUME NEW g, Sound(g), NEW h, Adds(g, h, {}, {})
  PROVE  h = g
<1>1. Extended(g, h, {}, {}) /\ g \in GraphType
  BY DEF Adds, Sound, Typed
<1>2. /\ h \in GraphType /\ Nodes(h) = Nodes(g) /\ h.run = g.run /\ h.records = g.records
      /\ h.edges = g.edges /\ h.bound = g.bound /\ \A n \in Nodes(g) : h.nodes[n] = g.nodes[n]
  BY <1>1 DEF Extended
<1>3. QED BY <1>1, <1>2, SameGraph

LEMMA NothingRestated ==
  ASSUME NEW g, Sound(g), NEW h, Restated(g, h), h.run = g.run,
         \A n \in Nodes(g) : h.nodes[n].state = g.nodes[n].state
  PROVE  h = g
<1>1. /\ g \in GraphType /\ \A n \in Nodes(g) : g.nodes[n] \in NodeType
  BY NodeFacts DEF Sound, Typed
<1>2. /\ h \in GraphType /\ Nodes(h) = Nodes(g) /\ h.records = g.records
      /\ h.edges = g.edges /\ h.bound = g.bound /\ \A n \in Nodes(g) : RestatedNode(g, h, n)
  BY DEF Restated
<1>3. ASSUME NEW n \in Nodes(g) PROVE h.nodes[n] = g.nodes[n]
  <2>1. h.nodes[n] = [g.nodes[n] EXCEPT !.state = g.nodes[n].state]
    BY <1>2 DEF RestatedNode
  <2>2. QED BY <1>1, <2>1 DEF NodeType
<1>4. QED BY <1>1, <1>2, <1>3, SameGraph

(* A repair that finds nothing to do does nothing.                         *)
LEMMA NothingToDo ==
  ASSUME NEW g, Sound(g), NEW S, ToRecover(g, S) = {}, FinalCheckEdges(g, S) = {},
         NeedsFinalCheck(g, S) = {}, ToRetire(g, S) = {}, ~HasDeadEnd(g, S)
  PROVE  Repaired(g, S) = g
<1>1. PICK a, b, c, d : Swept(g, S, a, b, c, d) /\ Repaired(g, S) = d
  BY RepairParts
<1> DEFINE N == {RecoveryNode(n) : n \in ToRecover(g, S)}
           E == {<<n, RecoveryNode(n)>> : n \in ToRecover(g, S)}
<1>2. N = {} /\ E = {}
  OBVIOUS
<1>3. Adds(g, a, N, E) /\ Adds(a, b, {}, FinalCheckEdges(g, S)) /\ c = b
  BY <1>1 DEF Swept
<1> HIDE DEF N, E
<1>4. a = g
  BY <1>2, <1>3, NothingAdded
<1>5. b = g
  BY <1>3, <1>4, NothingAdded
<1>6. /\ Restated(g, d) /\ d.run = g.run
      /\ \A n \in Nodes(g) : d.nodes[n].state = IF n \in {} THEN "retired" ELSE g.nodes[n].state
  BY <1>1, <1>3, <1>5 DEF Swept
<1>7. d = g
  BY <1>6, NothingRestated
<1>8. QED BY <1>1, <1>7

(* Once all nodes have ended, a repair can only answer failures.           *)
LEMMA ExhaustedIdle ==
  ASSUME NEW g, InState(g, Live) = {}, NEW S
  PROVE  FinalCheckEdges(g, S) = {} /\ NeedsFinalCheck(g, S) = {} /\ ToRetire(g, S) = {}
<1>1. \A n : FailureBranch(g, n) = {}
  BY DEF FailureBranch, Retirable
<1>2. WaitingChecks(g) = {}
  BY DEF WaitingChecks, InState, Live
<1>3. FinalCheckEdges(g, S) = {}
  BY <1>2 DEF FinalCheckEdges
<1>4. NeedsFinalCheck(g, S) = {}
  BY <1>1 DEF NeedsFinalCheck
<1>5. ToRetire(g, S) = {}
  BY <1>1 DEF ToRetire
<1>6. QED BY <1>3, <1>4, <1>5

(* A reconcile after which nothing can run has changed nothing, unless it  *)
(* failed the run: a recovery planner that it creates could run.           *)
LEMMA ReconcileExhausted ==
  ASSUME NEW g, Sound(g), Linked(g), g.run = "active", InState(g, Live) = {},
         Reconciled(g).run = "active", InState(Reconciled(g), Live) = {}
  PROVE  Reconciled(g) = g
<1> DEFINE S == Nodes(g)
           h == Reconciled(g)
<1>1. h = Repaired(g, S)
  BY DEF Reconciled
<1>2. Keeps(g, h, S)
  BY <1>1, RepairedKeeps
<1>3. ~HasDeadEnd(g, S)
  BY <1>1, RepairedSound DEF RepairedTo
<1> HIDE DEF S, h
<1>4. ASSUME NEW n \in ToRecover(g, S) PROVE FALSE
  <2>1. RecoveryNode(n) \in Nodes(h) /\ h.nodes[RecoveryNode(n)].state = "planned"
    BY <1>2 DEF Keeps
  <2>2. RecoveryNode(n) \in InState(h, Live)
    BY <2>1 DEF InState, Live, Schedulable
  <2>3. QED BY <2>2 DEF h
<1>5. Repaired(g, S) = g
  BY <1>3, <1>4, ExhaustedIdle, NothingToDo
<1>6. QED BY <1>1, <1>5 DEF h

(* Nothing runs in a parked run, and neither a reconcile nor a tick would  *)
(* change that.                                                            *)
Resting(g) ==
  /\ InState(g, {"leased"}) = {}
  /\ InState(g, Live) = {} => Reconciled(g) = g
  /\ InState(g, Live) # {} => Ticked(g) = g

ParkedRests == drive = "parked" /\ graph.run = "active" => Resting(graph)

LEMMA NothingLeased ==
  ASSUME NEW g, InState(g, Live) = {}
  PROVE  InState(g, {"leased"}) = {}
BY DEF InState, Live

LEMMA StepRests ==
  ASSUME Sound(graph), Tended(graph, missed), ParkedRests, [Next]_vars
  PROVE  ParkedRests'
<1> SUFFICES ASSUME drive' = "parked", graph'.run = "active" PROVE Resting(graph')
  BY DEF ParkedRests
<1>1. graph.run = "active" /\ Linked(graph)
  BY StepSound DEF Steps, Tended, Tending
<1>2. CASE graph' = graph /\ drive' = drive
  BY <1>1, <1>2 DEF ParkedRests
<1>3. ASSUME NEW n \in Nodes(graph), Leased(n), drive' = drive PROVE FALSE
  <2>1. Resting(graph)
    BY <1>1, <1>3 DEF ParkedRests
  <2>2. QED BY <1>3, <2>1 DEF Resting, Leased
<1>4. ASSUME NEW n \in Nodes(graph), Answer(n) PROVE FALSE
  <2>1. Leased(n) /\ drive' = drive
    BY <1>4 DEF Answer, SubmitPlan, SubmitCorrection, CompleteWorker, Judge, CompletePlanner, Finish
  <2>2. QED BY <1>3, <2>1
<1>5. ASSUME NEW n \in Nodes(graph), Die(n) PROVE FALSE
  <2>1. Leased(n) /\ drive' = drive
    BY <1>5 DEF Die
  <2>2. QED BY <1>3, <2>1
<1>6. CASE Tick
  BY <1>6 DEF Tick, Driving
<1>7. CASE DriveComplete
  <2>1. /\ InState(graph, Live) = {} /\ AllAccepted(graph)
        /\ graph' = graph \/ graph' = [graph EXCEPT !.run = "completed"]
    BY <1>7 DEF DriveComplete, Exhausted
  <2>2. [graph EXCEPT !.run = "completed"].run = "completed"
    BY RunSound
  <2>3. graph' = graph
    BY <2>1, <2>2
  <2> DEFINE S == Nodes(graph)
  <2>4. ToRecover(graph, S) = {} /\ ~HasDeadEnd(graph, S)
    BY <2>1 DEF ToRecover, HasDeadEnd
  <2>5. Repaired(graph, S) = graph
    <3> HIDE DEF S
    <3>1. QED BY <2>1, <2>4, ExhaustedIdle, NothingToDo
  <2>6. Reconciled(graph) = graph
    BY <1>1, <2>5 DEF Reconciled
  <2>7. QED BY <2>1, <2>3, <2>6, NothingLeased DEF Resting
<1>8. CASE DriveReconcile
  <2>1. /\ InState(graph, Live) = {} /\ graph' = Reconciled(graph)
        /\ InState(graph', Live) = {}
    BY <1>8 DEF DriveReconcile, Exhausted
  <2>2. graph' = graph
    BY <1>1, <2>1, ReconcileExhausted
  <2>3. QED BY <2>1, <2>2, NothingLeased DEF Resting
<1>9. CASE Park
  BY <1>1, <1>9 DEF Park, Resting, Exhausted
<1>10. CASE Rearm
  BY <1>10 DEF Rearm
<1>11. CASE UNCHANGED vars
  BY <1>2, <1>11 DEF vars
<1> HIDE DEF vars
<1>12. QED
  BY <1>4, <1>5, <1>6, <1>7, <1>8, <1>9, <1>10, <1>11 DEF Next, Runner, Driver

-----------------------------------------------------------------------------
(* The theorems.                                                           *)

(* The invariant implies the graph's part of TypeOK.                       *)
LEMMA SoundType ==
  ASSUME Sound(graph)
  PROVE  /\ graph.run \in {"active", "completed", "failed"}
         /\ Nodes(graph) \subseteq Ids /\ \A n \in Nodes(graph) : graph.nodes[n] \in NodeType
         /\ graph.edges \subseteq Nodes(graph) \X Nodes(graph)
         /\ graph.bound \subseteq graph.edges
         /\ \A n \in Nodes(graph) :
              /\ Position(graph, n) \in 0..graph.records
              /\ graph.nodes[n].state = "completed" <=> Position(graph, n) > 0
              /\ \A m \in Nodes(graph) :
                   Position(graph, n) = Position(graph, m) => n = m \/ Position(graph, n) = 0
<1>1. /\ Typed(graph) /\ Distinct(graph)
      /\ \A n \in Nodes(graph) : RecordedNode(graph, n)
  BY DEF Sound
<1>2. /\ graph.run \in {"active", "completed", "failed"} /\ graph.records \in Nat
      /\ Nodes(graph) \subseteq Ids
      /\ \A n \in Nodes(graph) : graph.nodes[n] \in NodeType /\ graph.nodes[n].at \in Nat
  BY <1>1, NodeFacts DEF Typed
<1>3. \A n \in Nodes(graph) : graph.nodes[n].at \in 0..graph.records
  BY <1>1, <1>2 DEF RecordedNode
<1>4. \A n \in Nodes(graph) : graph.nodes[n].state = "completed" <=> graph.nodes[n].at > 0
  BY <1>1 DEF RecordedNode
<1>5. QED BY <1>1, <1>2, <1>3, <1>4 DEF Typed, Distinct, Position

(* The projection is well formed: edges join nodes, a node is completed    *)
(* exactly when it has a record, and each record has a position of its own.*)
THEOREM TypeCorrect == Spec => []TypeOK
<1> DEFINE Rest == /\ drive \in {"driving", "parked"}
                   /\ mishaps \in 0..MaxMishaps /\ missed \in BOOLEAN
<1>1. Init => Rest
  <2> SUFFICES ASSUME Init PROVE Rest
    OBVIOUS
  <2>1. drive \in {"driving", "parked"} /\ mishaps \in 0..MaxMishaps
    BY DataflowAssumption DEF Init
  <2>2. missed \in BOOLEAN
    BY Zenon DEF Init
  <2>3. QED BY <2>1, <2>2
<1>2. Rest /\ [Next]_vars => Rest'
  <2> SUFFICES ASSUME Rest, [Next]_vars PROVE Rest'
    OBVIOUS
  <2>1. \/ UNCHANGED <<drive, mishaps, missed>>
        \/ \E n \in Nodes(graph) : \E o : Finish(n, o)
        \/ \E n \in Nodes(graph) : Die(n)
        \/ DriveComplete \/ DriveReconcile \/ Park \/ Rearm
    BY DEF Next, Runner, Answer, Driver, SubmitPlan, SubmitCorrection, CompleteWorker, Judge,
           CompletePlanner, Tick, vars
  <2>2. CASE UNCHANGED <<drive, mishaps, missed>>
    BY <2>2
  <2>3. CASE \E n \in Nodes(graph) : \E o : Finish(n, o)
    <3>1. PICK n \in Nodes(graph) : \E o : /\ missed' = (missed \/ MissedBy(n, o))
                                           /\ UNCHANGED <<drive, mishaps>>
      BY <2>3 DEF Finish
    <3>2. PICK o : missed' = (missed \/ MissedBy(n, o)) /\ UNCHANGED <<drive, mishaps>>
      BY <3>1
    <3>3. missed' \in BOOLEAN
      BY <3>2, Zenon
    <3>4. QED BY <3>2, <3>3
  <2>4. CASE \E n \in Nodes(graph) : Die(n)
    <3>1. PICK n \in Nodes(graph) : Die(n)
      BY <2>4
    <3>2. PICK s \in {"planned", "failed"} :
             missed' = (missed \/ (s = "failed" /\ graph.nodes[n].kind = "gap"))
      BY <3>1 DEF Die
    <3>3. missed' \in BOOLEAN
      BY <3>2, Zenon
    <3>4. drive' = drive /\ mishaps' \in 0..MaxMishaps
      BY <3>1, DataflowAssumption DEF Die, Mishap
    <3>5. QED BY <3>3, <3>4
  <2>5. CASE DriveComplete
    BY <2>5 DEF DriveComplete
  <2>6. CASE DriveReconcile
    BY <2>6 DEF DriveReconcile
  <2>7. CASE Park
    BY <2>7 DEF Park
  <2>8. CASE Rearm
    BY <2>8, DataflowAssumption DEF Rearm, Mishap
  <2>9. QED BY <2>1, <2>2, <2>3, <2>4, <2>5, <2>6, <2>7, <2>8
<1>3. Sound(graph) /\ Rest => TypeOK
  BY SoundType DEF TypeOK
<1> HIDE DEF Rest
<1>4. QED BY <1>1, <1>2, <1>3, Invariant, PTL DEF Spec

(* A failed record has at most one gap planner that can still answer it:   *)
(* the plan's own and the controller's are never both in play.             *)
LEMMA SoundOwner ==
  ASSUME NEW g, Sound(g), NEW n \in Nodes(g)
  PROVE  Cardinality({p \in OfKind(g, {"gap"}) \ InState(g, {"failed", "retired"}) :
                        <<n, p>> \in g.edges}) <= 1
<1> DEFINE Owners == {p \in OfKind(g, {"gap"}) \ InState(g, {"failed", "retired"}) :
                        <<n, p>> \in g.edges}
           a == RecoveryNode(n)
           b == PlanGap(n)
<1>1. ASSUME NEW p \in Owners
      PROVE  /\ n[2] \in {"verifier", "check"} /\ p \in {a, b} /\ p \in Nodes(g)
             /\ g.nodes[p].state \notin {"failed", "retired"} /\ <<n, p>> \in g.edges
  <2>1. /\ p \in Nodes(g) /\ g.nodes[p].kind = "gap" /\ <<n, p>> \in g.edges
        /\ g.nodes[p].state \notin {"failed", "retired"}
    BY DEF OfKind, InState
  <2>2. KindOf(p) = "gap"
    BY <2>1, KindFacts
  <2> DEFINE e == <<n, p>>
  <2>3. e[1] = n /\ e[2] = p /\ RoutedEdge(g, e)
    BY <2>1 DEF Sound
  <2> HIDE DEF e
  <2>4. n[2] \in {"verifier", "check"} /\ p \in {a, b}
    BY <2>2, <2>3 DEF RoutedEdge, KindOf, Recovering
  <2>5. QED BY <2>1, <2>4
<1>2. ~(a \in Owners /\ b \in Owners /\ a # b)
  <2> SUFFICES ASSUME a \in Owners, b \in Owners PROVE FALSE
    OBVIOUS
  <2>1. /\ n[2] \in {"verifier", "check"} /\ a \in Nodes(g)
        /\ g.nodes[b].state \notin {"failed", "retired"} /\ <<n, b>> \in g.edges
    BY <1>1
  <2>2. a[2] \in Recovering /\ Recovered(a) = n /\ PlanGap(a) = b
    BY <2>1, KindFacts, RecoveryFacts
  <2>3. OwnedNode(g, a)
    BY <2>1 DEF Sound
  <2>4. QED BY <2>1, <2>2, <2>3 DEF OwnedNode
<1> HIDE DEF a, b
<1>3. \E x : Owners \subseteq {x}
  BY <1>1, <1>2
<1> HIDE DEF Owners
<1>4. PICK x : Owners \subseteq {x}
  BY <1>3
<1>5. IsFiniteSet({x}) /\ Cardinality({x}) = 1
  BY FS_Singleton
<1>6. Cardinality(Owners) <= 1
  BY <1>4, <1>5, FS_Subset
<1>7. QED BY <1>6 DEF Owners

(* Whatever reports, restarts and reconciles interleave, a failed record   *)
(* has at most one gap planner answering it.                               *)
THEOREM FailureHasOneOwner == Spec => []OneOwner
<1>1. Sound(graph) => OneOwner
  BY SoundOwner DEF OneOwner
<1>2. QED BY <1>1, Invariant, PTL

(* A run of these plans (semantic corrections are not among them) is       *)
(* completed only when nothing is left to run and the latest candidate of  *)
(* every region was passed.                                                *)
THEOREM CompletedRunPassed == Spec => []CompletedMeansPassed
<1> DEFINE Passes(g) == g.run = "completed" => InState(g, Live) = {} /\ AllPassed(g)
           Ended == Passes(graph)
<1>1. Init => Ended
  BY DEF Init
<1>2. Sound(graph) /\ Ended /\ [Next]_vars => Ended'
  <2> SUFFICES ASSUME Sound(graph), Ended, [Next]_vars PROVE Ended'
    OBVIOUS
  <2>1. Steps(graph, graph')
    BY StepSound
  <2>2. CASE graph.run # "active"
    <3>1. graph' = graph
      BY <2>1, <2>2 DEF Steps
    <3> HIDE DEF Passes
    <3>2. Passes(graph')
      BY <3>1
    <3>3. QED BY <3>2
  <2>3. CASE graph.run = "active"
    <3>1. Passes(graph')
      BY <2>1, <2>3 DEF Steps
    <3> HIDE DEF Passes
    <3>2. QED BY <3>1
  <2>4. QED BY <2>2, <2>3
<1>3. Ended => CompletedMeansPassed
  BY DEF CompletedMeansPassed, Exhausted, AllPassed
<1> HIDE DEF Ended
<1>4. QED BY <1>1, <1>2, <1>3, Invariant, PTL DEF Spec

(* Where every correction is wired to the planner that proposes it, a run  *)
(* is failed as a dead end only for a failure that nothing has repaired.   *)
THEOREM FailedRunUnrepaired ==
  Wirings \subseteq {TRUE} => (Spec => []RepairedRunNotFailed)
<1> SUFFICES ASSUME Wirings \subseteq {TRUE} PROVE Spec => []RepairedRunNotFailed
  OBVIOUS
<1> DEFINE Ended == Proposed(graph) /\ (graph.run = "failed" => HasUnrepaired(graph))
<1>1. Init => Ended
  BY InitSound
<1>2. Sound(graph) /\ Ended /\ [Next]_vars => Ended'
  <2> SUFFICES ASSUME Sound(graph), Ended, [Next]_vars PROVE Ended'
    OBVIOUS
  <2>1. Steps(graph, graph')
    BY StepSound
  <2>2. CASE graph.run # "active"
    <3>1. graph' = graph
      BY <2>1, <2>2 DEF Steps
    <3>2. QED BY <3>1
  <2>3. CASE graph.run = "active"
    <3>1. Proposed(graph') /\ (graph'.run = "failed" => HasUnrepaired(graph'))
      BY <2>1, <2>3 DEF Steps
    <3>2. QED BY <3>1
  <2>4. QED BY <2>2, <2>3
<1>3. Ended => RepairedRunNotFailed
  BY DEF RepairedRunNotFailed, HasUnrepaired
<1> HIDE DEF Ended
<1>4. QED BY <1>1, <1>2, <1>3, Invariant, PTL DEF Spec

(* An accepted region of the plan stays accepted, whatever is created,     *)
(* retired or judged elsewhere in the graph.                               *)
THEOREM AcceptedRegionStays == Spec => AcceptanceIsStable
<1> DEFINE A == \A r \in Regions(graph) \cap 1..MaxRegions :
                   Accepted(graph, r) => Accepted(graph', r)
<1>1. Sound(graph) /\ [Next]_vars => A
  <2> SUFFICES ASSUME Sound(graph), [Next]_vars,
                      NEW r \in Regions(graph) \cap 1..MaxRegions, Accepted(graph, r)
               PROVE  Accepted(graph', r)
    OBVIOUS
  <2>1. Sound(graph') /\ Grows(graph, graph')
    BY StepSound DEF Steps
  <2>2. QED BY <2>1, AcceptanceStays
<1>2. Sound(graph) /\ [Next]_vars => [A]_vars
  BY <1>1
<1> HIDE DEF A
<1>3. Spec => [][A]_vars
  BY <1>2, Invariant, PTL DEF Spec
<1>4. QED BY <1>3 DEF AcceptanceIsStable, A

-----------------------------------------------------------------------------
(* Stalls.                                                                 *)

LEMMA InitRests == Init => ParkedRests
BY DEF Init, ParkedRests

(* A parked run in which no verdict was missed has nothing to repair while *)
(* a node still waits.                                                     *)
LEMMA WaitingIdle ==
  ASSUME NEW g, Sound(g), Linked(g), Attends(g, {}), g.run = "active",
         InState(g, {"leased"}) = {}, InState(g, Live) # {}
  PROVE  Reconciled(g) = g
<1> DEFINE S == Nodes(g)
<1>1. Reconciled(g) = Repaired(g, S)
  BY DEF Reconciled
<1>2. \A n \in Nodes(g) : AttendedNode(g, n)
  BY DEF Attends
<1>3. InState(g, Schedulable) # {}
  BY DEF InState, Live
<1>4. ~HasDeadEnd(g, S)
  BY DEF HasDeadEnd
<1>5. ToRecover(g, S) = {}
  <2> SUFFICES ASSUME NEW n \in ToRecover(g, S) PROVE FALSE
    OBVIOUS
  <2>1. /\ n \in CurrentFailures(g) /\ ~HasRecovery(g, n)
        /\ InState(g, IF g.nodes[n].kind = "check" THEN Schedulable ELSE {"ready"}) = {}
    BY DEF ToRecover
  <2>2. g.nodes[n].kind # "check"
    BY <2>1, <1>3
  <2>3. n \in Failing(g, {"verifier"}) /\ n \in Nodes(g)
    BY <2>1, <2>2 DEF CurrentFailures, Failing, OfKind
  <2>4. PICK e \in g.edges : /\ e[1] = n /\ g.nodes[e[2]].kind = "gap"
                             /\ g.nodes[e[2]].state \notin {"failed", "retired"}
    BY <2>3, <1>2 DEF AttendedNode, Answered
  <2>5. e[2] \in Nodes(g) /\ e = <<e[1], e[2]>>
    BY EdgeFacts DEF Sound
  <2>6. HasRecovery(g, n)
    BY <2>4, <2>5 DEF HasRecovery, OfKind
  <2>7. QED BY <2>1, <2>6
<1>6. ASSUME NEW v \in Passing(g, {"verifier", "check"}) PROVE FailureBranch(g, v) = {}
  <2> DEFINE open == InState(g, Live) \ OfKind(g, {"check"})
             T == Successors(g, {v}) \cap OfKind(g, {"gap"})
             O == {f \in g.edges : f[1] \in open}
  <2>1. Unneeded(g, v)
    BY <1>2 DEF AttendedNode, Passing, OfKind
  <2>2. ASSUME NEW x \in T PROVE x \notin open
    <3>1. PICK e \in g.edges : e[1] = v /\ e[2] = x
      BY DEF Successors
    <3>2. g.nodes[x].state \notin Live
      BY <2>1, <3>1 DEF Unneeded, OfKind
    <3>3. QED BY <3>2 DEF InState
  <2>3. Closed(O, T)
    BY <2>2 DEF Closed
  <2>4. /\ IsFiniteSet(Nodes(g)) /\ O \in SUBSET (Nodes(g) \X Nodes(g))
        /\ T \in SUBSET Nodes(g)
    BY DEF Sound, Typed, OfKind
  <2>5. FailureBranch(g, v) = Reachable(Nodes(g), O, T) \cap open
    BY DEF FailureBranch, Retirable
  <2> HIDE DEF O, T, open
  <2>6. Reachable(Nodes(g), O, T) \subseteq T
    BY <2>3, <2>4, ReachableIsClosure
  <2>7. QED BY <2>2, <2>5, <2>6
<1>7. ToRetire(g, S) = {}
  BY <1>6 DEF ToRetire
<1>8. NeedsFinalCheck(g, S) = {}
  BY <1>6 DEF NeedsFinalCheck, LatestPass, Passing, OfKind
<1>9. FinalCheckEdges(g, S) = {}
  <2> SUFFICES ASSUME NEW e \in FinalCheckEdges(g, S) PROVE FALSE
    OBVIOUS
  <2>1. /\ e \in LatestPass(g) \X WaitingChecks(g) /\ e \notin g.edges
        /\ ~WouldCreateCycle(g, e[1], e[2])
    BY DEF FinalCheckEdges
  <2>2. e = <<e[1], e[2]>> /\ e[1] \in Passing(g, {"verifier"}) /\ e[2] \in WaitingChecks(g)
    BY <2>1 DEF LatestPass
  <2>3. Supplied(g, e[1])
    BY <2>2, <1>2 DEF AttendedNode, Passing, OfKind
  <2>4. QED BY <2>1, <2>2, <2>3 DEF Supplied
<1> HIDE DEF S
<1>10. Repaired(g, S) = g
  BY <1>4, <1>5, <1>7, <1>8, <1>9, NothingToDo
<1>11. QED BY <1>1, <1>10

(* A gap planner that has not begun although its verdict failed is ready.  *)
LEMMA AnswerReady ==
  ASSUME NEW g, Sound(g), Linked(g), NEW e \in g.edges, g.nodes[e[1]].outcome = "failed",
         g.nodes[e[2]].kind = "gap", g.nodes[e[2]].state \in Schedulable
  PROVE  e[2] \in Ready(g)
<1> DEFINE p == e[2]
<1>1. p \in Nodes(g) /\ e[1] \in Nodes(g)
  BY EdgeFacts DEF Sound
<1>2. KindOf(p) = "gap"
  BY <1>1, KindFacts
<1>3. PortBound(g, p)
  BY DEF Linked, Delivered, Selected, Selector
<1>4. g.nodes[e[1]].state = "completed"
  <2>1. RecordedNode(g, e[1])
    BY <1>1 DEF Sound
  <2>2. QED BY <2>1 DEF RecordedNode
<1>5. ASSUME NEW f \in g.edges, f[2] = p PROVE f[1] = e[1]
  <2>1. CASE p[2] = "gap"
    BY <1>5, <2>1 DEF Linked, Sourced
  <2>2. CASE p[2] \in Recovering
    <3>1. ASSUME NEW d \in g.edges, d[2] = p PROVE d[1] = Recovered(p)
      <4>1. RoutedEdge(g, d) /\ d[1] \in Nodes(g)
        BY EdgeFacts DEF Sound
      <4>2. d[1][2] \in {"verifier", "check"} /\ p = RecoveryNode(d[1])
        BY <4>1, <3>1, <2>2 DEF RoutedEdge, PlanGap, Recovering
      <4>3. d[1] \in Ids
        BY <4>1, KindFacts
      <4>4. Recovered(RecoveryNode(d[1])) = d[1]
        BY <4>2, <4>3, RecoveryFacts
      <4>5. QED BY <4>2, <4>4
    <3>2. QED BY <3>1, <1>5
  <2>3. QED BY <1>2, <2>1, <2>2 DEF KindOf
<1>6. InputsReady(g, p)
  BY <1>3, <1>4, <1>5 DEF InputsReady
<1>7. ~Conflicts(g, p)
  BY DEF Conflicts
<1>8. QED BY <1>1, <1>6, <1>7 DEF Ready, InState

(* When no verdict was missed, a failed verification of a parked run has a *)
(* gap planner that has proposed something.                                *)
LEMMA ParkedAnswered ==
  ASSUME NEW g, Sound(g), Linked(g), Attends(g, {}), Resting(g),
         NEW v \in Failing(g, {"verifier"})
  PROVE  \E p \in Successors(g, {v}) \cap OfKind(g, {"gap"}) : g.nodes[p].patch # "none"
<1>1. AttendedNode(g, v) /\ g.nodes[v].outcome = "failed"
  BY DEF Attends, Failing, OfKind, WithOutcome
<1>2. PICK e \in g.edges : /\ e[1] = v /\ g.nodes[e[2]].kind = "gap"
                           /\ g.nodes[e[2]].state \notin {"failed", "retired"}
  BY <1>1 DEF AttendedNode, Answered
<1> DEFINE p == e[2]
<1>3. p \in Nodes(g)
  BY EdgeFacts DEF Sound
<1>4. p \in Successors(g, {v}) \cap OfKind(g, {"gap"})
  BY <1>2, <1>3 DEF Successors, OfKind
<1>5. g.nodes[p].state \in States /\ g.nodes[p].state # "leased"
  BY <1>3, NodeFacts DEF Sound, Typed, Resting, InState
<1>6. CASE g.nodes[p].state \in Schedulable
  <2>1. p \in Ready(g)
    BY <1>1, <1>2, <1>6, AnswerReady
  <2>2. Ticked(g) = g
    <3>1. InState(g, Live) # {}
      BY <1>3, <1>6 DEF InState, Live
    <3>2. QED BY <3>1 DEF Resting
  <2>3. \E m \in Nodes(g) : m = p /\ Ticked(g).nodes[m].state = "leased"
    <3> DEFINE workers == Ready(g) \cap OfKind(g, {"worker"})
               granted == {n \in Ready(g) : n \in workers => \A m \in workers : n[1] <= m[1]}
               next(n) == IF n \in granted THEN "leased" ELSE "ready"
               f == [n \in Nodes(g) |->
                       IF n \in Ready(g) THEN [g.nodes[n] EXCEPT !.state = next(n)] ELSE g.nodes[n]]
    <3>1. p \in granted
      BY <2>1, <1>2 DEF OfKind
    <3>2. next(p) = "leased"
      BY <3>1
    <3>3. g \in GraphType /\ g.nodes[p] \in NodeType
      BY <1>3, NodeFacts DEF Sound, Typed
    <3>4. Ticked(g) = [g EXCEPT !.nodes = f]
      BY DEF Ticked
    <3> HIDE DEF next
    <3>5. f[p] = [g.nodes[p] EXCEPT !.state = next(p)]
      BY <1>3, <2>1
    <3> HIDE DEF f
    <3>6. Ticked(g).nodes = f
      BY <3>3, <3>4 DEF GraphType
    <3>7. f[p].state = "leased"
      BY <3>2, <3>3, <3>5 DEF NodeType
    <3>8. QED BY <1>3, <3>6, <3>7
  <2>4. QED BY <1>5, <2>2, <2>3
<1>7. CASE g.nodes[p].state = "completed"
  <2>1. KindOf(p) = "gap" /\ BegunNode(g, p)
    BY <1>2, <1>3, KindFacts DEF Linked
  <2>2. g.nodes[p].patch # "none"
    BY <1>7, <2>1 DEF BegunNode
  <2>3. QED BY <1>4, <2>2
<1>8. QED BY <1>2, <1>5, <1>6, <1>7 DEF States, Schedulable

(* SequentialStall: when no verdict was accepted beside other work and no  *)
(* planner was lost, a run parked as blocked has nothing to repair         *)
(* (drive_to_quiescence, reconcile of the driver and of the commands).     *)
THEOREM StallsAreGenuine == Spec => []SequentialStall
<1>1. Sound(graph) /\ Tended(graph, missed) /\ ParkedRests => SequentialStall
  <2> SUFFICES ASSUME Sound(graph), Tended(graph, missed), ParkedRests, ~missed,
                      drive = "parked", graph.run = "active"
               PROVE  Reconciled(graph) = graph
    BY DEF SequentialStall, StallIsGenuine
  <2>1. Linked(graph) /\ Attends(graph, {}) /\ Resting(graph)
    BY DEF Tended, Tending, ParkedRests
  <2>2. CASE InState(graph, Live) = {}
    BY <2>1, <2>2 DEF Resting
  <2>3. CASE InState(graph, Live) # {}
    BY <2>1, <2>3, WaitingIdle DEF Resting
  <2>4. QED BY <2>2, <2>3
<1>2. Sound(graph) /\ Tended(graph, missed) /\ ParkedRests /\ [Next]_vars => ParkedRests'
  BY StepRests
<1>3. QED BY <1>1, <1>2, InitRests, VerdictsAttended, PTL DEF Spec

(* FailureIsAnswered: in such a run every failed verification has a gap    *)
(* planner with an accepted patch (_failed_verification_recovery_events).  *)
THEOREM FailuresAreAnswered == Spec => []FailureIsAnswered
<1>1. Sound(graph) /\ Tended(graph, missed) /\ ParkedRests => FailureIsAnswered
  <2> SUFFICES ASSUME Sound(graph), Tended(graph, missed), ParkedRests, ~missed,
                      drive = "parked", graph.run = "active",
                      NEW v \in Failing(graph, {"verifier"})
               PROVE  \E p \in Successors(graph, {v}) \cap OfKind(graph, {"gap"}) :
                         graph.nodes[p].patch # "none"
    BY DEF FailureIsAnswered
  <2>1. Linked(graph) /\ Attends(graph, {}) /\ Resting(graph)
    BY DEF Tended, Tending, ParkedRests
  <2>2. QED BY <2>1, ParkedAnswered
<1>2. Sound(graph) /\ Tended(graph, missed) /\ ParkedRests /\ [Next]_vars => ParkedRests'
  BY StepRests
<1>3. QED BY <1>1, <1>2, InitRests, VerdictsAttended, PTL DEF Spec

=============================================================================
