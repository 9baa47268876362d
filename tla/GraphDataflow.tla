--------------------------- MODULE GraphDataflow ----------------------------
(***************************************************************************)
(* The dynamic graph of one run: planners submit patches that create work  *)
(* regions, edges route accepted records into the ports that make nodes    *)
(* ready, verdicts accept or reopen a region, and the controller repairs   *)
(* the graph, either in the command that applies the triggering record or  *)
(* in the reconcile the driver issues when nothing is left to schedule.    *)
(*                                                                         *)
(* The state of the graph is a value (GraphProjection), and a command is a *)
(* function of it: repairs are computed on the projection that already has *)
(* the command's own events, and appended to them in one transaction.      *)
(* Leases, retries and the append itself are the subjects of the modules   *)
(* GraphExecution and GraphController.                                     *)
(***************************************************************************)
EXTENDS Naturals, FiniteSets

CONSTANTS
  MaxRegions,     (* bound: work regions of a plan.                        *)
  Plans,          (* what the root planner may submit: per work region,    *)
                  (* what it has besides a worker and a verifier.          *)
  Wirings,        (* may a correction be wired to its gap planner?         *)
  MaxCorrections, (* bound: patches of gap planners that create work.      *)
  MaxMishaps      (* bound: runners that die, restarts of the driver.      *)

Shapes == {"plain", "gap", "check", "guarded"}

ASSUME DataflowAssumption ==
  /\ MaxRegions \in Nat \ {0} /\ MaxCorrections \in Nat /\ MaxMishaps \in Nat
  /\ \A plan \in Plans : \E k \in 1..MaxRegions : plan \in [1..k -> Shapes]
  /\ Wirings \subseteq BOOLEAN

VARIABLES
  graph,   (* the projection: run state, nodes, edges, bindings, records.  *)
  drive,   (* the driver: "driving", or "parked" as graph_blocked or ended.*)
  mishaps,
  missed   (* history: a verdict was accepted beside other work, or a      *)
           (* planner that answers one was lost.                           *)

vars == <<graph, drive, mishaps, missed>>

(* Task regions: none for the root planner, one per work region, the one   *)
(* every correction must target, the controller's final check's, and one   *)
(* per region for the controller's recovery planners.                      *)
NoRegion       == 0
FirstRegion    == 1
Corrective     == MaxRegions + 1
FinalInvariant == MaxRegions + 2
RecoveryOf(r)  == FinalInvariant + r

Kinds    == {"planner", "gap", "worker", "verifier", "check"}
States   == {"planned", "ready", "leased", "completed", "failed", "retired"}
Outcomes == {"none", "candidate", "passed", "failed", "work", "empty"}
Patches  == {"none", "work", "empty"}

Schedulable == {"planned", "ready"}
Live        == Schedulable \cup {"leased"}

(* A node's id says what it is for: the nodes of a work region or of a     *)
(* correction are named after it, a recovery planner after the record it   *)
(* recovers.                                                               *)
Roles         == Kinds \cup {"verifier_recovery", "check_recovery"}
Ids           == Nat \X Roles
NoNode        == <<0, "gap">>
Root          == <<0, "planner">>
FinalCheck    == <<0, "check">>
CorrectionAt(k, role) == <<MaxRegions + k, role>>
RecoveryNode(n) ==
  <<n[1], IF n[2] = "check" THEN "check_recovery" ELSE "verifier_recovery">>

(* A node as node_created makes it: who proposed it, and the node whose    *)
(* failed record it recovers.  `at` is the position of its own record.     *)
NewNode(kind, region, parent, recovers) ==
  [kind |-> kind, region |-> region, parent |-> parent, recovers |-> recovers,
   state |-> "planned", outcome |-> "none", patch |-> "none", at |-> 0]

Init ==
  /\ graph = [run |-> "active",
              nodes |-> [n \in {Root} |-> NewNode("planner", NoRegion, NoNode, NoNode)],
              edges |-> {}, bound |-> {}, records |-> 0]
  /\ drive = "driving" /\ mishaps = 0 /\ missed = FALSE

-----------------------------------------------------------------------------
(* Nodes, edges and what is reachable.                                     *)
Nodes(g)         == DOMAIN g.nodes
OfKind(g, K)     == {n \in Nodes(g) : g.nodes[n].kind \in K}
InState(g, S)    == {n \in Nodes(g) : g.nodes[n].state \in S}
InRegion(g, r)   == {n \in Nodes(g) : g.nodes[n].region = r}
WithOutcome(g, o) == {n \in Nodes(g) : g.nodes[n].outcome = o}
Successors(g, S) == {e[2] : e \in {f \in g.edges : f[1] \in S}}

(* The nodes of S and all that the edges E lead to from there.             *)
Reachable(N, E, S) ==
  LET reach[T \in SUBSET N] ==
        LET more == T \cup {e[2] : e \in {f \in E : f[1] \in T}}
        IN  IF more = T THEN T ELSE reach[more]
  IN  reach[S]

DownstreamOf(g, n) == Reachable(Nodes(g), g.edges, Successors(g, {n}))

WouldCreateCycle(g, from, to) == from = to \/ from \in DownstreamOf(g, to)

(* The accepted_record_selector of an edge follows from what it feeds: a   *)
(* gap planner waits for a failed verdict, a final check for a passed one, *)
(* a corrective worker for a gap classified as corrective work.            *)
Selector == [gap |-> "failed", check |-> "passed", worker |-> "work",
             verifier |-> "candidate", planner |-> "none"]
Selected(g, e) == g.nodes[e[1]].outcome = Selector[g.nodes[e[2]].kind]

(* input_bound: every target has one such port, bound to the first record. *)
PortBound(g, n) == \E e \in g.bound : e[2] = n
Bind(g, E) == [g EXCEPT !.bound = @ \cup {e \in E : Selected(g, e) /\ ~PortBound(g, e[2])}]

(* edge_created with its backfill from records accepted before.            *)
Connect(g, E) == Bind([g EXCEPT !.edges = @ \cup E], E)

(* output_record_accepted, the bindings it causes, node completed and its  *)
(* lease released.                                                         *)
Accept(g, n, o) ==
  LET h == [g EXCEPT
              !.nodes[n] = [@ EXCEPT !.state = "completed", !.outcome = o, !.at = g.records + 1],
              !.records = @ + 1]
  IN  Bind(h, {e \in h.edges : e[1] = n})

-----------------------------------------------------------------------------
(* Scheduling: a tick readies and leases what it can.  Every worker claims *)
(* the whole repository for writing, verifiers and checks claim nothing.   *)
InputsReady(g, n) ==
  LET required == {e \in g.edges : e[2] = n}
  IN  /\ required # {} => PortBound(g, n)
      /\ \A e \in required : g.nodes[e[1]].state # "failed"

Conflicts(g, n) ==
  g.nodes[n].kind = "worker" /\ OfKind(g, {"worker"}) \cap InState(g, {"leased"}) # {}

ReadyAnyState(g) ==
  {n \in InState(g, Schedulable \cup {"completed"}) : InputsReady(g, n) /\ ~Conflicts(g, n)}

Ready(g) == {n \in InState(g, Schedulable) : InputsReady(g, n) /\ ~Conflicts(g, n)}

Ticked(g) ==
  LET ready   == Ready(g)
      workers == ready \cap OfKind(g, {"worker"})
      granted == {n \in ready : n \in workers => \A m \in workers : n[1] <= m[1]}
      next(n) == IF n \in granted THEN "leased" ELSE "ready"
  IN  [g EXCEPT !.nodes = [n \in Nodes(g) |->
         IF n \in ready THEN [g.nodes[n] EXCEPT !.state = next(n)] ELSE g.nodes[n]]]

-----------------------------------------------------------------------------
(* Task acceptance (_derive_task_states).                                  *)
Position(g, n)   == g.nodes[n].at
Candidates(g, r) == OfKind(g, {"worker"}) \cap InRegion(g, r) \cap WithOutcome(g, "candidate")
Latest(g, r)     == CHOOSE w \in Candidates(g, r) :
                      \A c \in Candidates(g, r) : Position(g, c) <= Position(g, w)

Passed(g, n)       == g.nodes[n].outcome = "passed"
Passing(g, K)      == OfKind(g, K) \cap WithOutcome(g, "passed")
Failing(g, K)      == OfKind(g, K) \cap WithOutcome(g, "failed")
Verifiers(g, w)    == {v \in OfKind(g, {"verifier"}) : <<w, v>> \in g.edges}

(* The controller's own recovery planners for a failed record; a planner   *)
(* of a patch that answers the same failure is not one of them.            *)
Recoveries(g, n) == {p \in Nodes(g) : g.nodes[p].recovers = n}

CheckSuperseded(g, c) ==
  \E p \in Recoveries(g, c) :
     DownstreamOf(g, p) \cap Passing(g, {"verifier", "check"}) # {}

Cites(g, c, w) == \E v \in Verifiers(g, w) : <<v, c>> \in g.bound

RequiredChecksPassed(g, r) ==
  \A c \in (OfKind(g, {"check"}) \cap InRegion(g, r)) \ InState(g, {"retired"}) :
     \/ Passed(g, c) /\ (Candidates(g, r) # {} => Cites(g, c, Latest(g, r)))
     \/ g.nodes[c].outcome = "failed" /\ CheckSuperseded(g, c)

VerificationSuperseded(g, v) ==
  \E p \in Recoveries(g, v) : \E u \in DownstreamOf(g, p) \cap Passing(g, {"verifier"}) :
     RequiredChecksPassed(g, g.nodes[u].region)

Judged(g, w) == Verifiers(g, w) \cap (Passing(g, {"verifier"}) \cup Failing(g, {"verifier"}))

VerifierRequirementAnswered(g, r, w) ==
  \/ Judged(g, w) # {}
  \/ OfKind(g, {"verifier"}) \cap InRegion(g, r) \subseteq InState(g, {"retired"})

VerifierRequirementPassed(g, r, w) ==
  \/ \E v \in Judged(g, w) : Passed(g, v) \/ VerificationSuperseded(g, v)
  \/ /\ Judged(g, w) = {}
     /\ OfKind(g, {"verifier"}) \cap InRegion(g, r) \subseteq InState(g, {"retired"})

(* A region without a candidate is accepted when everything in it was      *)
(* retired, or when the nodes whose contract contributes are fulfilled.    *)
CandidateFreeAccepted(g, r) ==
  LET active       == InRegion(g, r) \ InState(g, {"retired"})
      task         == active \cap OfKind(g, {"worker", "verifier"})
      contributing == IF task # {} THEN task ELSE active \cap OfKind(g, {"check"})
  IN  \/ active = {}
      \/ /\ contributing # {}
         /\ \A n \in contributing :
              g.nodes[n].state = "completed" /\ (g.nodes[n].kind = "check" => Passed(g, n))

Accepted(g, r) ==
  IF Candidates(g, r) # {}
  THEN VerifierRequirementPassed(g, r, Latest(g, r)) /\ RequiredChecksPassed(g, r)
  ELSE CandidateFreeAccepted(g, r)

Regions(g)     == {g.nodes[n].region : n \in Nodes(g)} \ {NoRegion}
AllAccepted(g) == \A r \in Regions(g) : Accepted(g, r)

-----------------------------------------------------------------------------
(* Repair: five sweeps, all read from the same projection.  S restricts    *)
(* them to the records of one command; the reconcile gives all nodes.      *)
Quiet(g) == g.run = "active" /\ InState(g, {"leased"}) = {}

LaterRegionalPass(g, v) ==
  \E u \in Passing(g, {"verifier"}) :
     g.nodes[u].region = g.nodes[v].region /\ Position(g, u) > Position(g, v)

CurrentFailures(g) ==
  Failing(g, {"check"}) \cup {v \in Failing(g, {"verifier"}) : ~LaterRegionalPass(g, v)}

HasRecoveryOfController(g, n) == Recoveries(g, n) # {}

(* A recovery planner, once made, is never made again; a live gap planner  *)
(* of a patch on the same port will do.                                    *)
HasRecovery(g, n) ==
  \/ Recoveries(g, n) # {}
  \/ \E p \in OfKind(g, {"gap"}) : <<n, p>> \in g.edges
                                   /\ g.nodes[p].state \notin {"failed", "retired"}

ToRecoverAlone(g, S) ==
  {n \in S \cap CurrentFailures(g) :
     /\ Quiet(g) /\ ~AllAccepted(g) /\ ~HasRecovery(g, n)
     /\ InState(g, Schedulable) = {}}

ToRecover(g, S) ==
  {n \in S \cap CurrentFailures(g) :
     /\ Quiet(g) /\ ~AllAccepted(g) /\ ~HasRecovery(g, n)
     /\ InState(g, IF g.nodes[n].kind = "check" THEN Schedulable ELSE {"ready"}) = {}}

(* A branch is retired from its roots on, up to what has ended.            *)
Retirable(g, S) ==
  LET open == InState(g, Live) \ OfKind(g, {"check"})
  IN  Reachable(Nodes(g), {e \in g.edges : e[1] \in open}, S) \cap open

FailureBranch(g, n) == Retirable(g, Successors(g, {n}) \cap OfKind(g, {"gap"}))

Settled(g) == Quiet(g) /\ InState(g, {"ready"}) = {}

ToRetire(g, S) ==
  IF Settled(g) THEN UNION {FailureBranch(g, n) : n \in S \cap Passing(g, {"verifier", "check"})}
  ELSE {}

(* The last passed verdict feeds the final checks that still wait for one, *)
(* or gets a final check of its own when its failure branch is retired.    *)
LatestPass(g) == {v \in Passing(g, {"verifier"}) :
                    \A u \in Passing(g, {"verifier"}) : Position(g, u) <= Position(g, v)}

WaitingChecks(g) == {c \in OfKind(g, {"check"}) \cap InState(g, Schedulable) : ~PortBound(g, c)}

NeedsFinalCheck(g, S) ==
  {v \in S \cap LatestPass(g) :
     Settled(g) /\ FailureBranch(g, v) # {} /\ OfKind(g, {"check"}) = {}}

FinalCheckEdges(g, S) ==
  {e \in (S \cap LatestPass(g)) \X WaitingChecks(g) :
     Settled(g) /\ e \notin g.edges /\ ~WouldCreateCycle(g, e[1], e[2])}

(* A completed recovery planner is a dead end when it wired no executable  *)
(* successor and nothing downstream of it has passed.                      *)
CreatedSuccessors(g, p) == \E n \in Successors(g, {p}) : g.nodes[n].kind \notin {"planner", "gap"}
LineagePassed(g, p)     == DownstreamOf(g, p) \cap Passing(g, {"verifier", "check"}) # {}

DeadEndsBefore(g, S) ==
  {p \in S \cap InState(g, {"completed"}) :
     g.nodes[p].recovers \in CurrentFailures(g) /\ g.nodes[p].patch # "none"}

DeadEnds(g, S) ==
  {p \in S \cap InState(g, {"completed"}) :
     /\ g.nodes[p].recovers \in CurrentFailures(g) /\ g.nodes[p].patch # "none"
     /\ ~CreatedSuccessors(g, p) /\ ~LineagePassed(g, p)}

HasDeadEnd(g, S) ==
  Quiet(g) /\ InState(g, Live) = {} /\ ~AllAccepted(g) /\ DeadEnds(g, S) # {}

Created(g, new) ==
  [g EXCEPT !.nodes = [n \in DOMAIN new \cup Nodes(g) |->
     IF n \in Nodes(g) THEN g.nodes[n] ELSE new[n]]]

WithRecoveries(g, S) ==
  LET planner(n) == NewNode("gap", RecoveryOf(g.nodes[n].region), NoNode, n)
      new == [p \in {RecoveryNode(n) : n \in S} |->
                planner(CHOOSE n \in S : p = RecoveryNode(n))]
  IN  Connect(Created(g, new), {<<n, RecoveryNode(n)>> : n \in S})

WithFinalCheck(g, S) ==
  IF S = {} THEN g
  ELSE Connect(Created(g, [c \in {FinalCheck} |->
                             NewNode("check", FinalInvariant, NoNode, NoNode)]),
               S \X {FinalCheck})

Retired(g, S) ==
  [g EXCEPT !.nodes = [n \in Nodes(g) |->
     IF n \in S THEN [g.nodes[n] EXCEPT !.state = "retired"] ELSE g.nodes[n]]]

Repaired(g, S) ==
  LET recovered == WithRecoveries(g, ToRecover(g, S))
      checked   == WithFinalCheck(Connect(recovered, FinalCheckEdges(g, S)),
                                  NeedsFinalCheck(g, S))
      retired   == Retired(checked, ToRetire(g, S))
  IN  IF HasDeadEnd(g, S) THEN [retired EXCEPT !.run = "failed"] ELSE retired

Reconciled(g) == IF g.run = "active" THEN Repaired(g, Nodes(g)) ELSE g

-----------------------------------------------------------------------------
(* Commands of the runners.  A command of an active run appends its events *)
(* and their repair together.                                              *)
Leased(n) == graph.run = "active" /\ n \in InState(graph, {"leased"})

(* create_work_region, with attach_check and create_gap_planner.           *)
RolesOf == [plain   |-> {"worker", "verifier"},
            gap     |-> {"worker", "verifier", "gap"},
            check   |-> {"worker", "verifier", "check"},
            guarded |-> {"worker", "verifier", "check", "gap"}]

WiresOf == [plain   |-> {<<"worker", "verifier">>},
            gap     |-> {<<"worker", "verifier">>, <<"verifier", "gap">>},
            check   |-> {<<"worker", "verifier">>, <<"verifier", "check">>},
            guarded |-> {<<"worker", "verifier">>, <<"verifier", "check">>, <<"check", "gap">>}]

(* submit_patch of the root planner: its work regions, once.  The repair   *)
(* of a patch command finds the planner's own lease active: it is empty.   *)
PlanNodes(plan) == UNION {{r} \X RolesOf[plan[r]] : r \in DOMAIN plan}
PlanEdges(plan) ==
  UNION {{<<<<r, wire[1]>>, <<r, wire[2]>>>> : wire \in WiresOf[plan[r]]} : r \in DOMAIN plan}

SubmitPlan(n) ==
  /\ Leased(n) /\ graph.nodes[n].kind = "planner" /\ graph.nodes[n].patch = "none"
  /\ \E plan \in Plans :
       LET g   == [graph EXCEPT !.nodes[n].patch = "work"]
           new == [m \in PlanNodes(plan) |-> NewNode(m[2], m[1], n, NoNode)]
       IN  graph' = Connect(Created(g, new), PlanEdges(plan))
  /\ UNCHANGED <<drive, mishaps, missed>>

(* submit_patch of a gap planner: executable nodes must target the one     *)
(* corrective region and may or may not be wired to the classified gap; a  *)
(* patch may also create nothing.                                          *)
Corrections == Cardinality({n \in Nodes(graph) : graph.nodes[n].kind = "gap"
                                                  /\ graph.nodes[n].patch = "work"})

SubmitCorrection(n) ==
  /\ Leased(n) /\ graph.nodes[n].kind = "gap" /\ graph.nodes[n].patch = "none"
  /\ \/ graph' = [graph EXCEPT !.nodes[n].patch = "empty"]
     \/ /\ Corrections < MaxCorrections
        /\ \E wired \in Wirings :
             LET g   == [graph EXCEPT !.nodes[n].patch = "work"]
                 w   == CorrectionAt(Corrections + 1, "worker")
                 v   == CorrectionAt(Corrections + 1, "verifier")
                 new == [m \in {w, v} |-> NewNode(m[2], Corrective, n, NoNode)]
             IN  graph' = Connect(Created(g, new),
                                  {<<w, v>>} \cup (IF wired THEN {<<n, w>>} ELSE {}))
  /\ UNCHANGED <<drive, mishaps, missed>>

(* A verdict is repaired by its own command only when nothing else is      *)
(* leased or ready.                                                        *)
MissedBy(n, o) == o \in {"passed", "failed"} /\ InState(graph, {"leased", "ready"}) # {n}

FinishUnprojected(n, o) ==
  /\ graph' = Accept(Repaired(graph, {n}), n, o)
  /\ missed' = (missed \/ MissedBy(n, o))
  /\ UNCHANGED <<drive, mishaps>>

(* submit_callback: the record, the completion and the repair of both.     *)
Finish(n, o) ==
  /\ graph' = Repaired(Accept(graph, n, o), {n})
  /\ missed' = (missed \/ MissedBy(n, o))
  /\ UNCHANGED <<drive, mishaps>>

CompleteWorker(n) ==
  Leased(n) /\ graph.nodes[n].kind = "worker" /\ Finish(n, "candidate")

Judge(n) ==
  /\ Leased(n) /\ graph.nodes[n].kind \in {"verifier", "check"}
  /\ \E o \in {"passed", "failed"} : Finish(n, o)

(* A planner must have an accepted patch before it submits.                *)
CompletePlanner(n) ==
  /\ Leased(n) /\ graph.nodes[n].kind \in {"planner", "gap"}
  /\ graph.nodes[n].patch # "none"
  /\ Finish(n, graph.nodes[n].patch)

Mishap == mishaps < MaxMishaps /\ mishaps' = mishaps + 1

(* agent_died: back to planned while the budget lasts, else failed.  The   *)
(* death of a planner with an accepted patch is left out.                  *)
Die(n) ==
  /\ Leased(n) /\ graph.nodes[n].patch = "none"
  /\ Mishap
  /\ \E s \in {"planned", "failed"} :
       /\ graph' = [graph EXCEPT !.nodes[n].state = s]
       /\ missed' = (missed \/ (s = "failed" /\ graph.nodes[n].kind = "gap"))
  /\ UNCHANGED drive

-----------------------------------------------------------------------------
(* The driver (drive_to_quiescence).                                       *)
Driving == drive = "driving" /\ graph.run = "active"

Tick ==
  /\ Driving /\ Ticked(graph) # graph
  /\ graph' = Ticked(graph)
  /\ UNCHANGED <<drive, mishaps, missed>>

Exhausted == InState(graph, Live) = {}

(* The complete command refuses while a failed check is not superseded or  *)
(* a check died without a result.                                          *)
FinalBlockers(g) ==
  \E c \in OfKind(g, {"check"}) :
     \/ g.nodes[c].outcome = "failed" /\ ~CheckSuperseded(g, c)
     \/ g.nodes[c].state = "failed"

DriveComplete ==
  /\ Driving /\ Exhausted /\ AllAccepted(graph)
  /\ graph' = IF FinalBlockers(graph) THEN graph ELSE [graph EXCEPT !.run = "completed"]
  /\ drive' = "parked"
  /\ UNCHANGED <<mishaps, missed>>

DriveReconcile ==
  /\ Driving /\ Exhausted /\ ~AllAccepted(graph)
  /\ graph' = Reconciled(graph)
  /\ drive' = IF InState(graph', Live) = {} THEN "parked" ELSE "driving"
  /\ UNCHANGED <<mishaps, missed>>

(* The head does not move any more although some node could be scheduled.  *)
Park ==
  /\ drive = "driving" /\ InState(graph, {"leased"}) = {}
  /\ \/ graph.run # "active"
     \/ ~Exhausted /\ Ticked(graph) = graph
  /\ drive' = "parked"
  /\ UNCHANGED <<graph, mishaps, missed>>

(* A restart, or a resume of the paused run: recovery reconciles first.    *)
Rearm ==
  /\ graph.run = "active" /\ Mishap
  /\ graph' = Reconciled(graph) /\ drive' = "driving"
  /\ UNCHANGED missed

Answer(n) == SubmitPlan(n) \/ SubmitCorrection(n) \/ CompleteWorker(n) \/ Judge(n)
             \/ CompletePlanner(n)

Runner == \E n \in Nodes(graph) : Answer(n)
Driver == Tick \/ DriveComplete \/ DriveReconcile \/ Park

Next == Runner \/ (\E n \in Nodes(graph) : Die(n)) \/ Driver \/ Rearm

Spec == Init /\ [][Next]_vars

-----------------------------------------------------------------------------
(* Properties.                                                             *)

NodeType ==
  [kind : Kinds, region : Nat, parent : Ids, recovers : Ids, state : States,
   outcome : Outcomes, patch : Patches, at : Nat]

(* The projection is well formed: edges join nodes, bindings are edges,    *)
(* and the completed nodes are those with a record, each at a position of  *)
(* its own.                                                                *)
TypeOK ==
  /\ graph.run \in {"active", "completed", "failed"}
  /\ Nodes(graph) \subseteq Ids /\ \A n \in Nodes(graph) : graph.nodes[n] \in NodeType
  /\ graph.edges \subseteq Nodes(graph) \X Nodes(graph)
  /\ graph.bound \subseteq graph.edges
  /\ \A n \in Nodes(graph) :
       /\ Position(graph, n) \in 0..graph.records
       /\ graph.nodes[n].state = "completed" <=> Position(graph, n) > 0
       /\ \A m \in Nodes(graph) :
            Position(graph, n) = Position(graph, m) => n = m \/ Position(graph, n) = 0
  /\ drive \in {"driving", "parked"}
  /\ mishaps \in 0..MaxMishaps /\ missed \in BOOLEAN

(* A failed record has one gap planner answering it, although the command  *)
(* that reports it, a reconcile after a restart and the driver's reconcile *)
(* at quiescence may each create one.                                      *)
OneOwner ==
  \A n \in Nodes(graph) :
     Cardinality({p \in OfKind(graph, {"gap"}) \ InState(graph, {"failed", "retired"}) :
                    <<n, p>> \in graph.edges}) <= 1

(* What answers a verdict: its gap planners, what they proposed, and what   *)
(* answers the verdicts on that.                                           *)
Lineage(g) ==
  {e \in Nodes(g) \X Nodes(g) :
     (e \in g.edges /\ g.nodes[e[2]].kind = "gap") \/ g.nodes[e[2]].parent = e[1]}

RepairedBy(g, n) == Reachable(Nodes(g), Lineage(g), {n}) \cap Passing(g, {"verifier"})

(* A run of these plans is completed only when nothing is left to run and  *)
(* the latest candidate of every region was passed: neither a failed       *)
(* verdict that was superseded nor a retired region stands for a passed    *)
(* one.  (A semantic correction, which is not modelled, does let a region  *)
(* be accepted over its superseded failed verdict.)                        *)
CompletedMeansPassed ==
  graph.run = "completed" =>
    /\ Exhausted
    /\ \A r \in Regions(graph) : Candidates(graph, r) # {} =>
         \E v \in Verifiers(graph, Latest(graph, r)) : Passed(graph, v)

(* A run is failed as a dead end only when some completed recovery planner *)
(* answered a failure that nothing has repaired                            *)
(* (_completed_no_successor_recovery).                                     *)
RepairedRunNotFailed ==
  graph.run = "failed" =>
    \E n \in Nodes(graph) : \E p \in Recoveries(graph, n) :
       graph.nodes[p].state = "completed" /\ RepairedBy(graph, n) = {}

(* A run in which every failed verdict was repaired is not left blocked.   *)
(* It does not hold: the region of a recovery planner is accepted only     *)
(* through a correction of a declared batch (see the README).              *)
RepairedRunCompletes ==
  /\ drive = "parked" /\ Exhausted /\ mishaps = 0
  /\ \A v \in Failing(graph, {"verifier"}) : RepairedBy(graph, v) # {}
  /\ Failing(graph, {"check"}) = {}
  => graph.run = "completed"

(* An accepted region of the plan stays accepted, whatever is created,     *)
(* retired or judged elsewhere in the graph.                               *)
AcceptanceIsStable ==
  [][\A r \in Regions(graph) \cap 1..MaxRegions :
        Accepted(graph, r) => Accepted(graph', r)]_vars

(* When the run is parked as blocked, the reconcile would have nothing to  *)
(* do: every repair was made by the command that applied its record.       *)
StallIsGenuine ==
  drive = "parked" /\ graph.run = "active" => Reconciled(graph) = graph

(* The same for runs in which every verdict was accepted with nothing else *)
(* leased or ready, and no gap planner was lost.                           *)
SequentialStall == ~missed => StallIsGenuine

(* The final invariant check of a completed run saw every candidate: it is *)
(* created for the last verification that matters.  It does not hold once  *)
(* a runner has died (see the README).                                     *)
FinalCheckIsLast ==
  graph.run = "completed" =>
    \A c \in OfKind(graph, {"check"}) \cap InRegion(graph, FinalInvariant) :
       \A w \in WithOutcome(graph, "candidate") : Position(graph, w) < Position(graph, c)

(* When such a run is parked, every failed verification was answered: a    *)
(* gap planner has proposed what to do, or that nothing be done.           *)
FailureIsAnswered ==
  drive = "parked" /\ graph.run = "active" /\ ~missed =>
    \A v \in Failing(graph, {"verifier"}) :
       \E p \in Successors(graph, {v}) \cap OfKind(graph, {"gap"}) :
          graph.nodes[p].patch # "none"
=============================================================================
