------------------------------ MODULE SerialLog ------------------------------
(***************************************************************************)
(* What the graph controller promises the rest of the orchestrator: the    *)
(* events of a run are what its commands decide when they are executed one *)
(* after the other, each on exactly the events before it, none twice.      *)
(***************************************************************************)
EXTENDS Naturals, Sequences

CONSTANTS
  Commands,     (* the commands submitted for one run.                     *)
  Facts,        (* what an event can say.                                  *)
  Size,         (* Size[m]: how many events command m produces.            *)
  Decide(_, _)  (* Decide(m, s): what command m says after the events s.   *)

VARIABLES
  log,          (* the run's events.                                       *)
  applied       (* the commands executed.                                  *)

Entry == [cmd : Commands, fact : Facts]

(* apply_command: a pure function of the command and the projection.       *)
Fact(m, s)  == IF Decide(m, s) \in Facts THEN Decide(m, s) ELSE CHOOSE f \in Facts : TRUE
Batch(m, s) == [k \in 1..Size[m] |-> [cmd |-> m, fact |-> Fact(m, s)]]

Init == log = << >> /\ applied = {}

Execute(m) ==
  /\ m \notin applied
  /\ log' = log \o Batch(m, log)
  /\ applied' = applied \cup {m}

Next == \E m \in Commands : Execute(m)
Spec == Init /\ [][Next]_<<log, applied>>
=============================================================================
