---------------------------- MODULE MCGraphOutbox ----------------------------
(* Small instances of GraphOutbox. *)
EXTENDS GraphOutbox

KindsTwo == <<"agent_dispatch", "snapshot_cleanup">>
FiltersTwo == {{"agent_dispatch", "snapshot_cleanup"}, {"snapshot_cleanup"}}
=============================================================================
