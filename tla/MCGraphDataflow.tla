-------------------------- MODULE MCGraphDataflow ---------------------------
EXTENDS GraphDataflow

MixedPlans == {<<"plain", "plain">>, <<"gap", "gap">>, <<"check", "gap">>, <<"plain", "check">>,
               <<"guarded">>, <<"guarded", "gap">>}
TwoPlain   == {<<"plain", "plain">>}
Wired      == {TRUE}
Unwired    == {FALSE}
=============================================================================
