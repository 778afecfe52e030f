------------------------------ MODULE MCWatch ------------------------------
EXTENDS Watch

(* The steps of the rotation of the mixed workload.                        *)
Rotating == {<<"switch">>, <<"rebind">>}
=============================================================================
