----------------------------- MODULE MCEspFiles -----------------------------
(* Two files in the root and one in a directory that is not there. *)
EXTENDS EspFiles

CONSTANTS a, b, deep

MCPath == {Root, a, b, deep}
MCAncestors == [path \in MCPath |-> IF path = Root THEN {} ELSE IF path = deep THEN {Root, a} ELSE {Root}]
MCOffset == 0..1
MCData == {<<>>, <<0>>, <<1>>, <<1, 1>>}

=============================================================================
