--------------------------- MODULE MCFeatureNodes ---------------------------
(* FeatureNodes for TLC: two interfaces in one arc and one of them in a    *)
(* second, a feature with data by four and one without by one, and a       *)
(* buffer whose address is above U32.                                      *)
EXTENDS FeatureNodes

OrderDef == <<"f", "g">>
WordsDef == [f |-> 1, g |-> 0]
ConfigsDef == {[arc |-> 0, interface |-> 0], [arc |-> 0, interface |-> 1], [arc |-> 1, interface |-> 0]}
Both == [c \in ConfigsDef |-> {"f", "g"}]
SetupsDef == {Both,
              [Both EXCEPT ![[arc |-> 0, interface |-> 1]] = {"f"}],
              [Both EXCEPT ![[arc |-> 1, interface |-> 0]] = {"g"}]}
=============================================================================
