---------------------------- MODULE MCStdioProxy ----------------------------
(* Small instances of StdioProxy.  The ids stand for 1, 2 and                *)
(* {"toString": 1}, on which String() throws.                               *)
EXTENDS StdioProxy

CONSTANTS i1, i2, h1, k1, k2

Distinct  == {i1, i2, h1}
MCKeys == {k1, k2}
DistinctKeyOf  == [i \in {i1, i2} |-> IF i = i1 THEN k1 ELSE k2]
Hard == {h1}
Single == {i1}
SingleKey == {k1}
SingleKeyOf == [i \in Single |-> k1]
=============================================================================
