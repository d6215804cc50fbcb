--------------------------- MODULE MCDurableExecution ---------------------------
EXTENDS DurableExecution, TLC
CONSTANTS a1, p1, x, Kind
MCProjectOf == a1 :> p1
MCKindOf == a1 :> Kind
MCSequenceOf == a1 :> 1
================================================================================
