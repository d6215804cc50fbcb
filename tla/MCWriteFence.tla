------------------------------ MODULE MCWriteFence ------------------------------
EXTENDS WriteFence, TLC
CONSTANTS a1, a2, p1, x
MCProjectOf == a1 :> p1 @@ a2 :> p1
MCKindOf == a1 :> "stateful_compatible" @@ a2 :> "backup_only"
MCSequenceOf == a1 :> 1 @@ a2 :> 2
================================================================================
