--------------------------- MODULE MCDynamicArray ---------------------------
(* The growth of taskB, taskC and taskD, and the smallest capacities.  *)
EXTENDS DynamicArray

MCFactors == {<<1, 1>>, <<2, 1>>, <<3, 2>>}
MCCapacities == {1, 2}
=============================================================================
