------------------------ MODULE MCEstimatePipeline ------------------------
(* Instances of EstimatePipeline for TLC.  Half = 8 makes int64 -8 .. 7; at  *)
(* rate 2, a distance of 4 overflows, so that content cannot be priced.      *)
EXTENDS EstimatePipeline, TLC

VoyageSymmetry == Permutations(Voyages)

Leg(d, f) == [distanceNm |-> d, feesMinor |-> f]

OneLeg == {Leg(1, 1)}
LegAndOverflow == {Leg(1, 1), Leg(4, 0)}
TwoLegs == {Leg(1, 1), Leg(2, 0)}

AllFaults == FaultKinds
\* Faults outside handle: handle never fails, everything else may.
DeliveryFaults == {"crash", "publish", "stamp", "commit"}
=============================================================================
