----------------------------- MODULE MCCouponUses -----------------------------
EXTENDS CouponUses, TLC
CONSTANTS c1, t1
MCClientOf == [a \in Appointments |-> c1]
MCTechOf == [a \in Appointments |-> t1]
Symmetry == Permutations(Requests) \union Permutations(Appointments)
=============================================================================
