-------------------------- MODULE MCVFStateFollower --------------------------
(* VFStateFollower for TLC: a topology of two PFs and one of a single PF. *)
EXTENDS VFStateFollower, TLC

CONSTANTS p1, p2, p3, v1, v2, v3, t1, t2

Parent == v1 :> p1 @@ v2 :> p2 @@ v3 :> p3

Selected == t1 :> {p1, p2} @@ t2 :> {p3}
=============================================================================
