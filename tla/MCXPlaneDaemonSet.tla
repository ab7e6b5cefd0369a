-------------------------- MODULE MCXPlaneDaemonSet --------------------------
(* XPlaneDaemonSet for TLC. *)
EXTENDS XPlaneDaemonSet, TLC

CONSTANTS n1, n2, b

\* Both nodes are in the cluster-wide pool, one of them is in pool b.
Labelling == n1 :> {b} @@ n2 :> {}

\* Two situations: one object, with two changes, or a change and a fault; and
\* several objects, with one change or one fault, where the parent is edited at
\* most.
VARIABLE several

FirstObject == CHOOSE o \in Objects : TRUE

\* The objects have just been created for the cluster-wide pool, and the parent
\* has tolerations.
OpenPool ==
    /\ Init
    /\ several \in BOOLEAN
    /\ live = IF several THEN Objects ELSE {FirstObject}
    /\ selector = [o \in Objects |-> {}]
    /\ parent.tolerations = Tolerations

Budget ==
    /\ spent'.changes + spent'.faults <= IF several THEN 1 ELSE 2
    /\ several => parent'.uid = parent.uid

OpenPoolNext == Next /\ UNCHANGED several

\* Fairness here asks no more than XPlaneDaemonSet's.
OpenPoolFairness ==
    /\ WF_vars(Collect)
    /\ \A n \in Nodes : WF_vars(Work(n)) /\ WF_vars(ViewSync(n)) /\ WF_vars(Resync(n))
    /\ WF_vars(\E n \in Nodes : LoseParent(n) \/ Adopt(n))

OpenPoolSpec == OpenPool /\ [][OpenPoolNext]_<<vars, several>> /\ OpenPoolFairness
=============================================================================
