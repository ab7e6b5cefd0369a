---------------------------- MODULE MCSyncStatus ----------------------------
(* SyncStatus for TLC. *)
EXTENDS SyncStatus, TLC

\* The nodes are interchangeable in the runs that check no liveness.
NodeSymmetry == Permutations(Nodes)

-----------------------------------------------------------------------------
(* Two situations in one state graph: in one, informers lag behind as they   *)
(* like and a call fails or a node restarts, while nothing is changed; in    *)
(* the other, informers are prompt from the start, which leaves room for     *)
(* edits, relabels and changes of node states.  The selector's first label   *)
(* tells them apart until the first edit.                                    *)

FirstLabel == CHOOSE l \in Labels : TRUE

FirstNode == CHOOSE n \in Nodes : TRUE

Lagging == obj.gen = 1 /\ obj.sel # FirstLabel

\* Bound: generations, relabels and changes of node states, together.
MaxChanges == 2

Changes == obj.gen + spent.relabels + spent.sriov

\* Every node is in the pool, and all are alike: a fault may strike the first.
LagInit == Lagging /\ \A n \in Nodes : labels[n] = obj.sel /\ sriov[n] = "Succeeded"

LagFault(n) == Lagging /\ n = FirstNode /\ Fault(n)

\* Nothing is changed, and no resync helps out: it would only queue the object.
LagStep ==
    /\ spent'.relabels = 0 /\ spent'.sriov = 0
    /\ ~(queued' \subseteq queued) => <<worker, synced, spent>>' # <<worker, synced, spent>>

\* Nodes are told apart by their label and node state only.
Rank(n) == (IF labels[n] = FirstLabel THEN 2 ELSE 0) + (IF sriov[n] = "Succeeded" THEN 1 ELSE 0)

PromptInit == ~Lagging /\ \A n \in Nodes : Rank(n) <= Rank(FirstNode)

PromptEdit == ~Lagging /\ Changes < MaxChanges /\ EditSpec

PromptDelete == ~Lagging /\ DeleteObject

PromptStep == Prompt /\ Changes' <= MaxChanges

InitOfBoth == Init /\ (LagInit \/ PromptInit)

NextOfBoth ==
    \/ \E n \in Nodes : \/ Step(n) \/ LagFault(n) \/ Environment(n)
                       \/ CacheSync(n) \/ LabelSync(n) \/ Resync(n)
    \/ PromptEdit
    \/ PromptDelete

\* The action constraint.
StepOfBoth == IF Lagging THEN LagStep ELSE PromptStep

\* The periodic resync is counted on only once a node has been relabelled; every
\* other change has to be noticed through its own event.
SpecOfBoth ==
    /\ InitOfBoth
    /\ [][NextOfBoth]_vars
    /\ EventFairness
    /\ \A n \in Nodes : WF_vars(spent.relabels > 0 /\ Resync(n))
=============================================================================
