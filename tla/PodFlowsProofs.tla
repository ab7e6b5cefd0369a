--------------------------- MODULE PodFlowsProofs ---------------------------
(***************************************************************************)
(* PodFlows keeps track of flows for any pods, bridges and bounds.         *)
(***************************************************************************)
EXTENDS PodFlows, TLAPS

-----------------------------------------------------------------------------
(* Facts about flows. *)

\* Pod p has no flow on bridge b.
NoFlows(F, p, b) == \A f \in F : ~(f[1] = p /\ f[2] = b)

\* Deleting the flows of a cookie on a bridge leaves none of them, and no other
\* flow is gone.
LEMMA Deleted ==
    ASSUME NEW F \in SUBSET (Pods \X Bridges \X FlowIDs), NEW p \in Pods, NEW b \in Bridges
    PROVE  /\ F \ FlowsOn(p, b) \subseteq F
           /\ NoFlows(F \ FlowsOn(p, b), p, b)
    BY DEF FlowsOn, NoFlows

\* The flow AddPodRailFlows starts with.
LEMMA FirstFlow == 1 \in FlowIDs
    BY DEF FlowIDs

\* The flow after one that is not the last.
LEMMA NextFlow == \A k \in FlowIDs : k < 3 => k + 1 \in FlowIDs
    BY DEF FlowIDs

\* A pair other than the one removed stays.
LEMMA Untagged ==
    ASSUME NEW T, NEW p, NEW b, NEW q, NEW c, <<q, c>> \in T, ~(q = p /\ c = b)
    PROVE  <<q, c>> \in T \ {<<p, b>>}
    OBVIOUS

-----------------------------------------------------------------------------
(* Type correctness. *)

\* What the goroutines have at hand is a pod and a bridge.
AtHand ==
    /\ worker.pc # "idle" => worker.pod \in Pods
    /\ worker.pc \in {"add", "untag"} => worker.bridge \in Bridges
    /\ cleaner.pc \in {"stale", "untag"} => cleaner.bridge \in Bridges
    /\ cleaner.pc = "untag" => cleaner.pod \in Pods

TypeInv == TypeOK /\ AtHand

\* Both goroutines are well typed when idle.
LEMMA IdleTypes == IdleWorker \in Worker /\ IdleCleaner \in Cleaner
    BY FirstFlow DEF IdleWorker, Worker, IdleCleaner, Cleaner

\* The initial state is well typed.
LEMMA TypeInit == Init => TypeInv
<1> SUFFICES ASSUME Init PROVE TypeInv
    OBVIOUS
<1>1. pod \in [Pods -> Pod]
    BY DEF Init, Pod, NewPod
<1>2. AtHand
    BY DEF Init, AtHand, IdleWorker, IdleCleaner
<1> QED
    BY <1>1, <1>2, IdleTypes DEF Init, TypeInv, TypeOK

\* What the end of a bridge leaves in the worker.
LEMMA BridgeDoneType ==
    ASSUME TypeInv, worker.bridge \in Bridges,
           NEW pc \in {"check", "delete"}, NEW F \in SUBSET Bridges, BridgeDone(pc, F)
    PROVE  worker' \in Worker /\ worker'.pc = pc /\ worker'.pod = worker.pod
    BY FirstFlow DEF TypeInv, TypeOK, BridgeDone, Worker

\* Steps of a reconcile keep the types.
LEMMA TypeReconcile == TypeInv /\ Reconcile => TypeInv'
<1> SUFFICES ASSUME TypeInv, Reconcile PROVE TypeInv'
    OBVIOUS
<1>t. worker \in Worker
    BY DEF TypeInv, TypeOK
<1>1. ASSUME NEW p \in Pods, Start(p) PROVE TypeInv'
    <2>1. worker' \in Worker
        BY <1>1, <1>t, FirstFlow DEF Start, IdleWorker, Worker
    <2>2. worker'.pc \notin {"add", "untag"} /\ (worker'.pc # "idle" => worker'.pod \in Pods)
        BY <1>1, <1>t DEF Start, IdleWorker, Worker
    <2> QED
        BY <2>1, <2>2, <1>1 DEF Start, TypeInv, TypeOK, AtHand
<1>2. ASSUME NEW b \in Bridges, CheckBridge(b) PROVE TypeInv'
    <2>1. CASE <<worker.pod, b>> \in port \cap tag
        <3>1. /\ worker' = [worker EXCEPT !.pc = "add", !.bridge = b, !.flow = 1]
              /\ hit' \subseteq Pods
            BY <2>1, <1>2 DEF CheckBridge, TypeInv, TypeOK, AtHand
        <3>2. worker' \in Worker /\ worker'.pod = worker.pod /\ worker'.bridge = b
            BY <3>1, <1>t, FirstFlow DEF Worker
        <3> QED
            BY <3>1, <3>2, <1>2 DEF CheckBridge, TypeInv, TypeOK, AtHand
    <2>2. CASE <<worker.pod, b>> \notin port \cap tag
        <3>1. PICK F \in SUBSET Bridges : worker' = [worker EXCEPT !.todo = @ \ {b}, !.failed = F]
            <4>1. worker.failed \cup {b} \in SUBSET Bridges /\ worker.failed \in SUBSET Bridges
                BY <1>t DEF Worker
            <4> QED
                BY <4>1, <2>2, <1>2 DEF CheckBridge
        <3>2. worker' \in Worker /\ worker'.pod = worker.pod /\ worker'.pc = worker.pc
            BY <3>1, <1>t DEF Worker
        <3> QED
            BY <3>2, <2>2, <1>2 DEF CheckBridge, TypeInv, TypeOK, AtHand
    <2> QED
        BY <2>1, <2>2
<1>3. ASSUME NEW b \in Bridges, DeletePodRailFlows(b) PROVE TypeInv'
    <2>1. worker' \in Worker /\ worker'.pod = worker.pod /\ worker'.pc \in {"delete", "untag"}
        BY <1>3, <1>t DEF DeletePodRailFlows, Worker
    <2>2. worker'.pc = "untag" => worker'.bridge \in Bridges
        BY <1>3, <1>t DEF DeletePodRailFlows, Worker
    <2> QED
        BY <2>1, <2>2, <1>3 DEF DeletePodRailFlows, TypeInv, TypeOK, AtHand
<1>4. CASE AddFlow
    <2>0. worker.bridge \in Bridges /\ worker.pod \in Pods /\ worker.flow \in FlowIDs
        BY <1>4, <1>t DEF AddFlow, TypeInv, AtHand, Worker
    <2>1. flows' \subseteq Pods \X Bridges \X FlowIDs
        BY <2>0, <1>4 DEF AddFlow, TypeInv, TypeOK
    <2>2. CASE worker' = [worker EXCEPT !.flow = @ + 1] /\ worker.flow < 3
        <3>1. worker' \in Worker /\ worker'.pod = worker.pod /\ worker'.bridge = worker.bridge
            BY <2>2, <2>0, <1>t, NextFlow DEF Worker
        <3> QED
            BY <3>1, <2>0, <2>1, <1>4 DEF AddFlow, TypeInv, TypeOK, AtHand
    <2>3. ASSUME NEW F \in SUBSET Bridges, BridgeDone("check", F) PROVE TypeInv'
        <3>1. worker' \in Worker /\ worker'.pc = "check" /\ worker'.pod = worker.pod
            BY <2>3, <2>0, BridgeDoneType
        <3> QED
            BY <3>1, <2>0, <2>1, <1>4 DEF AddFlow, TypeInv, TypeOK, AtHand
    <2>4. {} \in SUBSET Bridges /\ {worker.bridge} \in SUBSET Bridges
        BY <2>0
    <2> QED
        BY <2>2, <2>3, <2>4, <1>4 DEF AddFlow
<1>5. CASE ClearExternalID
    <2>1. worker' \in Worker /\ worker'.pc = "delete" /\ worker'.pod = worker.pod
        BY <1>5, BridgeDoneType DEF ClearExternalID, TypeInv, AtHand
    <2> QED
        BY <2>1, <1>5 DEF ClearExternalID, TypeInv, TypeOK, AtHand
<1>6. CASE ReconcileDone
    BY <1>6, IdleTypes DEF ReconcileDone, IdleWorker, TypeInv, TypeOK, AtHand
<1> QED
    BY <1>1, <1>2, <1>3, <1>4, <1>5, <1>6 DEF Reconcile

\* What the end of a stale pod leaves in the cleaner.
LEMMA PodDoneType ==
    ASSUME TypeInv, NEW p, PodDone(p)
    PROVE  /\ cleaner' \in Cleaner /\ cleaner'.pc \in {"bridges", "stale"}
           /\ cleaner'.pc = "stale" => cleaner'.bridge = cleaner.bridge
    BY DEF TypeInv, TypeOK, PodDone, Cleaner

\* Steps of a cleanup keep the types.
LEMMA TypeCleanup == TypeInv /\ CleanupStaleFlows => TypeInv'
<1> SUFFICES ASSUME TypeInv, CleanupStaleFlows PROVE TypeInv'
    OBVIOUS
<1> USE DEF TypeInv, TypeOK, AtHand, Cleaner
<1>1. CASE ListPods
    BY <1>1 DEF ListPods, IdleCleaner
<1>2. CASE CleanTag
    BY <1>2 DEF CleanTag, PodDone, Hit
<1>3. CASE CleanupDone
    BY <1>3 DEF CleanupDone, IdleCleaner
<1>4. ASSUME NEW b \in Bridges, CleanupBridge(b) PROVE TypeInv'
    BY <1>4 DEF CleanupBridge
<1>5. ASSUME NEW p \in Pods, CleanFlows(p) PROVE TypeInv'
    BY <1>5 DEF CleanFlows, Hit
<1> QED
    BY <1>1, <1>2, <1>3, <1>4, <1>5 DEF CleanupStaleFlows

\* Failures and restarts keep the types.
LEMMA TypeFailure == TypeInv /\ Failure => TypeInv'
<1> SUFFICES ASSUME TypeInv, Failure PROVE TypeInv'
    OBVIOUS
<1>t. worker \in Worker /\ cleaner \in Cleaner
    BY DEF TypeInv, TypeOK
<1>f. Fault => spent' \in [faults : Nat, restarts : Nat]
    BY DEF Fault, TypeInv, TypeOK
<1>1. CASE PodFlowsFail
    <2>1. CASE worker.pc = "check"
        <3>1. PICK b \in worker.todo : worker' = [worker EXCEPT !.todo = @ \ {b}, !.failed = @ \cup {b}]
            BY <2>1, <1>1 DEF PodFlowsFail
        <3>2. worker' \in Worker /\ worker'.pc = "check" /\ worker'.pod = worker.pod
            BY <3>1, <2>1, <1>t DEF Worker
        <3> QED
            BY <3>2, <2>1, <1>1, <1>f DEF PodFlowsFail, TypeInv, TypeOK, AtHand
    <2>2. CASE worker.pc = "add"
        <3>1. worker.bridge \in Bridges /\ worker.pod \in Pods /\ worker.flow \in FlowIDs
            BY <2>2, <1>t DEF TypeInv, AtHand, Worker
        <3>2. worker' \in Worker /\ worker'.pc = "check" /\ worker'.pod = worker.pod
            BY <3>1, <2>2, <1>1, BridgeDoneType DEF PodFlowsFail
        <3>3. flows' \subseteq Pods \X Bridges \X FlowIDs
            BY <3>1, <2>2, <1>1 DEF PodFlowsFail, TypeInv, TypeOK
        <3> QED
            BY <3>2, <3>3, <3>1, <2>2, <1>1, <1>f DEF PodFlowsFail, TypeInv, TypeOK, AtHand
    <2> QED
        BY <2>1, <2>2, <1>1 DEF PodFlowsFail
<1>2. CASE DeleteFails
    <2>1. flows' \subseteq flows /\ tag' \subseteq tag
        BY <1>2 DEF DeleteFails
    <2>2. worker.pc \in {"delete", "untag"} /\ worker.pod \in Pods
        BY <1>2 DEF DeleteFails, TypeInv, AtHand
    <2>3. worker' \in Worker /\ worker'.pc = "delete" /\ worker'.pod = worker.pod
        <3>1. CASE worker.pc = "untag"
            BY <3>1, <1>2, BridgeDoneType DEF DeleteFails, TypeInv, AtHand
        <3>2. CASE worker.pc = "delete"
            BY <3>2, <1>2, <1>t DEF DeleteFails, Worker
        <3> QED
            BY <3>1, <3>2, <2>2
    <2> QED
        BY <2>1, <2>2, <2>3, <1>2, <1>f DEF DeleteFails, TypeInv, TypeOK, AtHand
<1>3. CASE CleanupFails
    <2>1. flows' \subseteq flows /\ tag' \subseteq tag
        BY <1>3 DEF CleanupFails
    <2>2. hit' \subseteq Pods
        BY <1>3, <1>t DEF CleanupFails, Hit, TypeInv, TypeOK, AtHand, Cleaner
    <2>3. cleaner' \in Cleaner /\ cleaner'.pc # "untag" /\ (cleaner'.pc = "stale" => cleaner'.bridge = cleaner.bridge /\ cleaner.pc \in {"stale", "untag"})
        <3>1. CASE cleaner.pc = "bridges"
            BY <3>1, <1>3, <1>t, IdleTypes DEF CleanupFails, Cleaner, IdleCleaner
        <3>2. CASE cleaner.pc = "stale"
            BY <3>2, <1>3, PodDoneType DEF CleanupFails
        <3>3. CASE cleaner.pc = "untag"
            BY <3>3, <1>3, PodDoneType DEF CleanupFails
        <3> QED
            BY <3>1, <3>2, <3>3, <1>3 DEF CleanupFails
    <2> QED
        BY <2>1, <2>2, <2>3, <1>3, <1>f DEF CleanupFails, TypeInv, TypeOK, AtHand
<1>4. CASE Restart
    <2>1. cache' \in [Pods -> Pod] /\ queue' \subseteq Pods
        BY <1>4 DEF Restart, TypeInv, TypeOK
    <2>2. AtHand'
        BY <1>4 DEF Restart, AtHand, IdleWorker, IdleCleaner
    <2> QED
        BY <2>1, <2>2, <1>4, <1>f, IdleTypes DEF Restart, TypeInv, TypeOK
<1>5. CASE OvsRestart
    BY <1>5 DEF OvsRestart, TypeInv, TypeOK, AtHand
<1> QED
    BY <1>1, <1>2, <1>3, <1>4, <1>5 DEF Failure

\* Steps of the kubelet, the CNI plugins and the informer keep the types.
LEMMA TypeCluster ==
    ASSUME NEW p \in Pods PROVE TypeInv /\ (CacheSync(p) \/ Cluster(p)) => TypeInv'
<1> SUFFICES ASSUME TypeInv, CacheSync(p) \/ Cluster(p) PROVE TypeInv'
    OBVIOUS
<1> USE DEF TypeInv, TypeOK, AtHand, Pod
<1>1. CASE CacheSync(p)
    BY <1>1 DEF CacheSync
<1>2. CASE Create(p)
    BY <1>2 DEF Create
<1>3. CASE Publish(p)
    BY <1>3 DEF Publish
<1>4. CASE DeletePod(p)
    BY <1>4 DEF DeletePod
<1>5. CASE RemovePod(p)
    BY <1>5 DEF RemovePod
<1>6. CASE Detach(p)
    BY <1>6 DEF Detach
<1>7. ASSUME NEW b \in Bridges, Attach(p, b) PROVE TypeInv'
    BY <1>7 DEF Attach
<1> QED
    BY <1>1, <1>2, <1>3, <1>4, <1>5, <1>6, <1>7 DEF Cluster

\* Every step keeps the types.
LEMMA TypeNext == TypeInv /\ [Next]_vars => TypeInv'
<1> SUFFICES ASSUME TypeInv, [Next]_vars PROVE TypeInv'
    OBVIOUS
<1>1. CASE Notify
    BY <1>1 DEF Notify, TypeInv, TypeOK, AtHand
<1>2. CASE UNCHANGED vars
    BY <1>2 DEF vars, TypeInv, TypeOK, AtHand
<1> QED
    BY <1>1, <1>2, TypeReconcile, TypeCleanup, TypeFailure, TypeCluster DEF Next

\* The state of reconciler, Cleaner, Open vSwitch and cluster is well formed
\* throughout, for every set of pods and bridges (flow_controller.go, flows.go).
THEOREM TypeCorrect == Spec => []TypeOK
<1>1. TypeInv => TypeOK
    BY DEF TypeInv
<1> QED
    BY <1>1, TypeInit, TypeNext, PTL DEF Spec

-----------------------------------------------------------------------------
(* Flows are tracked. *)

\* The reconciler adds flows where the tag is, or the Cleaner has been there.
AddInv ==
    worker.pc = "add" => <<worker.pod, worker.bridge>> \in tag \/ worker.pod \in hit

\* The reconciler removes a tag when the flows are gone: it is the only one
\* to add any.
UntagInv == worker.pc = "untag" => NoFlows(flows, worker.pod, worker.bridge)

\* So does the Cleaner, unless a reconcile adds flows in between.
CleanInv ==
    cleaner.pc = "untag" => NoFlows(flows, cleaner.pod, cleaner.bridge) \/ cleaner.pod \in hit

\* Cleaner and reconciler at the same pod leave a trace in hit.
MeetInv ==
    worker.pc = "add" /\ cleaner.pc = "untag" /\ worker.pod = cleaner.pod => worker.pod \in hit

Inv == TypeInv /\ AddInv /\ UntagInv /\ CleanInv /\ MeetInv /\ FlowsTracked

\* Initially there are no flows.
LEMMA InvInit == Init => Inv
<1> SUFFICES ASSUME Init PROVE Inv
    OBVIOUS
<1> QED
    BY TypeInit DEF Init, Inv, AddInv, UntagInv, CleanInv, MeetInv, FlowsTracked, IdleWorker, IdleCleaner

\* A step that adds no flow, removes no tag and forgets no hit keeps track.
LEMMA Kept ==
    ASSUME FlowsTracked, flows' \subseteq flows, tag \subseteq tag', hit \subseteq hit'
    PROVE  FlowsTracked'
    BY DEF FlowsTracked

\* Neither does one that removes a tag without flows, or of a pod in hit.
LEMMA KeptUntagging ==
    ASSUME FlowsTracked, NEW p, NEW b, NoFlows(flows, p, b) \/ p \in hit',
           flows' = flows, tag \ {<<p, b>>} \subseteq tag', hit \subseteq hit'
    PROVE  FlowsTracked'
    BY Untagged DEF FlowsTracked, NoFlows

\* Nor one that adds a flow where the tag is, or of a pod in hit.
LEMMA KeptAdding ==
    ASSUME FlowsTracked, NEW p, NEW b, NEW k, <<p, b>> \in tag \/ p \in hit,
           flows' \subseteq flows \cup {<<p, b, k>>}, tag' = tag, hit' = hit
    PROVE  FlowsTracked'
<1> SUFFICES ASSUME NEW f \in flows' PROVE <<f[1], f[2]>> \in tag \/ f[1] \in hit
    BY DEF FlowsTracked
<1>1. CASE f \in flows
    BY <1>1 DEF FlowsTracked
<1>2. CASE f = <<p, b, k>>
    BY <1>2
<1> QED
    BY <1>1, <1>2

\* With fewer flows there are none where there were none.
LEMMA FewerFlows ==
    ASSUME NEW F, NEW G, G \subseteq F, NEW p, NEW b, NoFlows(F, p, b)
    PROVE  NoFlows(G, p, b)
    BY DEF NoFlows

\* Steps of a reconcile keep flows tracked: flows are added to tagged bridges
\* only, and a tag goes after its flows.
LEMMA InvReconcile == Inv /\ Reconcile => Inv'
<1> SUFFICES ASSUME Inv, Reconcile PROVE Inv'
    OBVIOUS
<1>t. TypeInv /\ TypeInv' /\ worker \in Worker /\ cleaner \in Cleaner
    BY TypeReconcile DEF Inv, TypeInv, TypeOK
<1>1. ASSUME NEW p \in Pods, Start(p) PROVE Inv'
    <2>1. worker'.pc \notin {"add", "untag"}
        BY <1>1, <1>t DEF Start, IdleWorker, Worker
    <2> QED
        BY <2>1, <1>1, <1>t DEF Start, Inv, AddInv, UntagInv, CleanInv, MeetInv, FlowsTracked
<1>2. ASSUME NEW b \in Bridges, CheckBridge(b) PROVE Inv'
    <2>1. CASE <<worker.pod, b>> \in port \cap tag
        <3>1. /\ worker'.pc = "add" /\ worker'.pod = worker.pod /\ worker'.bridge = b
              /\ hit' = hit \cup ({worker.pod} \cap {cleaner.pod})
              /\ UNCHANGED <<flows, tag, cleaner>>
            BY <2>1, <1>2, <1>t DEF CheckBridge, Worker
        <3> QED
            BY <3>1, <2>1, <1>t DEF Inv, AddInv, UntagInv, CleanInv, MeetInv, FlowsTracked
    <2>2. CASE <<worker.pod, b>> \notin port \cap tag
        <3>1. worker'.pc = "check" /\ UNCHANGED <<flows, tag, cleaner, hit>>
            BY <2>2, <1>2, <1>t DEF CheckBridge, Worker
        <3> QED
            BY <3>1, <1>t DEF Inv, AddInv, UntagInv, CleanInv, MeetInv, FlowsTracked
    <2> QED
        BY <2>1, <2>2
<1>3. ASSUME NEW b \in Bridges, DeletePodRailFlows(b) PROVE Inv'
    <2>1. flows' \subseteq flows /\ UNCHANGED <<tag, cleaner, hit>>
        BY <1>3 DEF DeletePodRailFlows
    <2>2. worker'.pc \in {"delete", "untag"}
        BY <1>3, <1>t DEF DeletePodRailFlows, Worker
    <2>3. UntagInv'
        <3>1. CASE <<worker.pod, b>> \in tag
            <4>1. worker'.pod = worker.pod /\ worker'.bridge = b /\ flows' = flows \ FlowsOn(worker.pod, b)
                BY <3>1, <1>3, <1>t DEF DeletePodRailFlows, Worker
            <4>2. worker.pod \in Pods /\ flows \in SUBSET (Pods \X Bridges \X FlowIDs)
                BY <1>3, <1>t DEF DeletePodRailFlows, TypeInv, TypeOK, AtHand
            <4> QED
                BY <4>1, <4>2, Deleted DEF UntagInv
        <3>2. CASE <<worker.pod, b>> \notin tag
            BY <3>2, <1>3, <1>t DEF DeletePodRailFlows, Worker, UntagInv
        <3> QED
            BY <3>1, <3>2
    <2>4. CleanInv'
        BY <2>1, FewerFlows DEF Inv, CleanInv
    <2>5. FlowsTracked'
        BY <2>1, Kept DEF Inv
    <2> QED
        BY <2>2, <2>3, <2>4, <2>5, <1>t DEF Inv, AddInv, MeetInv
<1>4. CASE AddFlow
    <2>0. worker.pod \in Pods /\ worker.bridge \in Bridges /\ UNCHANGED <<tag, cleaner, hit>>
        BY <1>4, <1>t DEF AddFlow, TypeInv, AtHand
    <2>1. flows' \subseteq flows \cup {<<worker.pod, worker.bridge, worker.flow>>}
        BY <1>4 DEF AddFlow
    <2>2. worker'.pc # "untag" /\ (worker'.pc = "add" => worker'.pod = worker.pod /\ worker'.bridge = worker.bridge)
        BY <1>4, <1>t DEF AddFlow, BridgeDone, Worker
    <2>3. worker.pc = "add"
        BY <1>4 DEF AddFlow
    <2>4. CleanInv'
        BY <2>0, <2>1, <2>3 DEF Inv, CleanInv, MeetInv, NoFlows
    <2>5. FlowsTracked'
        BY <2>0, <2>1, <2>3, KeptAdding DEF Inv, AddInv
    <2> QED
        BY <2>0, <2>2, <2>3, <2>4, <2>5, <1>t DEF Inv, AddInv, UntagInv, MeetInv
<1>5. CASE ClearExternalID
    <2>1. worker'.pc = "delete"
        BY <1>5, <1>t, BridgeDoneType DEF ClearExternalID, TypeInv, AtHand
    <2>2. FlowsTracked'
        BY <1>5, KeptUntagging DEF ClearExternalID, Inv, UntagInv
    <2> QED
        BY <2>1, <2>2, <1>5, <1>t DEF ClearExternalID, Inv, AddInv, UntagInv, CleanInv, MeetInv
<1>6. CASE ReconcileDone
    BY <1>6, <1>t DEF ReconcileDone, IdleWorker, Inv, AddInv, UntagInv, CleanInv, MeetInv, FlowsTracked
<1> QED
    BY <1>1, <1>2, <1>3, <1>4, <1>5, <1>6 DEF Reconcile

\* So do steps of a cleanup, unless they meet a reconcile of the pod.
LEMMA InvCleanup == Inv /\ CleanupStaleFlows => Inv'
<1> SUFFICES ASSUME Inv, CleanupStaleFlows PROVE Inv'
    OBVIOUS
<1>t. TypeInv /\ TypeInv' /\ cleaner \in Cleaner
    BY TypeCleanup DEF Inv, TypeInv, TypeOK
<1>1. CASE ListPods
    BY <1>1, <1>t DEF ListPods, IdleCleaner, Inv, AddInv, UntagInv, CleanInv, MeetInv, FlowsTracked
<1>2. CASE CleanTag
    <2> DEFINE p == cleaner.pod
               b == cleaner.bridge
    <2>1. /\ tag' = tag \ {<<p, b>>} /\ UNCHANGED <<flows, worker>>
          /\ hit \subseteq hit' /\ (worker.pod = p => p \in hit')
        BY <1>2 DEF CleanTag, Hit
    <2>2. cleaner'.pc # "untag"
        BY <1>2, <1>t, PodDoneType DEF CleanTag
    <2>3. NoFlows(flows, p, b) \/ p \in hit
        BY <1>2 DEF CleanTag, Inv, CleanInv
    <2>4. FlowsTracked'
        BY <2>1, <2>3, KeptUntagging DEF Inv
    <2>5. AddInv'
        BY <2>1, Untagged DEF Inv, AddInv
    <2> QED
        BY <2>1, <2>2, <2>4, <2>5, <1>t DEF Inv, UntagInv, CleanInv, MeetInv
<1>3. CASE CleanupDone
    BY <1>3, <1>t DEF CleanupDone, IdleCleaner, Inv, AddInv, UntagInv, CleanInv, MeetInv, FlowsTracked
<1>4. ASSUME NEW b \in Bridges, CleanupBridge(b) PROVE Inv'
    <2>1. cleaner'.pc # "untag" /\ UNCHANGED <<tag, flows, worker, hit>>
        BY <1>4, <1>t DEF CleanupBridge, Cleaner
    <2> QED
        BY <2>1, <1>t DEF Inv, AddInv, UntagInv, CleanInv, MeetInv, FlowsTracked
<1>5. ASSUME NEW p \in Pods, CleanFlows(p) PROVE Inv'
    <2> DEFINE b == cleaner.bridge
    <2>1. /\ flows' = flows \ FlowsOn(p, b) /\ UNCHANGED <<tag, worker>>
          /\ hit \subseteq hit' /\ (worker.pod = p => p \in hit')
        BY <1>5 DEF CleanFlows, Hit
    <2>2. cleaner'.pc = "untag" /\ cleaner'.pod = p /\ cleaner'.bridge = b
        BY <1>5, <1>t DEF CleanFlows, Cleaner
    <2>3. flows' \subseteq flows /\ NoFlows(flows', p, b)
        <3>1. b \in Bridges /\ flows \in SUBSET (Pods \X Bridges \X FlowIDs)
            BY <1>5, <1>t DEF CleanFlows, TypeInv, TypeOK, AtHand
        <3> QED
            BY <3>1, <2>1, Deleted
    <2>4. FlowsTracked'
        BY <2>1, <2>3, Kept DEF Inv
    <2>5. UntagInv'
        BY <2>1, <2>3, FewerFlows DEF Inv, UntagInv
    <2> QED
        BY <2>1, <2>2, <2>3, <2>4, <2>5, <1>t DEF Inv, AddInv, CleanInv, MeetInv
<1> QED
    BY <1>1, <1>2, <1>3, <1>4, <1>5 DEF CleanupStaleFlows

\* A failed command leaves the tag of flows that may still be there.
LEMMA InvFailure == Inv /\ Failure => Inv'
<1> SUFFICES ASSUME Inv, Failure PROVE Inv'
    OBVIOUS
<1>t. TypeInv /\ TypeInv' /\ worker \in Worker /\ cleaner \in Cleaner
    BY TypeFailure DEF Inv, TypeInv, TypeOK
<1>1. CASE PodFlowsFail
    <2>1. CASE worker.pc = "check"
        <3>1. worker'.pc = "check" /\ UNCHANGED <<flows, tag, cleaner, hit>>
            BY <2>1, <1>1, <1>t DEF PodFlowsFail, Worker
        <3> QED
            BY <3>1, <1>t DEF Inv, AddInv, UntagInv, CleanInv, MeetInv, FlowsTracked
    <2>2. CASE worker.pc = "add"
        <3>1. /\ flows' \subseteq flows \cup {<<worker.pod, worker.bridge, worker.flow>>}
              /\ UNCHANGED <<tag, cleaner, hit>>
            BY <2>2, <1>1 DEF PodFlowsFail
        <3>2. worker'.pc = "check"
            BY <2>2, <1>1, <1>t, BridgeDoneType DEF PodFlowsFail, TypeInv, AtHand
        <3>3. CleanInv'
            BY <3>1, <2>2 DEF Inv, CleanInv, MeetInv, NoFlows
        <3>4. FlowsTracked'
            BY <3>1, <2>2, KeptAdding DEF Inv, AddInv
        <3> QED
            BY <3>2, <3>3, <3>4, <1>t DEF Inv, AddInv, UntagInv, MeetInv
    <2> QED
        BY <2>1, <2>2, <1>1 DEF PodFlowsFail
<1>2. CASE DeleteFails
    <2>1. UNCHANGED <<cleaner, hit>> /\ flows' \subseteq flows
        BY <1>2 DEF DeleteFails
    <2>2. worker'.pc = "delete"
        <3>1. CASE worker.pc = "untag"
            BY <3>1, <1>2, <1>t, BridgeDoneType DEF DeleteFails, TypeInv, AtHand
        <3>2. CASE worker.pc = "delete"
            BY <3>2, <1>2, <1>t DEF DeleteFails, Worker
        <3> QED
            BY <3>1, <3>2, <1>2 DEF DeleteFails
    <2>3. FlowsTracked'
        <3>1. CASE worker.pc = "untag"
            <4>1. flows' = flows /\ tag \ {<<worker.pod, worker.bridge>>} \subseteq tag'
                BY <3>1, <1>2 DEF DeleteFails
            <4> QED
                BY <4>1, <3>1, <2>1, KeptUntagging DEF Inv, UntagInv
        <3>2. CASE worker.pc = "delete"
            BY <3>2, <2>1, <1>2, Kept DEF DeleteFails, Inv
        <3> QED
            BY <3>1, <3>2, <1>2 DEF DeleteFails
    <2>4. CleanInv'
        BY <2>1, FewerFlows DEF Inv, CleanInv
    <2> QED
        BY <2>2, <2>3, <2>4, <1>t DEF Inv, AddInv, UntagInv, MeetInv
<1>3. CASE CleanupFails
    <2>1. UNCHANGED worker /\ flows' \subseteq flows /\ hit \subseteq hit'
        BY <1>3 DEF CleanupFails, Hit
    <2>2. cleaner'.pc # "untag"
        <3>1. CASE cleaner.pc = "bridges"
            BY <3>1, <1>3, <1>t DEF CleanupFails, Cleaner, IdleCleaner
        <3>2. CASE cleaner.pc \in {"stale", "untag"}
            BY <3>2, <1>3, <1>t, PodDoneType DEF CleanupFails
        <3> QED
            BY <3>1, <3>2, <1>3 DEF CleanupFails
    <2>3. FlowsTracked' /\ AddInv'
        <3>1. CASE cleaner.pc = "untag"
            <4> DEFINE p == cleaner.pod
                       b == cleaner.bridge
            <4>1. /\ tag \ {<<p, b>>} \subseteq tag' /\ flows' = flows
                  /\ worker.pod = p => p \in hit'
                BY <3>1, <1>3 DEF CleanupFails, Hit
            <4>2. NoFlows(flows, p, b) \/ p \in hit
                BY <3>1 DEF Inv, CleanInv
            <4>3. FlowsTracked'
                BY <4>1, <4>2, <2>1, KeptUntagging DEF Inv
            <4>4. AddInv'
                BY <4>1, <2>1, Untagged DEF Inv, AddInv
            <4> QED
                BY <4>3, <4>4
        <3>2. CASE cleaner.pc # "untag"
            <4>1. tag' = tag
                BY <3>2, <1>3 DEF CleanupFails
            <4> QED
                BY <4>1, <2>1, Kept DEF Inv, AddInv
        <3> QED
            BY <3>1, <3>2
    <2>4. UntagInv'
        BY <2>1, FewerFlows DEF Inv, UntagInv
    <2> QED
        BY <2>2, <2>3, <2>4, <1>t DEF Inv, CleanInv, MeetInv
<1>4. CASE Restart
    BY <1>4, <1>t DEF Restart, IdleWorker, IdleCleaner, Inv, AddInv, UntagInv, CleanInv, MeetInv, FlowsTracked
<1>5. CASE OvsRestart
    BY <1>5, <1>t DEF OvsRestart, Inv, AddInv, UntagInv, CleanInv, MeetInv, FlowsTracked, NoFlows
<1> QED
    BY <1>1, <1>2, <1>3, <1>4, <1>5 DEF Failure

\* Cluster and informers add tags and change neither flows nor goroutines.
LEMMA InvCluster ==
    ASSUME NEW p \in Pods PROVE Inv /\ (CacheSync(p) \/ Cluster(p)) => Inv'
<1> SUFFICES ASSUME Inv, CacheSync(p) \/ Cluster(p) PROVE Inv'
    OBVIOUS
<1>1. tag \subseteq tag' /\ UNCHANGED <<flows, worker, cleaner, hit>>
    BY DEF CacheSync, Cluster, Create, Publish, DeletePod, RemovePod, Detach, Attach
<1>2. TypeInv'
    BY TypeCluster DEF Inv
<1> QED
    BY <1>1, <1>2, Kept DEF Inv, AddInv, UntagInv, CleanInv, MeetInv

\* Every step keeps flows tracked.
LEMMA InvNext == Inv /\ [Next]_vars => Inv'
<1> SUFFICES ASSUME Inv, [Next]_vars PROVE Inv'
    OBVIOUS
<1>t. TypeInv'
    BY TypeNext DEF Inv
<1>1. CASE Notify
    BY <1>1, <1>t DEF Notify, Inv, AddInv, UntagInv, CleanInv, MeetInv, FlowsTracked
<1>2. CASE UNCHANGED vars
    BY <1>2, <1>t DEF vars, Inv, AddInv, UntagInv, CleanInv, MeetInv, FlowsTracked
<1> QED
    BY <1>1, <1>2, InvReconcile, InvCleanup, InvFailure, InvCluster DEF Next

\* Flows are never forgotten: for any pods, bridges, failures and restarts, a
\* bridge with flows of a pod carries the tag by which the Cleaner finds them,
\* unless a cleanup and a reconcile of the pod have met (cleanBridgeFlows).
THEOREM FlowsAreTracked == Spec => []FlowsTracked
<1>1. Inv => FlowsTracked
    BY DEF Inv
<1> QED
    BY <1>1, InvInit, InvNext, PTL DEF Spec

-----------------------------------------------------------------------------
(* A running pod at rest has its flows. *)

\* What the cache shows has been so: a deletion and an annotation stay.
PastInv ==
    \A p \in Pods :
        /\ pod[p].phase = "new" => ~pod[p].net
        /\ cache[p].net => pod[p].net
        /\ cache[p].phase = "deleting" => pod[p].phase \in {"deleting", "gone"}

\* Flows are deleted of a deleted pod only.
DeleteInv ==
    worker.pc \in {"delete", "untag"} => pod[worker.pod].phase \in {"deleting", "gone"}

\* An idle worker has no pod at hand.
IdleInv == worker.pc = "idle" => worker.pod = None

\* A pod yet to be created has no ports.  A live pod's are tagged unless the
\* Cleaner has been there, and once its interfaces are known it has one on
\* every bridge.
PlugInv ==
    \A p \in Pods, b \in Bridges :
        /\ pod[p].phase = "new" => <<p, b>> \notin port
        /\ pod[p].phase = "live" /\ <<p, b>> \in port => <<p, b>> \in tag \/ p \in hit
        /\ pod[p].phase = "live" /\ pod[p].net => <<p, b>> \in port

\* A reconcile or a restart to come will see to the pod, or it is no concern.
Awaited(p) == ~Running(p) \/ p \in hit \/ p \in queue \/ pidEvent

\* The reconcile at hand will see to the bridge, or return its error.
Pending(p, b) == worker.pod = p /\ (b \in worker.todo \/ b \in worker.failed)

\* Flow k of the pod on the bridge was added in this reconcile or an earlier one.
Added(p, b, k) ==
    \/ worker.pod # p
    \/ ~Pending(p, b)
    \/ worker.pc = "add" /\ worker.bridge = b /\ k < worker.flow

\* Nothing is missing of a pod that is not awaited but what is pending.
Served(p) ==
    Awaited(p) \/ \A b \in Bridges, k \in FlowIDs : Added(p, b, k) => <<p, b, k>> \in flows

ServedInv == \A p \in Pods : Served(p)

RestInv == TypeInv /\ PastInv /\ DeleteInv /\ IdleInv /\ PlugInv /\ ServedInv

\* Initially no pod runs.
LEMMA RestInit == Init => RestInv
<1> SUFFICES ASSUME Init PROVE RestInv
    OBVIOUS
<1>1. \A p \in Pods : pod[p].phase = "new" /\ ~pod[p].net /\ cache[p] = pod[p]
    BY DEF Init, NewPod
<1>2. \A p \in Pods : ~Running(p)
    <2> SUFFICES ASSUME NEW p \in Pods, pod[p] = [phase |-> "live", net |-> TRUE] PROVE FALSE
        BY DEF Running
    <2>1. pod[p].phase = "live"
        OBVIOUS
    <2> QED
        BY <2>1, <1>1
<1>4. ServedInv
    BY <1>2 DEF ServedInv, Served, Awaited
<1>3. PastInv /\ PlugInv
    BY <1>1 DEF Init, PastInv, PlugInv
<1> QED
    BY <1>3, <1>4, TypeInit DEF Init, RestInv, DeleteInv, IdleInv, IdleWorker

\* Steps of the two goroutines leave pods and cache alone.
LEMMA OwnSteps ==
    Reconcile \/ CleanupStaleFlows \/ PodFlowsFail \/ DeleteFails \/ CleanupFails
        => UNCHANGED <<pod, cache, port, pidEvent>>
<1>1. Reconcile => UNCHANGED <<pod, cache, port, pidEvent>>
    BY DEF Reconcile, Start, CheckBridge, DeletePodRailFlows, AddFlow, ClearExternalID, ReconcileDone
<1>2. CleanupStaleFlows => UNCHANGED <<pod, cache, port, pidEvent>>
    BY DEF CleanupStaleFlows, ListPods, CleanTag, CleanupDone, CleanupBridge, CleanFlows
<1> QED
    BY <1>1, <1>2 DEF PodFlowsFail, DeleteFails, CleanupFails

\* Pods go through their phases in order, and the cache follows.
LEMMA PastNext == TypeInv /\ PastInv /\ [Next]_vars => PastInv'
<1> SUFFICES ASSUME TypeInv, PastInv, [Next]_vars PROVE PastInv'
    OBVIOUS
<1>t. pod \in [Pods -> Pod] /\ cache \in [Pods -> Pod]
    BY DEF TypeInv, TypeOK
<1>1. CASE UNCHANGED <<pod, cache>>
    BY <1>1 DEF PastInv
<1>2. ASSUME NEW q \in Pods, CacheSync(q) \/ Cluster(q) PROVE PastInv'
    <2> USE <1>t DEF PastInv, Pod
    <2>1. CASE CacheSync(q)
        BY <2>1 DEF CacheSync
    <2>2. CASE Create(q)
        BY <2>2 DEF Create
    <2>3. CASE Publish(q)
        BY <2>3 DEF Publish
    <2>4. CASE DeletePod(q)
        BY <2>4 DEF DeletePod
    <2>5. CASE RemovePod(q)
        BY <2>5 DEF RemovePod
    <2>6. CASE UNCHANGED <<pod, cache>>
        BY <2>6
    <2> QED
        BY <1>2, <2>1, <2>2, <2>3, <2>4, <2>5, <2>6 DEF Cluster, Detach, Attach
<1>3. CASE Restart
    BY <1>3, <1>t DEF Restart, PastInv, Pod
<1> QED
    BY <1>1, <1>2, <1>3, OwnSteps DEF Next, vars, Failure, Notify, OvsRestart


\* What a reconcile's steps do to the worker: it starts idle with a pod taken
\* from the queue, stays with the pod, and ends idle.
LEMMA WorkerStep ==
    ASSUME TypeInv, IdleInv, Reconcile \/ PodFlowsFail \/ DeleteFails
    PROVE  \/ UNCHANGED worker
           \/ worker' = IdleWorker
           \/ /\ worker.pc = "idle" /\ worker'.pod \in queue
              /\ worker'.pc = IF cache[worker'.pod].phase = "deleting" THEN "delete" ELSE "check"
              /\ worker'.todo = Bridges /\ cache[worker'.pod].phase \in {"live", "deleting"}
           \/ /\ worker.pc # "idle" /\ worker'.pod = worker.pod /\ worker'.pc # "idle"
              /\ worker'.pc \in {"delete", "untag"} <=> worker.pc \in {"delete", "untag"}
<1>t. worker \in Worker
    BY DEF TypeInv, TypeOK
<1> USE <1>t
<1>1. ASSUME NEW p \in Pods, Start(p) PROVE
           \/ UNCHANGED worker
           \/ /\ worker.pc = "idle" /\ worker'.pod \in queue
              /\ worker'.pc = IF cache[worker'.pod].phase = "deleting" THEN "delete" ELSE "check"
              /\ worker'.todo = Bridges /\ cache[worker'.pod].phase \in {"live", "deleting"}
    BY <1>1 DEF Start, IdleWorker, Relevant
<1>2. CASE ReconcileDone
    BY <1>2 DEF ReconcileDone
<1> DEFINE Same == /\ worker.pc # "idle" /\ worker'.pod = worker.pod /\ worker'.pc # "idle"
                   /\ worker'.pc \in {"delete", "untag"} <=> worker.pc \in {"delete", "untag"}
<1>3. ASSUME NEW b \in Bridges, CheckBridge(b) PROVE Same
    BY <1>3 DEF CheckBridge, Worker
<1>4. ASSUME NEW b \in Bridges, DeletePodRailFlows(b) PROVE Same
    BY <1>4 DEF DeletePodRailFlows, Worker
<1>5. CASE AddFlow
    BY <1>5 DEF AddFlow, BridgeDone, Worker
<1>6. CASE ClearExternalID
    BY <1>6 DEF ClearExternalID, BridgeDone, Worker
<1>7. CASE PodFlowsFail
    BY <1>7 DEF PodFlowsFail, BridgeDone, Worker
<1>8. CASE DeleteFails
    BY <1>8 DEF DeleteFails, BridgeDone, Worker
<1> QED
    BY <1>1, <1>2, <1>3, <1>4, <1>5, <1>6, <1>7, <1>8 DEF Reconcile

\* The other steps leave the worker alone, or stop it.
LEMMA OtherSteps ==
    ASSUME CleanupStaleFlows \/ CleanupFails \/ Restart \/ OvsRestart \/ Notify \/ UNCHANGED vars
           \/ \E p \in Pods : CacheSync(p) \/ Cluster(p)
    PROVE  UNCHANGED worker \/ worker' = IdleWorker
    BY DEF CleanupStaleFlows, ListPods, CleanTag, CleanupDone, CleanupBridge, CleanFlows, CleanupFails,
           Restart, OvsRestart, Notify, vars, CacheSync, Cluster, Create, Publish, DeletePod, RemovePod,
           Detach, Attach

\* A deleted pod stays deleted.
LEMMA Phases ==
    ASSUME TypeInv, [Next]_vars, NEW p \in Pods, pod[p].phase \in {"deleting", "gone"}
    PROVE  pod'[p].phase \in {"deleting", "gone"}
<1>t. pod \in [Pods -> Pod]
    BY DEF TypeInv, TypeOK
<1>1. ASSUME NEW q \in Pods, Cluster(q) PROVE pod'[p].phase \in {"deleting", "gone"}
    BY <1>1, <1>t DEF Cluster, Create, Publish, DeletePod, RemovePod, Detach, Attach, Pod
<1> QED
    BY <1>1, OwnSteps DEF Next, vars, Failure, Notify, OvsRestart, Restart, CacheSync

\* Deletions are carried out of deleted pods, and idle means idle.
LEMMA DeleteNext == TypeInv /\ PastInv /\ DeleteInv /\ IdleInv /\ [Next]_vars => DeleteInv' /\ IdleInv'
<1> SUFFICES ASSUME TypeInv, PastInv, DeleteInv, IdleInv, [Next]_vars PROVE DeleteInv' /\ IdleInv'
    OBVIOUS
<1>1. CASE UNCHANGED worker
    <2>1. worker.pc \in {"delete", "untag"} => worker.pod \in Pods
        BY DEF TypeInv, AtHand
    <2> QED
        BY <1>1, <2>1, Phases DEF DeleteInv, IdleInv
<1>2. CASE worker' = IdleWorker
    BY <1>2 DEF IdleWorker, DeleteInv, IdleInv
<1>3. CASE Reconcile \/ PodFlowsFail \/ DeleteFails
    <2>1. worker.pc # "idle" => worker.pod \in Pods
        BY DEF TypeInv, AtHand
    <2>2. queue \subseteq Pods
        BY DEF TypeInv, TypeOK
    <2>3. pod' = pod
        BY <1>3, OwnSteps
    <2> QED
        BY <2>1, <2>2, <2>3, <1>1, <1>2, <1>3, WorkerStep DEF DeleteInv, IdleInv, PastInv
<1> QED
    BY <1>1, <1>2, <1>3, OtherSteps DEF Next, Failure


\* A live pod loses a tag to the Cleaner only, which leaves a trace in hit.
LEMMA TagsKept ==
    ASSUME TypeInv, DeleteInv, [Next]_vars, NEW p \in Pods, NEW b \in Bridges,
           pod[p].phase = "live", <<p, b>> \in tag
    PROVE  <<p, b>> \in tag' \/ p \in hit'
<1>1. CASE tag \subseteq tag'
    BY <1>1
<1>2. CASE ClearExternalID \/ DeleteFails
    <2>1. tag \ {<<worker.pod, worker.bridge>>} \subseteq tag'
        BY <1>2 DEF ClearExternalID, DeleteFails
    <2>2. worker.pc = "untag" \/ tag' = tag
        BY <1>2 DEF ClearExternalID, DeleteFails
    <2>3. worker.pc = "untag" => p # worker.pod
        BY DEF DeleteInv
    <2> QED
        BY <2>1, <2>2, <2>3, Untagged
<1>3. CASE CleanTag \/ CleanupFails
    <2>1. CASE tag' = tag
        BY <2>1
    <2>2. CASE cleaner.pc = "untag"
        <3>1. tag \ {<<cleaner.pod, cleaner.bridge>>} \subseteq tag' /\ Hit(cleaner.pod)
            BY <2>2, <1>3 DEF CleanTag, CleanupFails
        <3>2. CASE p = cleaner.pod
            BY <3>1, <3>2 DEF Hit
        <3>3. CASE p # cleaner.pod
            BY <3>1, <3>3, Untagged
        <3> QED
            BY <3>2, <3>3
    <2> QED
        BY <2>1, <2>2, <1>3 DEF CleanTag, CleanupFails
<1>4. CASE Reconcile
    BY <1>1, <1>2, <1>4 DEF Reconcile, Start, CheckBridge, DeletePodRailFlows, AddFlow, ReconcileDone
<1>5. CASE CleanupStaleFlows
    BY <1>1, <1>3, <1>5 DEF CleanupStaleFlows, ListPods, CleanupDone, CleanupBridge, CleanFlows
<1>6. CASE Failure
    BY <1>1, <1>2, <1>3, <1>6 DEF Failure, PodFlowsFail, Restart, OvsRestart
<1>7. ASSUME NEW q \in Pods, CacheSync(q) \/ Cluster(q) PROVE tag \subseteq tag'
    BY <1>7 DEF CacheSync, Cluster, Create, Publish, DeletePod, RemovePod, Detach, Attach
<1> QED
    BY <1>1, <1>4, <1>5, <1>6, <1>7 DEF Next, vars, Notify

\* Pods are remembered as hit.
LEMMA HitKept == [Next]_vars => hit \subseteq hit'
<1>1. Reconcile => hit \subseteq hit'
    BY DEF Reconcile, Start, CheckBridge, DeletePodRailFlows, AddFlow, ClearExternalID, ReconcileDone
<1>2. CleanupStaleFlows => hit \subseteq hit'
    BY DEF CleanupStaleFlows, ListPods, CleanTag, CleanupDone, CleanupBridge, CleanFlows, Hit
<1>3. Failure => hit \subseteq hit'
    BY DEF Failure, PodFlowsFail, DeleteFails, CleanupFails, Hit, Restart, OvsRestart
<1>4. ASSUME NEW q \in Pods, CacheSync(q) \/ Cluster(q) PROVE hit \subseteq hit'
    BY <1>4 DEF CacheSync, Cluster, Create, Publish, DeletePod, RemovePod, Detach, Attach
<1> QED
    BY <1>1, <1>2, <1>3, <1>4 DEF Next, vars, Notify

\* The CNI plugs a pod in before its status is published, and out after its
\* deletion.
LEMMA PlugNext == TypeInv /\ PastInv /\ DeleteInv /\ PlugInv /\ [Next]_vars => PlugInv'
<1> SUFFICES ASSUME TypeInv, PastInv, DeleteInv, PlugInv, [Next]_vars,
                    NEW p \in Pods, NEW b \in Bridges
             PROVE  /\ pod'[p].phase = "new" => <<p, b>> \notin port'
                    /\ pod'[p].phase = "live" /\ <<p, b>> \in port' => <<p, b>> \in tag' \/ p \in hit'
                    /\ pod'[p].phase = "live" /\ pod'[p].net => <<p, b>> \in port'
    BY DEF PlugInv
<1>t. pod \in [Pods -> Pod]
    BY DEF TypeInv, TypeOK
<1>h. /\ pod[p].phase = "live" /\ <<p, b>> \in tag => <<p, b>> \in tag' \/ p \in hit'
      /\ hit \subseteq hit'
    BY TagsKept, HitKept
<1>i. /\ pod[p].phase = "new" => <<p, b>> \notin port /\ ~pod[p].net
      /\ pod[p].phase = "live" /\ <<p, b>> \in port => <<p, b>> \in tag \/ p \in hit
      /\ pod[p].phase = "live" /\ pod[p].net => <<p, b>> \in port
    BY DEF PlugInv, PastInv
<1>1. CASE UNCHANGED <<pod, port>>
    BY <1>1, <1>h, <1>i
<1>2. ASSUME NEW q \in Pods, Cluster(q)
      PROVE  /\ pod'[p].phase = "new" => <<p, b>> \notin port'
             /\ pod'[p].phase = "live" /\ <<p, b>> \in port' => <<p, b>> \in tag' \/ p \in hit'
             /\ pod'[p].phase = "live" /\ pod'[p].net => <<p, b>> \in port'
    <2>1. CASE Create(q)
        <3>1. port' = port /\ pod' = [pod EXCEPT ![q].phase = "live"] /\ pod[q].phase = "new"
            BY <2>1 DEF Create
        <3> QED
            BY <3>1, <1>h, <1>i, <1>t DEF Pod
    <2>2. CASE Publish(q)
        <3>1. /\ port' = port /\ pod' = [pod EXCEPT ![q].net = TRUE] /\ pod[q].phase = "live"
              /\ <<q, b>> \in port
            BY <2>2 DEF Publish
        <3> QED
            BY <3>1, <1>h, <1>i, <1>t DEF Pod
    <2>3. CASE DeletePod(q)
        <3>1. port' = port /\ pod' = [pod EXCEPT ![q].phase = "deleting"]
            BY <2>3 DEF DeletePod
        <3> QED
            BY <3>1, <1>h, <1>i, <1>t DEF Pod
    <2>4. CASE RemovePod(q)
        <3>1. port' = port /\ pod' = [pod EXCEPT ![q].phase = "gone"]
            BY <2>4 DEF RemovePod
        <3> QED
            BY <3>1, <1>h, <1>i, <1>t DEF Pod
    <2>5. CASE Detach(q)
        <3>1. /\ pod' = pod /\ port' = port \ ({q} \X Bridges) /\ pod[q].phase \in {"deleting", "gone"}
            BY <2>5 DEF Detach
        <3> QED
            BY <3>1, <1>h, <1>i
    <2>6. ASSUME NEW c \in Bridges, Attach(q, c)
          PROVE  /\ pod'[p].phase = "new" => <<p, b>> \notin port'
                 /\ pod'[p].phase = "live" /\ <<p, b>> \in port' => <<p, b>> \in tag' \/ p \in hit'
                 /\ pod'[p].phase = "live" /\ pod'[p].net => <<p, b>> \in port'
        <3>1. /\ pod' = pod /\ port' = port \cup {<<q, c>>} /\ tag' = tag \cup {<<q, c>>}
              /\ pod[q].phase = "live" /\ hit' = hit
            BY <2>6 DEF Attach
        <3> QED
            BY <3>1, <1>i
    <2> QED
        BY <1>2, <2>1, <2>2, <2>3, <2>4, <2>5, <2>6 DEF Cluster
<1> QED
    BY <1>1, <1>2, OwnSteps DEF Next, vars, Failure, Notify, OvsRestart, Restart, CacheSync


\* What the pod is served by, spelled out.
LEMMA ServedMeans ==
    ASSUME ServedInv, NEW p \in Pods, ~Awaited(p), NEW b \in Bridges, NEW k \in FlowIDs, Added(p, b, k)
    PROVE  <<p, b, k>> \in flows
    BY DEF ServedInv, Served

\* A running pod is live, relevant and known to be so.
LEMMA RunningPod ==
    ASSUME NEW p \in Pods, Running(p)
    PROVE  pod[p].phase = "live" /\ pod[p].net /\ cache[p] = pod[p] /\ Relevant(cache[p])
<1>1. pod[p].phase = "live" /\ pod[p].net /\ cache[p] = pod[p]
    BY DEF Running
<1> QED
    BY <1>1 DEF Relevant

\* Deleting the flows of another pod keeps the flows of this one.
LEMMA OtherFlows ==
    ASSUME NEW F, NEW p, NEW q, NEW b, NEW c, NEW k, p # q, <<p, b, k>> \in F
    PROVE  <<p, b, k>> \in F \ FlowsOn(q, c)
    BY DEF FlowsOn

\* Steps that leave the worker, its queue and the pods alone, and the flows of
\* pods that are running and not hit.
LEMMA ServedApart ==
    ASSUME ServedInv, UNCHANGED <<worker, queue, pidEvent, pod, cache>>, hit \subseteq hit',
           \A p \in Pods, b \in Bridges, k \in FlowIDs :
               pod[p].phase = "live" /\ p \notin hit' /\ <<p, b, k>> \in flows => <<p, b, k>> \in flows'
    PROVE  ServedInv'
<1> SUFFICES ASSUME NEW p \in Pods, ~Awaited(p)', NEW b \in Bridges, NEW k \in FlowIDs, Added(p, b, k)'
             PROVE  <<p, b, k>> \in flows'
    BY DEF ServedInv, Served
<1>1. ~Awaited(p) /\ Added(p, b, k) /\ p \notin hit' /\ Running(p)
    BY DEF Awaited, Running, Added, Pending
<1> QED
    BY <1>1, ServedMeans, RunningPod

\* A cleanup takes the flows of no running pod without leaving a trace.
LEMMA ServedCleanup == RestInv /\ (CleanupStaleFlows \/ CleanupFails) => ServedInv'
<1> SUFFICES ASSUME RestInv, CleanupStaleFlows \/ CleanupFails PROVE ServedInv'
    OBVIOUS
<1>1. UNCHANGED <<worker, queue, pidEvent, pod, cache>>
    BY DEF CleanupStaleFlows, ListPods, CleanTag, CleanupDone, CleanupBridge, CleanFlows, CleanupFails
<1>2. hit \subseteq hit'
    BY HitKept DEF Next, Failure
<1>3. ASSUME NEW q \in Pods, Hit(q), flows \ FlowsOn(q, cleaner.bridge) \subseteq flows',
             NEW p \in Pods, NEW b \in Bridges, NEW k \in FlowIDs,
             pod[p].phase = "live", p \notin hit', <<p, b, k>> \in flows
      PROVE  <<p, b, k>> \in flows'
    <2>1. p # q
        BY <1>3 DEF Hit
    <2> QED
        BY <2>1, <1>3, OtherFlows
<1>4. CASE flows' = flows
    BY <1>4, <1>1, <1>2, ServedApart DEF RestInv
<1>5. CASE \E q \in Pods : Hit(q) /\ flows \ FlowsOn(q, cleaner.bridge) \subseteq flows'
    BY <1>5, <1>3, <1>1, <1>2, ServedApart DEF RestInv
<1>6. cleaner.stale \subseteq Pods
    BY DEF RestInv, TypeInv, TypeOK, Cleaner
<1>7. CASE CleanupFails
    BY <1>7, <1>6, <1>4, <1>5 DEF CleanupFails
<1>8. ASSUME NEW q \in Pods, CleanFlows(q) PROVE ServedInv'
    BY <1>8, <1>5 DEF CleanFlows
<1> QED
    BY <1>4, <1>7, <1>8 DEF CleanupStaleFlows, ListPods, CleanTag, CleanupDone, CleanupBridge

\* Events and restarts await the pods whose flows they concern.
LEMMA ServedEvents ==
    RestInv /\ (Notify \/ Restart \/ OvsRestart \/ UNCHANGED vars
                \/ \E q \in Pods : CacheSync(q) \/ Cluster(q)) => ServedInv'
<1> SUFFICES ASSUME RestInv, NEW p \in Pods, ~Awaited(p)',
                    Notify \/ Restart \/ OvsRestart \/ UNCHANGED vars
                    \/ \E q \in Pods : CacheSync(q) \/ Cluster(q)
             PROVE  \A b \in Bridges, k \in FlowIDs : Added(p, b, k)' => <<p, b, k>> \in flows'
    BY DEF ServedInv, Served
<1>r. /\ pod'[p].phase = "live" /\ pod'[p].net /\ cache'[p] = pod'[p] /\ Relevant(cache'[p])
      /\ p \notin queue' /\ p \notin hit' /\ ~pidEvent'
    <2>1. Running(p)' /\ p \notin queue' /\ p \notin hit' /\ ~pidEvent'
        BY DEF Awaited
    <2>2. pod'[p] = [phase |-> "live", net |-> TRUE] /\ cache'[p] = pod'[p]
        BY <2>1 DEF Running
    <2>3. pod'[p].phase = "live" /\ pod'[p].net
        BY <2>2
    <2> QED
        BY <2>1, <2>2, <2>3 DEF Relevant
<1>t. pod \in [Pods -> Pod] /\ cache \in [Pods -> Pod]
    BY DEF RestInv, TypeInv, TypeOK
<1>1. CASE Notify \/ Restart \/ OvsRestart
    BY <1>1, <1>r DEF Notify, Restart, OvsRestart
<1>2. CASE UNCHANGED <<flows, worker>> /\ ~Awaited(p)
    BY <1>2, ServedMeans DEF RestInv, Added, Pending
<1>3. CASE UNCHANGED <<pod, cache, flows, worker, queue, hit, pidEvent>>
    <2>1. ~Awaited(p)
        BY <1>3 DEF Awaited, Running
    <2> QED
        BY <2>1, <1>2, <1>3
<1>4. ASSUME NEW q \in Pods, CacheSync(q) \/ Cluster(q) PROVE UNCHANGED <<flows, worker>> /\ ~Awaited(p)
    <2>1. UNCHANGED <<flows, worker, hit, pidEvent>> /\ queue \subseteq queue'
        BY <1>4 DEF CacheSync, Cluster, Create, Publish, DeletePod, RemovePod, Detach, Attach
    <2>2. CASE pod'[p] = pod[p] /\ cache'[p] = cache[p]
        BY <2>1, <2>2 DEF Awaited, Running
    <2>3. CASE CacheSync(q) /\ p = q
        BY <2>3, <1>r, <1>t DEF CacheSync
    <2>4. CASE Create(q) /\ p = q
        <3>1. pod'[p].net = pod[p].net /\ pod[p].phase = "new"
            BY <2>4, <1>t DEF Create, Pod
        <3> QED
            BY <3>1, <1>r DEF RestInv, PastInv
    <2>5. CASE Publish(q) /\ p = q
        <3>1. ~pod[p].net /\ cache' = cache
            BY <2>5 DEF Publish
        <3>2. cache[p].net
            BY <3>1, <1>r
        <3> QED
            BY <3>1, <3>2 DEF RestInv, PastInv
    <2>6. CASE (DeletePod(q) \/ RemovePod(q)) /\ p = q
        BY <2>6, <1>r, <1>t DEF DeletePod, RemovePod, Pod
    <2>7. CASE p # q \/ UNCHANGED <<pod, cache>>
        <3>1. pod'[p] = pod[p] /\ cache'[p] = cache[p]
            BY <2>7, <1>4, <1>t DEF CacheSync, Cluster, Create, Publish, DeletePod, RemovePod, Detach, Attach
        <3> QED
            BY <3>1, <2>2
    <2> QED
        BY <1>4, <2>1, <2>3, <2>4, <2>5, <2>6, <2>7 DEF Cluster, Detach, Attach
<1> QED
    BY <1>1, <1>2, <1>3, <1>4 DEF vars


\* A reconcile adds what is missing, and returns an error where it has not.
LEMMA ServedReconcile == RestInv /\ (Reconcile \/ PodFlowsFail \/ DeleteFails) => ServedInv'
<1> SUFFICES ASSUME RestInv, Reconcile \/ PodFlowsFail \/ DeleteFails,
                    NEW p \in Pods, ~Awaited(p)', NEW b \in Bridges, NEW k \in FlowIDs, Added(p, b, k)'
             PROVE  <<p, b, k>> \in flows'
    BY DEF ServedInv, Served
<1>t. worker \in Worker /\ queue \subseteq Pods /\ k \in 1..3
    BY DEF RestInv, TypeInv, TypeOK, FlowIDs
<1>u. UNCHANGED <<pod, cache, port, pidEvent>> /\ hit \subseteq hit'
    BY OwnSteps, HitKept DEF Next, Failure
<1>r. Running(p) /\ pod[p].phase = "live" /\ pod[p].net /\ Relevant(cache[p]) /\ cache[p] = pod[p]
    <2>1. Running(p)
        BY <1>u DEF Awaited, Running
    <2> QED
        BY <2>1, RunningPod
<1>a. p \in queue \/ ~Awaited(p)
    BY <1>u, <1>r DEF Awaited
<1>p. ~Awaited(p) /\ Added(p, b, k) => <<p, b, k>> \in flows
    BY ServedMeans DEF RestInv
<1>d. worker.pc \in {"delete", "untag"} => worker.pod # p
    BY <1>r DEF RestInv, DeleteInv
<1>1. ASSUME NEW q \in Pods, Start(q) PROVE <<p, b, k>> \in flows'
    <2>0. worker.pod # p /\ flows' = flows /\ queue' = queue \ {q}
        BY <1>1, NoneAssumption DEF Start, RestInv, IdleInv
    <2>1. CASE p = q
        <3>1. /\ worker'.pod = p /\ worker'.todo = Bridges /\ worker'.pc = "check"
            BY <2>1, <1>1, <1>r DEF Start, IdleWorker
        <3> QED
            BY <3>1 DEF Added, Pending
    <2>2. CASE p # q
        <3>1. ~Awaited(p)
            BY <2>0, <2>2, <1>a DEF Awaited
        <3> QED
            BY <3>1, <2>0, <1>p DEF Added
    <2> QED
        BY <2>1, <2>2
<1>q. ASSUME queue \subseteq queue' PROVE ~Awaited(p)
    BY <1>q, <1>a DEF Awaited
<1>2. ASSUME NEW c \in Bridges, CheckBridge(c) PROVE <<p, b, k>> \in flows'
    <2>0. flows' = flows /\ ~Awaited(p)
        BY <1>2, <1>q DEF CheckBridge
    <2>1. CASE worker.pod # p
        BY <2>0, <2>1, <1>p DEF Added
    <2>2. CASE worker.pod = p
        <3>1. <<p, c>> \in port \cap tag
            BY <1>r, <2>0 DEF RestInv, PlugInv, Awaited
        <3>2. /\ worker'.pc = "add" /\ worker'.pod = p /\ worker'.todo = worker.todo
              /\ worker'.failed = worker.failed /\ worker'.flow = 1
            BY <3>1, <2>2, <1>2, <1>t DEF CheckBridge, Worker
        <3>3. Added(p, b, k)
            BY <3>2, <2>2, <1>t DEF Added, Pending
        <3> QED
            BY <3>3, <2>0, <1>p
    <2> QED
        BY <2>1, <2>2
<1>3. ASSUME NEW c \in Bridges, DeletePodRailFlows(c) PROVE <<p, b, k>> \in flows'
    <2>1. worker.pod # p /\ ~Awaited(p) /\ flows \ FlowsOn(worker.pod, c) \subseteq flows'
        BY <1>3, <1>d, <1>q DEF DeletePodRailFlows
    <2> QED
        BY <2>1, <1>p, OtherFlows DEF Added
<1>4. CASE AddFlow
    <2>0. worker.pc = "add" /\ flows \subseteq flows' /\ ~Awaited(p)
        BY <1>4, <1>q DEF AddFlow
    <2>1. CASE worker.pod # p
        BY <2>0, <2>1, <1>p DEF Added
    <2>2. CASE worker.pod = p
        <3>0. worker.bridge \in Bridges /\ worker.flow \in 1..3
            BY <2>0, <1>t DEF RestInv, TypeInv, AtHand, Worker, FlowIDs
        <3>1. <<p, worker.bridge>> \in port
            BY <1>r, <3>0 DEF RestInv, PlugInv
        <3>2. flows' = flows \cup {<<p, worker.bridge, worker.flow>>}
            BY <3>1, <2>2, <1>4 DEF AddFlow
        <3>3. CASE worker.flow < 3
            <4>1. worker' = [worker EXCEPT !.flow = @ + 1]
                BY <3>1, <3>3, <2>2, <1>4 DEF AddFlow
            <4>2. /\ worker'.pc = "add" /\ worker'.pod = p /\ worker'.todo = worker.todo
                  /\ worker'.failed = worker.failed /\ worker'.flow = worker.flow + 1
                  /\ worker'.bridge = worker.bridge
                BY <4>1, <2>0, <2>2, <1>t DEF Worker
            <4>3. Added(p, b, k) \/ (b = worker.bridge /\ k = worker.flow)
                BY <4>2, <2>0, <2>2, <1>t, <3>0 DEF Added, Pending
            <4> QED
                BY <4>3, <3>2, <2>0, <1>p
        <3>4. CASE ~(worker.flow < 3)
            <4>1. BridgeDone("check", {})
                BY <3>1, <3>4, <2>2, <1>4 DEF AddFlow
            <4>2. /\ worker'.pc = "check" /\ worker'.pod = p /\ worker'.todo = worker.todo \ {worker.bridge}
                  /\ worker'.failed = worker.failed
                BY <4>1, <2>2, <1>t DEF BridgeDone, Worker
            <4>3. Added(p, b, k) \/ (b = worker.bridge /\ k = worker.flow)
                BY <4>2, <2>0, <2>2, <1>t, <3>0, <3>4 DEF Added, Pending
            <4> QED
                BY <4>3, <3>2, <2>0, <1>p
        <3> QED
            BY <3>3, <3>4
    <2> QED
        BY <2>1, <2>2
<1>5. CASE ClearExternalID
    BY <1>5, <1>d, <1>q, <1>p DEF ClearExternalID, Added
<1>6. CASE ReconcileDone
    <2>0. flows' = flows /\ ~Awaited(p)
        BY <1>6, <1>q DEF ReconcileDone
    <2>1. CASE worker.pod # p
        BY <2>0, <2>1, <1>p DEF Added
    <2>2. CASE worker.pod = p
        <3>1. worker.failed = {} /\ worker.todo = {}
            BY <2>2, <1>6 DEF ReconcileDone, Awaited
        <3> QED
            BY <3>1, <2>0, <1>p DEF Added, Pending
    <2> QED
        BY <2>1, <2>2
<1>7. CASE PodFlowsFail
    <2>0. flows \subseteq flows' /\ ~Awaited(p)
        BY <1>7, <1>q DEF PodFlowsFail
    <2>1. CASE worker.pod # p
        BY <2>0, <2>1, <1>p DEF Added
    <2>2. CASE worker.pod = p
        <3>1. /\ worker'.pc = "check" /\ worker'.pod = p
              /\ worker.todo \cup worker.failed \subseteq worker'.todo \cup worker'.failed
            <4>1. PICK c : worker' = [worker EXCEPT !.todo = @ \ {c}, !.failed = @ \cup {c}]
                           \/ BridgeDone("check", {worker.bridge})
                BY <1>7 DEF PodFlowsFail
            <4>2. CASE BridgeDone("check", {worker.bridge})
                BY <4>2, <2>2, <1>t DEF BridgeDone, Worker
            <4>3. CASE worker' = [worker EXCEPT !.todo = @ \ {c}, !.failed = @ \cup {c}] /\ worker.pc = "check"
                BY <4>3, <2>2, <1>t DEF Worker
            <4> QED
                BY <4>1, <4>2, <4>3, <1>7 DEF PodFlowsFail
        <3>2. Added(p, b, k)
            BY <3>1 DEF Added, Pending
        <3> QED
            BY <3>2, <2>0, <1>p
    <2> QED
        BY <2>1, <2>2
<1>8. CASE DeleteFails
    <2>1. worker.pod # p /\ ~Awaited(p)
        BY <1>8, <1>d, <1>q DEF DeleteFails
    <2>2. flows' = flows \/ \E c \in Bridges : flows' = flows \ FlowsOn(worker.pod, c)
        BY <1>8, <1>t DEF DeleteFails, Worker
    <2> QED
        BY <2>1, <2>2, <1>p, OtherFlows DEF Added
<1> QED
    BY <1>1, <1>2, <1>3, <1>4, <1>5, <1>6, <1>7, <1>8 DEF Reconcile

\* Every step keeps the pods at rest served.
LEMMA RestNext == RestInv /\ [Next]_vars => RestInv'
<1> SUFFICES ASSUME RestInv, [Next]_vars PROVE RestInv'
    OBVIOUS
<1>1. ServedInv'
    BY ServedCleanup, ServedEvents, ServedReconcile DEF Next, Failure
<1> QED
    BY <1>1, TypeNext, PastNext, DeleteNext, PlugNext DEF RestInv

\* For any pods, bridges, failures and restarts: a running pod that is neither
\* queued nor being reconciled, with no restart of Open vSwitch unnoticed, has
\* all its flows on all bridges, unless the Cleaner has mistaken it for a stale
\* one (Reconcile, handlePodFlows, the pid file watcher's events).
THEOREM RestIsServed == Spec => []RestsServed
<1>1. RestInv => RestsServed
    <2> SUFFICES ASSUME RestInv, NEW p \in Pods, Running(p), AtRest(p), p \notin hit,
                        NEW b \in Bridges, NEW k \in FlowIDs
                 PROVE  <<p, b, k>> \in flows
        BY DEF RestsServed
    <2> QED
        BY ServedMeans DEF RestInv, AtRest, Awaited, Added
<1> QED
    BY <1>1, RestInit, RestNext, PTL DEF Spec

=============================================================================
