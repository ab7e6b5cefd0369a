------------------------------ MODULE PodFlows ------------------------------
(***************************************************************************)
(* The flows of pods on the rail bridges of one node.                      *)
(*                                                                         *)
(* The rail CNI plugs a pod into rail bridges and tags each bridge with    *)
(* the pod's UID (an external id).  The FlowReconciler adds three flows    *)
(* per tagged bridge and removes flows and tag when the pod is deleted;    *)
(* the Cleaner removes every few minutes what pods no longer in the cache  *)
(* have left; a watcher of ovs-vswitchd's pid file has all pods reconciled *)
(* again when Open vSwitch restarts and has lost its flows.  Reconciler    *)
(* and Cleaner are two goroutines that share nothing but Open vSwitch and  *)
(* run one command at a time.                                              *)
(*                                                                         *)
(* The kubelet, the CNI plugins, the informers and Open vSwitch are        *)
(* external and modelled by how this code uses them.                       *)
(***************************************************************************)
EXTENDS Naturals

CONSTANTS
    Pods,          \* UIDs of the node's rail pods; a pod is plugged into all bridges
    Bridges,       \* rail bridges
    None,          \* no pod, no bridge
    Residents,     \* the node always has other pods, such as the flowcontroller's
    MaxFaults,     \* bound: failed commands and flowcontroller restarts
    MaxRestarts    \* bound: restarts of Open vSwitch

ASSUME NoneAssumption == None \notin Pods /\ None \notin Bridges
ASSUME BoundsAssumption == Residents \in BOOLEAN /\ MaxFaults \in Nat /\ MaxRestarts \in Nat

VARIABLES
    pod,      \* pod[p]: the pod as the API server stores it
    cache,    \* cache[p]: the pod in the flowcontroller's informer cache
    port,     \* pairs of a pod and a bridge it has a port on
    tag,      \* pairs of a pod and a bridge tagged with its UID
    flows,    \* triples of a pod, a bridge and one of the pod's flows there
    queue,    \* pods in the reconciler's work queue
    worker,   \* the reconcile in progress
    cleaner,  \* the cleanup in progress
    pidEvent, \* the pid file has changed and the watcher has not noticed
    hit,      \* history: pods cleaned up while alive or being reconciled
    spent     \* faults and restarts so far

vars == <<pod, cache, port, tag, flows, queue, worker, cleaner, pidEvent, hit, spent>>

-----------------------------------------------------------------------------
\* net: the network-status annotation, with the pod's interfaces, is there.
Pod == [phase : {"new", "live", "deleting", "gone"}, net : BOOLEAN]

NewPod == [phase |-> "new", net |-> FALSE]

\* isPodRelevant: on this node, which holds of all of Pods, and annotated.
Relevant(p) == p.phase \in {"live", "deleting"} /\ p.net

\* The flows AddPodRailFlows adds, in this order: ARP and IP to the pod, IP
\* from the pod.
FlowIDs == 1..3

Worker == [pc     : {"idle", "check", "add", "delete", "untag"},
           pod    : Pods \cup {None},
           todo   : SUBSET Bridges,        \* bridges left
           bridge : Bridges \cup {None},   \* the bridge at hand
           flow   : FlowIDs,               \* the flow to add next
           failed : SUBSET Bridges]        \* bridges with an error to return

IdleWorker == [pc |-> "idle", pod |-> None, todo |-> {}, bridge |-> None, flow |-> 1, failed |-> {}]

Cleaner == [pc     : {"idle", "bridges", "stale", "untag"},
            known  : SUBSET Pods,          \* existingPods
            todo   : SUBSET Bridges,
            bridge : Bridges \cup {None},
            stale  : SUBSET Pods,          \* stalePods of the bridge
            pod    : Pods \cup {None}]     \* the stale pod at hand

IdleCleaner == [pc |-> "idle", known |-> {}, todo |-> {}, bridge |-> None, stale |-> {}, pod |-> None]

FlowsOn(p, b) == {p} \X {b} \X FlowIDs

Fault == spent.faults < MaxFaults /\ spent' = [spent EXCEPT !.faults = @ + 1]

-----------------------------------------------------------------------------
(* FlowReconciler. *)

\* A deleted pod has its flows deleted on all bridges; a live one with network
\* status has flows added; of any other nothing is left to do.
Start(p) ==
    /\ worker.pc = "idle"
    /\ p \in queue
    /\ queue' = queue \ {p}
    /\ worker' = IF ~Relevant(cache[p]) THEN worker
                 ELSE [IdleWorker EXCEPT !.pc = IF cache[p].phase = "deleting" THEN "delete" ELSE "check",
                                         !.pod = p, !.todo = Bridges]
    /\ UNCHANGED <<pod, cache, port, tag, flows, cleaner, pidEvent, hit, spent>>

\* handlePodFlows, one interface: without a port there is an error, a bridge
\* that does not carry the pod's tag is skipped.
CheckBridge(b) ==
    /\ worker.pc = "check" /\ b \in worker.todo
    /\ IF <<worker.pod, b>> \in port \cap tag
       THEN /\ worker' = [worker EXCEPT !.pc = "add", !.bridge = b, !.flow = 1]
            /\ hit' = hit \cup ({worker.pod} \cap {cleaner.pod})
       ELSE /\ worker' = [worker EXCEPT !.todo = @ \ {b},
                                         !.failed = IF <<worker.pod, b>> \in port THEN @ ELSE @ \cup {b}]
            /\ UNCHANGED hit
    /\ UNCHANGED <<pod, cache, port, tag, flows, queue, cleaner, pidEvent, spent>>

\* The worker is through with the bridge at hand.
BridgeDone(pc, failed) ==
    worker' = [worker EXCEPT !.pc = pc, !.todo = @ \ {worker.bridge}, !.bridge = None, !.flow = 1,
                             !.failed = @ \cup failed]

\* Variant: one flow too many.
AddFlowMore ==
    /\ worker.pc = "add"
    /\ IF <<worker.pod, worker.bridge>> \in port
       THEN /\ flows' = flows \cup {<<worker.pod, worker.bridge, worker.flow>>}
            /\ IF worker.flow <= 3 THEN worker' = [worker EXCEPT !.flow = @ + 1]
               ELSE BridgeDone("check", {})
       ELSE BridgeDone("check", {worker.bridge}) /\ UNCHANGED flows
    /\ UNCHANGED <<pod, cache, port, tag, queue, cleaner, pidEvent, hit, spent>>

\* One add-flow of AddPodRailFlows, which fails if the port has gone.
AddFlow ==
    /\ worker.pc = "add"
    /\ IF <<worker.pod, worker.bridge>> \in port
       THEN /\ flows' = flows \cup {<<worker.pod, worker.bridge, worker.flow>>}
            /\ IF worker.flow < 3 THEN worker' = [worker EXCEPT !.flow = @ + 1]
               ELSE BridgeDone("check", {})
       ELSE BridgeDone("check", {worker.bridge}) /\ UNCHANGED flows
    /\ UNCHANGED <<pod, cache, port, tag, queue, cleaner, pidEvent, hit, spent>>

\* Variant: an error of AddPodRailFlows is not among those returned.
PodFlowsFailSwallowed ==
    /\ Fault
    /\ \/ /\ worker.pc = "check"
          /\ \E b \in worker.todo : worker' = [worker EXCEPT !.todo = @ \ {b}, !.failed = @ \cup {b}]
          /\ UNCHANGED flows
       \/ /\ worker.pc = "add"
          /\ flows' \in {flows, flows \cup {<<worker.pod, worker.bridge, worker.flow>>}}
          /\ BridgeDone("check", {})
    /\ UNCHANGED <<pod, cache, port, tag, queue, cleaner, pidEvent, hit>>

\* A command fails: the interface is given up, the others are still tried.
PodFlowsFail ==
    /\ Fault
    /\ \/ /\ worker.pc = "check"
          /\ \E b \in worker.todo : worker' = [worker EXCEPT !.todo = @ \ {b}, !.failed = @ \cup {b}]
          /\ UNCHANGED flows
       \/ /\ worker.pc = "add"
          /\ flows' \in {flows, flows \cup {<<worker.pod, worker.bridge, worker.flow>>}}
          /\ BridgeDone("check", {worker.bridge})
    /\ UNCHANGED <<pod, cache, port, tag, queue, cleaner, pidEvent, hit>>

\* The reconcile returns; an error has the pod queued again, but those of a
\* deletion are only logged.
ReconcileDone ==
    /\ worker.pc \in {"check", "delete"} /\ worker.todo = {}
    /\ queue' = IF worker.failed # {} THEN queue \cup {worker.pod} ELSE queue
    /\ worker' = IdleWorker
    /\ UNCHANGED <<pod, cache, port, tag, flows, cleaner, pidEvent, hit, spent>>

\* DeletePodRailFlows, one bridge: if it carries the tag, its flows go ...
DeletePodRailFlows(b) ==
    /\ worker.pc = "delete" /\ b \in worker.todo
    /\ IF <<worker.pod, b>> \in tag
       THEN /\ flows' = flows \ FlowsOn(worker.pod, b)
            /\ worker' = [worker EXCEPT !.pc = "untag", !.bridge = b]
       ELSE worker' = [worker EXCEPT !.todo = @ \ {b}] /\ UNCHANGED flows
    /\ UNCHANGED <<pod, cache, port, tag, queue, cleaner, pidEvent, hit, spent>>

\* ... then the tag.
ClearExternalID ==
    /\ worker.pc = "untag"
    /\ tag' = tag \ {<<worker.pod, worker.bridge>>}
    /\ BridgeDone("delete", {})
    /\ UNCHANGED <<pod, cache, port, flows, queue, cleaner, pidEvent, hit, spent>>

\* Variant: the tag goes although its flows could not be deleted.
DeleteFailsUntagging ==
    /\ Fault
    /\ worker.pc = "delete"
    /\ \E b \in worker.todo :
         /\ tag' = tag \ {<<worker.pod, b>>}
         /\ worker' = [worker EXCEPT !.todo = @ \ {b}]
    /\ UNCHANGED <<pod, cache, port, flows, queue, cleaner, pidEvent, hit>>

\* A command fails, with or without effect: the bridge is left as it is; if
\* the bridges cannot be listed, all are.
DeleteFails ==
    /\ Fault
    /\ \/ /\ worker.pc = "delete"
          /\ \E b \in worker.todo :
               /\ flows' \in {flows, IF <<worker.pod, b>> \in tag THEN flows \ FlowsOn(worker.pod, b) ELSE flows}
               /\ worker' = [worker EXCEPT !.todo = @ \ {b}]
          /\ UNCHANGED tag
       \/ /\ worker.pc = "delete" /\ worker.todo = Bridges
          /\ worker' = [worker EXCEPT !.todo = {}]
          /\ UNCHANGED <<tag, flows>>
       \/ /\ worker.pc = "untag"
          /\ tag' \in {tag, tag \ {<<worker.pod, worker.bridge>>}}
          /\ BridgeDone("delete", {})
          /\ UNCHANGED flows
    /\ UNCHANGED <<pod, cache, port, queue, cleaner, pidEvent, hit>>

-----------------------------------------------------------------------------
(* Cleaner. *)

\* cleanupStaleFlows lists the pods of the cache; with none it does nothing.
ListPods ==
    /\ cleaner.pc = "idle"
    /\ LET known == {p \in Pods : cache[p].phase \in {"live", "deleting"}}
       IN  /\ known # {} \/ Residents
           /\ cleaner' = [IdleCleaner EXCEPT !.pc = "bridges", !.known = known, !.todo = Bridges]
    /\ UNCHANGED <<pod, cache, port, tag, flows, queue, worker, pidEvent, hit, spent>>

\* Variant: only pods with flows are considered.
CleanupBridgeWithFlows(b) ==
    LET stale == {p \in Pods : <<p, b>> \in tag /\ FlowsOn(p, b) \cap flows # {}} \ cleaner.known
    IN  /\ cleaner.pc = "bridges" /\ b \in cleaner.todo
        /\ cleaner' = IF stale = {} THEN [cleaner EXCEPT !.todo = @ \ {b}]
                      ELSE [cleaner EXCEPT !.pc = "stale", !.bridge = b, !.stale = stale]
        /\ UNCHANGED <<pod, cache, port, tag, flows, queue, worker, pidEvent, hit, spent>>

\* CleanupStaleFlowsForBridges, one bridge: its tags of unknown pods are stale.
CleanupBridge(b) ==
    LET stale == {p \in Pods : <<p, b>> \in tag} \ cleaner.known
    IN  /\ cleaner.pc = "bridges" /\ b \in cleaner.todo
        /\ cleaner' = IF stale = {} THEN [cleaner EXCEPT !.todo = @ \ {b}]
                      ELSE [cleaner EXCEPT !.pc = "stale", !.bridge = b, !.stale = stale]
        /\ UNCHANGED <<pod, cache, port, tag, flows, queue, worker, pidEvent, hit, spent>>

\* The history of a cleanup of pod p: p is alive, or its reconcile is running.
Hit(p) == hit' = IF pod[p].phase = "live" \/ worker.pod = p THEN hit \cup {p} ELSE hit

\* The cleaner is through with pod p on the bridge at hand.
PodDone(p) ==
    cleaner' = IF cleaner.stale = {p}
               THEN [cleaner EXCEPT !.pc = "bridges", !.todo = @ \ {cleaner.bridge},
                                    !.bridge = None, !.stale = {}, !.pod = None]
               ELSE [cleaner EXCEPT !.pc = "stale", !.stale = @ \ {p}, !.pod = None]

\* cleanBridgeFlows for a stale pod: its flows go ...
CleanFlows(p) ==
    /\ cleaner.pc = "stale" /\ p \in cleaner.stale
    /\ flows' = flows \ FlowsOn(p, cleaner.bridge)
    /\ cleaner' = [cleaner EXCEPT !.pc = "untag", !.pod = p]
    /\ Hit(p)
    /\ UNCHANGED <<pod, cache, port, tag, queue, worker, pidEvent, spent>>

\* ... then the tag.
CleanTag ==
    /\ cleaner.pc = "untag"
    /\ tag' = tag \ {<<cleaner.pod, cleaner.bridge>>}
    /\ PodDone(cleaner.pod)
    /\ Hit(cleaner.pod)
    /\ UNCHANGED <<pod, cache, port, flows, queue, worker, pidEvent, spent>>

CleanupDone ==
    /\ cleaner.pc = "bridges" /\ cleaner.todo = {}
    /\ cleaner' = IdleCleaner
    /\ UNCHANGED <<pod, cache, port, tag, flows, queue, worker, pidEvent, hit, spent>>

\* A command fails, with or without effect: the bridge or the pod is skipped;
\* if the bridges cannot be listed, the cleanup ends.
CleanupFails ==
    /\ Fault
    /\ \/ /\ cleaner.pc = "bridges"
          /\ \/ \E b \in cleaner.todo : cleaner' = [cleaner EXCEPT !.todo = @ \ {b}]
             \/ cleaner.todo = Bridges /\ cleaner' = IdleCleaner
          /\ UNCHANGED <<tag, flows, hit>>
       \/ /\ cleaner.pc = "stale"
          /\ \E p \in cleaner.stale :
               /\ flows' \in {flows, flows \ FlowsOn(p, cleaner.bridge)}
               /\ PodDone(p) /\ Hit(p)
          /\ UNCHANGED tag
       \/ /\ cleaner.pc = "untag"
          /\ tag' \in {tag, tag \ {<<cleaner.pod, cleaner.bridge>>}}
          /\ PodDone(cleaner.pod) /\ Hit(cleaner.pod)
          /\ UNCHANGED flows
    /\ UNCHANGED <<pod, cache, port, queue, worker, pidEvent>>

-----------------------------------------------------------------------------
(* Events. *)

\* A pod changes in the cache; only relevant pods are queued.
CacheSync(p) ==
    /\ cache[p] # pod[p]
    /\ cache' = [cache EXCEPT ![p] = pod[p]]
    /\ queue' = IF pod[p].net THEN queue \cup {p} ELSE queue
    /\ UNCHANGED <<pod, port, tag, flows, worker, cleaner, pidEvent, hit, spent>>

\* Variant: the event reaches only pods that are not queued for another reason
\* and that no reconcile is busy with.
NotifyIdle ==
    /\ pidEvent
    /\ pidEvent' = FALSE
    /\ queue' = queue \cup {p \in Pods \ {worker.pod} : Relevant(cache[p])}
    /\ UNCHANGED <<pod, cache, port, tag, flows, worker, cleaner, hit, spent>>

\* The pid file watcher notices a restart of ovs-vswitchd: all relevant pods
\* are queued.
Notify ==
    /\ pidEvent
    /\ pidEvent' = FALSE
    /\ queue' = queue \cup {p \in Pods : Relevant(cache[p])}
    /\ UNCHANGED <<pod, cache, port, tag, flows, worker, cleaner, hit, spent>>

\* Open vSwitch restarts: its database stays, its flows are lost.
OvsRestart ==
    /\ spent.restarts < MaxRestarts
    /\ spent' = [spent EXCEPT !.restarts = @ + 1]
    /\ flows' = {}
    /\ pidEvent' = TRUE
    /\ UNCHANGED <<pod, cache, port, tag, queue, worker, cleaner, hit>>

\* The flowcontroller restarts, with a fresh cache and all its pods queued.
Restart ==
    /\ Fault
    /\ worker' = IdleWorker /\ cleaner' = IdleCleaner
    /\ cache' = pod
    /\ queue' = {p \in Pods : Relevant(pod[p])}
    /\ pidEvent' = FALSE
    /\ UNCHANGED <<pod, port, tag, flows, hit>>

-----------------------------------------------------------------------------
(* The kubelet and the CNI plugins. *)

Create(p) ==
    /\ pod[p].phase = "new"
    /\ pod' = [pod EXCEPT ![p].phase = "live"]
    /\ UNCHANGED <<cache, port, tag, flows, queue, worker, cleaner, pidEvent, hit, spent>>

\* The pod's interfaces are plugged one by one, before its status is published.
Attach(p, b) ==
    /\ pod[p].phase = "live" /\ ~pod[p].net
    /\ <<p, b>> \notin port
    /\ port' = port \cup {<<p, b>>}
    /\ tag' = tag \cup {<<p, b>>}
    /\ UNCHANGED <<pod, cache, flows, queue, worker, cleaner, pidEvent, hit, spent>>

Publish(p) ==
    /\ pod[p].phase = "live" /\ ~pod[p].net
    /\ {p} \X Bridges \subseteq port
    /\ pod' = [pod EXCEPT ![p].net = TRUE]
    /\ UNCHANGED <<cache, port, tag, flows, queue, worker, cleaner, pidEvent, hit, spent>>

DeletePod(p) ==
    /\ pod[p].phase = "live"
    /\ pod' = [pod EXCEPT ![p].phase = "deleting"]
    /\ UNCHANGED <<cache, port, tag, flows, queue, worker, cleaner, pidEvent, hit, spent>>

\* The pod object goes, after its interfaces or, when forced, before.
RemovePod(p) ==
    /\ pod[p].phase = "deleting"
    /\ pod' = [pod EXCEPT ![p].phase = "gone"]
    /\ UNCHANGED <<cache, port, tag, flows, queue, worker, cleaner, pidEvent, hit, spent>>

Detach(p) ==
    /\ pod[p].phase \in {"deleting", "gone"}
    /\ {p} \X Bridges \cap port # {}
    /\ port' = port \ ({p} \X Bridges)
    /\ UNCHANGED <<pod, cache, tag, flows, queue, worker, cleaner, pidEvent, hit, spent>>

-----------------------------------------------------------------------------
Init ==
    /\ pod = [p \in Pods |-> NewPod] /\ cache = pod
    /\ port = {} /\ tag = {} /\ flows = {} /\ queue = {} /\ hit = {}
    /\ worker = IdleWorker /\ cleaner = IdleCleaner
    /\ pidEvent = FALSE
    /\ spent = [faults |-> 0, restarts |-> 0]

Reconcile ==
    \/ \E p \in Pods : Start(p)
    \/ \E b \in Bridges : CheckBridge(b) \/ DeletePodRailFlows(b)
    \/ AddFlow \/ ClearExternalID \/ ReconcileDone

CleanupStaleFlows ==
    \/ ListPods \/ CleanTag \/ CleanupDone
    \/ \E b \in Bridges : CleanupBridge(b)
    \/ \E p \in Pods : CleanFlows(p)

Failure == PodFlowsFail \/ DeleteFails \/ CleanupFails \/ Restart \/ OvsRestart

Cluster(p) ==
    Create(p) \/ Publish(p) \/ DeletePod(p) \/ RemovePod(p) \/ Detach(p) \/ \E b \in Bridges : Attach(p, b)

Next ==
    \/ Reconcile \/ CleanupStaleFlows \/ Notify \/ Failure
    \/ \E p \in Pods : CacheSync(p) \/ Cluster(p)

Spec == Init /\ [][Next]_vars

\* Both goroutines get on with their work, the cleanup starts again with every
\* tick, informer and pid file watcher notice changes.
Fairness ==
    /\ WF_vars(Reconcile) /\ WF_vars(CleanupStaleFlows) /\ WF_vars(Notify)
    /\ \A p \in Pods : WF_vars(CacheSync(p))

FairSpec == Spec /\ Fairness

-----------------------------------------------------------------------------
(* Properties. *)

TypeOK ==
    /\ pod \in [Pods -> Pod] /\ cache \in [Pods -> Pod]
    /\ port \subseteq Pods \X Bridges
    /\ tag \subseteq Pods \X Bridges
    /\ flows \subseteq Pods \X Bridges \X FlowIDs
    /\ queue \subseteq Pods
    /\ worker \in Worker
    /\ cleaner \in Cleaner
    /\ pidEvent \in BOOLEAN
    /\ hit \subseteq Pods
    /\ spent \in [faults : Nat, restarts : Nat]

\* Flows are never forgotten: whatever commands fail, errors are swallowed and
\* processes restart, a bridge with flows of a pod carries the tag the Cleaner
\* finds them by (the order in cleanBridgeFlows), except where a cleanup and a
\* reconcile of the same pod have met.
FlowsTracked ==
    \A f \in flows : <<f[1], f[2]>> \in tag \/ f[1] \in hit

\* The pod runs, its interfaces are known, and the cache has it so.
Running(p) == pod[p] = [phase |-> "live", net |-> TRUE] /\ cache[p] = pod[p]

\* Nothing will come back to the pod: it is not queued, no reconcile has it at
\* hand, and no restart of Open vSwitch waits to be noticed.
AtRest(p) == p \notin queue /\ worker.pod # p /\ ~pidEvent

\* A running pod that nothing will come back to has all its flows: no failed
\* command, bridge skipped or given up, restart of the flowcontroller or of
\* Open vSwitch, even during its reconcile, leaves it without, unless the
\* Cleaner has mistaken it for a stale one (handlePodFlows, Reconcile).
RestsServed ==
    \A p \in Pods :
        Running(p) /\ AtRest(p) /\ p \notin hit => {p} \X Bridges \X FlowIDs \subseteq flows

\* A running pod has all its flows in the end, and keeps them, whenever
\* commands fail and Open vSwitch restarts, even in the middle of adding them,
\* as long as the Cleaner has not mistaken the pod for a stale one.
FlowsReturn ==
    \A p \in Pods :
        <>[](pod[p] = [phase |-> "live", net |-> TRUE] /\ p \notin hit)
            => <>[]({p} \X Bridges \X FlowIDs \subseteq flows)

\* No tag of a pod that is gone stays: what a failed, swallowed or never
\* started deletion leaves behind, the Cleaner finds.
TagsReclaimed ==
    \A p \in Pods : pod[p].phase = "gone" ~> {p} \X Bridges \cap tag = {}

\* Cleaning up removes tags of pods that no longer exist only.
LiveKept ==
    [][\A p \in Pods : pod[p].phase = "live" => {p} \X Bridges \cap tag \subseteq tag']_vars

\* No flow of a pod that is gone stays.
StaleRemoved ==
    \A p \in Pods : pod[p].phase = "gone" ~> {p} \X Bridges \X FlowIDs \cap flows = {}
=============================================================================
