# A TLA+ model of the Spectrum-X operator

The modules here model the core of the operator in `src/`: the flowcontroller
that runs on every node, turns one `SpectrumXRailPoolConfig` into SR-IOV policies
and Open vSwitch bridges, reports on it, and keeps the flows of the node's pods.
TLC checks them on small instances, TLAPS proves their main safety properties for
every instance. `PROJECT.json` maps every definition to the source lines it
models and lists runs, mutants, hazards, findings and theorems.

Below, `controller.go` stands for
`src/internal/controller/spectrumxrailpoolconfig_host_flows_controller.go`.

## 1. Inventory

There is one program, `cmd/flowscontroller`, run as a DaemonSet: one process per
node, all of them with the same cluster objects in view. A process contains:

| Component | State it keeps or shares | Operations | What makes it hard |
|---|---|---|---|
| Status protocol (`doReconcile`, `patchSyncStatusWithMessage`, `aggregateSyncStatus`, `handleDeletion`, `processNodeStatus` in `controller.go`; `pkg/state`) | `status` of the object, written by every node | add finalizer, report InProgress, work, report the node's state, aggregate, delete | one object, as many writers as nodes; cached reads; optimistic lock with five attempts; generations that move during a reconcile; every write is an event for everyone |
| Triggers (`SetupWithManager`, `ListRailPoolConfigsForNode`) | work queue | object, Node, SriovNetworkNodeState, CIDRPool, DaemonSet, OVS events | lost wake-ups |
| Rail topologies (`reconcileRailTopology`, `configureXPlane`, `createXPlaneBridges`, `cleanupXPlaneBridges`, `deleteRemovedRailTopologies`) | policies, OVSNetworks and pool config (shared by all nodes); br-xplane and rail bridges (per host) | apply, wire, remove, delete | every node applies and deletes the same objects; commands time out with unknown effect; br-xplane is shared by rails; the finalizer is shared by nodes |
| Safe-start hook (`internal/ovssafestart`) | a script and a systemd drop-in on the host | install; strip uplinks before ovs-vswitchd starts | crash between two files; reboot into legacy mode |
| FlowReconciler, `Flows` (`flow_controller.go`, `flows.go`) | flows and external ids of bridges | add three flows per bridge, delete flows and id | commands interleave with the Cleaner's; swallowed errors |
| Cleaner (`internal/staleflows`) | the same | every five minutes remove what unknown pods left | its list of pods is older than the bridges it reads |
| Pid file watcher (`pkg/filewatcher`, `main.go`) | last modification time | queue pods and objects when ovs-vswitchd restarts | modification times; two channels without a buffer, served in turn, whose receivers start later |
| VF state follower (`internal/vfstatefollower`) | admin state of representors | mirror the carrier of PFs every second | PFs are looked at one by one; VFs move between pods and host; objects disappear |
| X-Plane DaemonSet and tolerations (`deployXplane`, `xplane_tolerations.go`) | one DaemonSet shared by all objects | create, update, follow tolerations | several owners and writers; cached reads; garbage collection; no event of its own |
| Command execution (`pkg/exec`) | none | run with a timeout | the effect of a killed command is unknown |

They interact through the API server (object, policies, node states), through
Open vSwitch's database and flow tables, and through the work queues that the
informers and the pid file watcher feed; no memory is shared between them.

What makes them correct:

* status: the aggregate is never at odds with its entries or with a generation
  some node has not carried out; entries are changed by their nodes only and never
  go back; the status becomes right once the cluster is quiet;
* rails: the cluster objects and every host become what the spec asks for, also
  after failures and reboots; a deletion ends and leaves nothing;
* hook: ovs-vswitchd never starts on an uplink of a PF in legacy mode;
* flows: a running pod has its flows, also after Open vSwitch restarts; flows
  and tags of a pod that is gone are removed;
* watcher: a restart of ovs-vswitchd reaches both controllers, whatever the
  goroutine is blocked on;
* VF state follower: a pod sees the carrier of its PFs, and loses its link only
  when all of them are dark;
* X-Plane: the one DaemonSet has the tolerations of the flowcontroller, lives
  as long as an object needs it, and runs in its owner's pool.

The hazards, each with its line and the properties that watch it, are listed in
`PROJECT.json`.

## 2. Plan

Order of work, most important behaviour first; 1 to 8 are done.

1. `SyncStatus`, with its proofs: the one place where all nodes write the same
   data, and what users look at.
2. `RailPool`, with the proof of the safe start: what the reconcile does.
3. `PodFlows`, with the proof that flows are tracked: the two goroutines of a node.
4. `FileWatcher`, with the abstract `RestartEvents` it implements.
5. `VFStateFollower`: carrier, representors, VFs in and out of pods.
6. `XPlaneDaemonSet`: several objects that own one DaemonSet; tolerations.
7. Proofs: type correctness of `RailPool`, `DeletionCleansSpec` for any number of
   nodes, the refinement of `RestartEvents`.
8. Proofs that reach what the liveness runs are about: `StatusBoard`, an abstract
   specification of the status that `SyncStatus` implements; and for `SyncStatus`,
   `PodFlows` and `XPlaneDaemonSet` that nothing rests in a wrong state, which is
   all of convergence but the fairness.
9. Left: the same for `RailPool`, where no work queue is modelled: what one
   undisturbed pass over the rails of a node leaves on its host.

`SyncStatus`, `RailPool` and `XPlaneDaemonSet` model the same `doReconcile` along
three cuts: the first keeps every status call and has the work as one step, the
second keeps every part of the work on one object and leaves out the status, the
third keeps `deployXplane` alone, for several objects. The first two share no
variable but the object's phase, finalizer and generation, so neither restricts the
other: a status patch that fails in `SyncStatus` is a reconcile that does not
start, or ends early, in `RailPool`. A `deployXplane` that fails is a failure of
`WireRail` in `RailPool`, and the conditions under which `configureXPlane` gets that far
(`Wirable`) are in `RailPool` only. `PodFlows` has the news of an Open vSwitch restart as
one step (`Notify`); `FileWatcher` is about how the news comes.

## 3. Modules

| Module | Content |
|---|---|
| `SyncStatus` | the status protocol: state, actions, fairness, properties |
| `MCSyncStatus` | symmetry, the two situations of the liveness run, for TLC |
| `StatusBoard` | abstract: what the status of an object is meant to be |
| `SyncStatusProofs` | its inductive invariant and theorems; `SyncStatus` implements `StatusBoard` |
| `SyncStatusRest` | the status is right when nothing is left to be done |
| `RailPool` | rails in the cluster and on the hosts |
| `MCRailPool` | sets of edits and the two situations of its run, for TLC |
| `RailPoolProofs` | the safe start, type correctness |
| `RailPoolDeletion` | what a deletion leaves |
| `PodFlows` | flows of pods: reconciler, Cleaner, Open vSwitch, kubelet |
| `MCPodFlows` | the instance for TLC |
| `PodFlowsProofs` | type correctness, tracked flows, flows of pods at rest |
| `RestartEvents` | abstract: what controllers are promised about restarts of Open vSwitch |
| `FileWatcher` | the pid file watcher, its channels and receivers, the host's clock |
| `MCFileWatcher` | the instance for TLC |
| `FileWatcherProofs` | type correctness; `FileWatcher` implements `RestartEvents` |
| `VFStateFollower` | ticks of the VF state follower among links, pods and objects |
| `MCVFStateFollower` | PFs, VFs and topologies, for TLC |
| `VFStateFollowerProofs` | type correctness, what one pass does |
| `XPlaneDaemonSet` | `deployXplane` on all nodes for all objects |
| `MCXPlaneDaemonSet` | labels, a start and a budget of changes, for TLC |
| `XPlaneDaemonSetProofs` | type correctness; the DaemonSet is right when nothing is left to be done |

In the specification modules a definition whose comment begins with "Variant" is a
plausible wrong version of the definition after it. No specification uses one;
each is put in the place of the right one to see that a property notices
(`mutants` in `PROJECT.json`).

### SyncStatus and StatusBoard

One object; the nodes' flowcontrollers; one action per API call of a reconcile.

* `obj` is what the API server stores. resourceVersions are not counted: `synced`
  is the set of nodes whose cached copy has the stored one, `locked` the set of
  nodes whose patch was computed from it. Any accepted change empties both
  (`Store`), which is what the optimistic lock compares.
* `cache[n]` is the informer's copy, from which `doReconcile` and, in every attempt,
  the closure of `patchSyncStatusWithMessage` read. `CacheSync` brings it up to date
  and queues the object.
* `worker[n]` holds the locals of the reconcile. `StartGone`, `AddFinalizer`,
  `StartDeletion` and `StartReconcile` are the branches of `doReconcile` up to its
  first status patch, `PatchRead` and `PatchWrite` the closure (reads and the skip
  of an unchanged status; the patch), `WorkOK`/`WorkFails` everything from
  `applyPoolConfig` to `deleteRemovedRailTopologies` together with the decision
  of `processNodeStatus`, `DeletionOK`, `DeletionFails` and `FinalizerFails` the
  ends of `handleDeletion`. `Conflict` and `PatchDone` say what the end of an
  attempt means to `RetryOnConflict` and to the caller.
* Messages of node states are kept as empty or not, which is all the code compares
  them for between the states the model reaches.
* `policySel` is the node selector in the policies, which
  `ListRailPoolConfigsForNode` consults to decide whether a node event matters.
* `applied`, `aggPool` are history variables for the properties.
* `StatusBoard` has neither caches nor locks nor retries: a node reports about itself
  for the current generation and renews the verdict over some pool in one atomic
  step, and says Succeeded only of what it has carried out. The refinement mapping is
  `Board`: entries, verdict and observed generation are those stored, the pool is
  that of the last writer, done is `applied`. All steps but an accepted status
  patch, an edit, the removal of the object and the end of the work are stutters.

### RailPool

One object with rails that are absent, have one PF or several (multiplane).

* `api[r]` has the objects of a rail (primary policy and its multiplane label,
  secondary policy, OVSNetwork), `view[n]` a node's cached copy, which is what
  `deleteRemovedRailTopologies` lists.
* `host[n]` has br-xplane, rail bridges, uplinks, patch ports and the hook.
  `mode` is the eswitch mode of the PFs, `seen` the mode in the published
  SriovNetworkNodeState, which lags behind.
* A reconcile takes its snapshot (`Start`, which also applies the pool config) and
  handles one rail after the other, one call per step: `ApplyPrimary`,
  `ApplySecondary`, `ApplyNetwork` are the three patches of `reconcileRailTopology`,
  `WireRail` its `configureXPlane`. It lists the removed rails (`ListRemoved`) and
  cleans them up: `CleanBridges`, then the three deletions of
  `deleteRailTopologyResources` (`DropPrimary`, `DropSecondary`, `DropNetwork`). A deletion goes
  straight to cleaning up the rails of the spec and ends with pool config and
  finalizer (`DeletePool`, `RemoveFinalizer`). Other nodes' calls come in between any two.
* The commands of one rail on a host (`WireRail`, `CleanBridges`) are one step: nobody else
  reads or writes this host's bridges for rails, and failures and timeouts leave
  every intermediate state. (A reboot in the middle of them is a timeout followed by a
  reboot.)
* Failures. A command or call that fails ends the reconcile where the code returns
  the error (`...Fails`); an `ovs-vsctl` failure other than a timeout is logged and
  passed over where the code does so (`WireLogged`, `CleanupLogged`). After a
  timeout, and after an error of an API call, the effect may be there or not.
* `rpc.members` are the nodes of the pool. The nodeSelector is not edited here; moving
  selectors are the subject of `SyncStatus` and `XPlaneDaemonSet`.
* `stuck`, `unsafe`, `late`, `orphaned` and `closed` are history variables. `late` has what
  was applied after the deletion was requested by reconciles that had not heard of it,
  `orphaned` the rails whose OVSNetwork was patched when the policies, by which a removed
  rail is recognised, were gone already; `closed` the nodes that removed the finalizer.

### PodFlows

One node; rail pods, each plugged into all rail bridges.

* `tag` has the external ids by which the rail CNI marks a bridge with a pod, `port`
  the pods' ports, `flows` the three flows per pod and bridge.
* Reconciler and Cleaner take one `ovs-vsctl` or `ovs-ofctl` command per step
  (`CheckBridge` takes the three reads of an interface together). They interleave
  freely with each other, with the kubelet and with restarts.
* `Residents` says that the node always has other pods, as a node with a flowcontroller
  does; without them the Cleaner returns early when its list is empty.
* `hit` is a history variable: pods that the Cleaner has worked on while they were
  alive or in the hands of the reconciler.

### FileWatcher and RestartEvents

* `last` is `lastModTime`, `pc` the receiver whose channel the goroutine is blocked
  on. `FirstLook` and `Poll` are `WatchFile`, `Send` one send of the function `main`
  gives it. `Listen` is the start of a controller by the manager, which comes later
  than the goroutine's and queues all objects through the informers.
* `told` is a history variable: the controllers that reconcile everything after
  the last start of ovs-vswitchd.
* `RestartEvents` has the set of controllers that are owed the news of the running
  instance (`pending`) and whether a start would be noticed (`sharp`). The
  refinement mapping is `Promise`: a controller is owed the news if it was not told
  and either is not started, or is still to be sent to in the current call, or
  the file is newer than `last`; the watcher is sharp if it has looked and `last` is
  in the past.
* A start that comes before the first look, or in the same instant as the one seen
  last, or after the clock was set back, may be missed; the promise says so.

### VFStateFollower

* `tick` holds the locals of a tick: the objects as listed, the topologies left,
  the PFs and representors left, the result of `allPFsNoCarrier`. Each step is one
  lookup or one netlink call, in any order of PFs, VFs and topologies.
* `conf[t]` says whether an object that selects the node has topology `t`, and
  whether `vfStateFollow` is on; node labels and objects together, as in the code
  only the outcome of the match is used.
* A failed lookup passes over a topology (`CheckFails`) or a representor
  (`SetRepFails`), as in the code. When representors are listed it may pass over some,
  or take some whose VF is not in a pod, as a name that was not found counts as a VF
  in a pod (`ListReps`).
* `dark` and `steady` are history variables of the topology in work.

### XPlaneDaemonSet

* `ds` is the stored DaemonSet: owner, nodeSelector, tolerations. As in `SyncStatus`,
  resourceVersions are not counted: `current` has the nodes whose cached version is
  the stored one, and `Store` empties it.
* `view[n]` has both DaemonSets as the informer of node `n` last saw them. `Start`,
  `ReadTolerations` and `Sync` are the three reads of a reconcile; the comparison is
  that of `syncDaemonSet` (`UpToDate`), where owner and tolerations have to be equal
  but labels in the stored nodeSelector only are not seen.
* Object events reach the queue at once; that a node's copy of an object is older
  than the stored one is expressed by the time between `Start` and `Sync`.
* The parent is the flowcontroller DaemonSet; it may be edited, or replaced
  (`ReplaceParent`, deletion and creation in one step: tolerations cannot be read in
  between either, and both events queue the same). Pods of the old parent are then
  replaced by fresh ones or orphaned (`LoseParent`): an orphan has no controller (`NoUid`)
  until the new parent adopts it (`Adopt`). While it has none, reading the tolerations
  is an error, and the events of the deletion and the creation are dropped
  (`ParentQueues`); adoption is no event, as nothing watches Pods for this.
* `silent` is a history variable: the DaemonSet may be wrong with no event to come,
  because it was garbage-collected, an old version of it looked right, a node wrote
  it that had left the pool, or a node heard of other tolerations while its Pod had
  no controller (`Missed`). Only then does the model count on the informers' resync.
* `Accepted` compares with the stored version only where the code does: a Create is
  refused if there is a DaemonSet, an Update if the cached version is old.

## 4. Runs

Deadlock is checked for `VFStateFollower`, whose ticker never ends. The other runs
switch it off: once the object or all pods are gone, or the watched file rests, and
the bounds are used up, the system may rightly stop.

`SyncStatus_changes`, `RailPool_converge` and `XPlaneDaemonSet` explore two or three
situations each, told apart by the initial state (`MCSyncStatus`, `MCRailPool`,
`MCXPlaneDaemonSet`): every property of the run is checked in all of them.

| Run | Shows | Instance |
|---|---|---|
| `SyncStatus_faults` | `TypeOK`, `AggregateSound`, `SucceededMeansApplied`, `RestsRight`, `OwnEntryForward`, `KeepsBoard` | 2 nodes, 2 generations, 2 attempts per patch, one fault or restart; caches lag at will |
| `SyncStatus_changes` | `Converges`, `FailureReported` | 2 nodes, 2 labels, 3 attempts. Either caches lag at will at first and one call fails or a node restarts; or informers are prompt and there is a spec edit (perhaps of the selector), a deletion, a relabelling or a node state change at any point |
| `RailPool_converge` | `TypeOK`, `SafeStarts`, `DeletionCleansSpec`, `RailsConverge`, `DeletionEnds` | 2 rails, 2 generations, 768,000 states. Either a pool of 1 node with all edits, starting with one rail of one or several PFs, or with two multiplane rails on PFs in switchdev mode, one fault, and for one rail a reboot; or 2 nodes, both in the pool, with caches of any age and no faults, that race to remove a multiplane rail while another one stays; or 2 nodes in the pool with one rail, wired or not (no node state yet), that race to wire it and to delete the object |
| `RailPool_timeout` | `FinalizerHeld` fails | 2 nodes, 1 rail, one fault |
| `RailPool_shared` | `XplaneKept` fails | 1 node, 2 rails |
| `RailPool_secondary` | `SingleHasNoSecondary` fails | 1 node, 1 rail |
| `PodFlows_faults` | `TypeOK`, `FlowsTracked`, `RestsServed`, `FlowsReturn`, `TagsReclaimed` | 1 pod, 1 bridge, 2 faults or restarts, 2 OVS restarts |
| `PodFlows_mistaken` | `LiveKept` fails | 1 pod, 1 bridge |
| `PodFlows_leak` | `StaleRemoved` fails | 1 pod, 1 bridge |
| `FileWatcher` | `TypeOK`, `KeepsPromise`, `NewsArrives`, `StopSharpens` | 4 instants of the clock, set back once; 3 starts of ovs-vswitchd and any stops; 1 restart of the flowcontroller |
| `VFStateFollower` | `TypeOK`, `OnePassFollows`, `DownIsEarned`, `PodLinksFollow` | a topology of two PFs and one of one PF, a VF each; 2 changes of carrier, pods or objects, 1 failure |
| `XPlaneDaemonSet` | `TypeOK`, `RestsRight`, `TolerationsFollow`, `LivesWithObjects`, `StaysInPool` | 2 nodes, one of them with a label; either 1 object and 2 changes, or a change and a fault, a replaced parent included; or 2 objects and one change or fault, where the parent is only edited; 596,000 states |

Why the bounds are enough to be interesting. Two nodes are what it takes for a
conflict, a foreign entry, a late reconcile and a shared finalizer. Two generations
give a reconcile that straddles an edit or a deletion. Two attempts exhaust `RetryOnConflict`;
the liveness runs need three, because with two attempts two nodes can refuse each
other's patches for ever (each writes while the other holds an old copy; the code
has five attempts, so the same could happen to a pool of four or more nodes). One
pod on one bridge is all that reconciler and Cleaner can quarrel about; flows of
other pods and bridges have other cookies and tables (`FlowsTracked` is proved for
any number of both). Two Open vSwitch restarts let the second strike while the
flows lost by the first are being added. Three starts of ovs-vswitchd are one that
is being told, one that comes while the goroutine is blocked, and one after; four
instants let a file be older, equal and newer than `last` after the clock was set
back. Two PFs are what it takes for a carrier to move between two looks, and
the second topology shows that a pass does not disturb the other. In `RailPool_converge`
all PFs of a rail are one uplink, as they are wired alike (the violation runs have two). In `XPlaneDaemonSet`
two writers and one change make an old write, a conflict and a stale comparison;
a second object makes a change of owner.
The safety properties that matter are proved for every instance besides.

### Fairness

* `SyncStatus`: weak fairness of each node's reconcile steps (a controller-runtime
  worker with a queued key runs; an error is queued again) and of each informer.
  In its second situation `SyncStatus_changes` has prompt informers and at most
  `MaxChanges` generations, relabels and node state changes together (the action
  constraint `StepOfBoth` and `PromptEdit`), and adds the informers' periodic resync once a node has been
  relabelled: when a node leaves a pool no remaining node gets an event, so until
  the resync, ten hours by default, the aggregate is that of the old pool. Every
  other change has to be noticed through its own event.
  `Converges` assumes moreover that informers become prompt in the end. With weak
  fairness alone a node can start every reconcile from a cache that lacks its own
  last write, report InProgress over its own Succeeded, and be woken by that very
  write. In practice the queue's back-off lets caches catch up.
* `RailPool`: reconciles happen again and again (events, retries, resync), informers
  catch up, node states are published. `MCRailPool` asks for no more: only of the nodes
  in the pool, and of the views only where rails are removed. Neither users nor reboots nor the switch to
  switchdev are fair; `RailsConverge` assumes the PFs in switchdev.
* `PodFlows`: the reconciler's worker, the Cleaner (its ticker), the informer and the
  pid file watcher go on. The kubelet owes nothing.
* `FileWatcher`: the goroutine runs, the manager starts its controllers, a started
  controller receives. Neither ovs-vswitchd nor the clock owes anything.
* `VFStateFollower`: the ticker ticks and a tick ends. Links, pods and users owe nothing.
* `XPlaneDaemonSet`: a queued object is reconciled, an error is queued again, informers
  catch up; Kubernetes collects garbage, orphans or deletes Pods and adopts orphans; the resync comes where
  nothing else would (`silent`).

A pool with a failed node never settles: its reconcile begins by reporting
InProgress, and that report is an event that starts the next one. `FailureReported`
therefore asks for Failed again and again, and `Converges` leaves these pools out.

### Findings

Five runs show disagreements between the code and its own comments or tests
(`findings` in `PROJECT.json`): the shared finalizer is removed while a bridge
deletion has timed out on another node; br-xplane goes with any multiplane rail,
not with the last; a rail that shrinks to one PF keeps its secondary policy; the
Cleaner takes a pod that was plugged in after its list was made for a stale one;
flows that are added while the Cleaner removes the pod are never found again.
The passing properties say exactly how far these reach: `FlowsTracked`,
`RestsServed` and `FlowsReturn` except only pods on which Cleaner and reconciler have met,
`RailsConverge` holds although br-xplane is deleted too often.

Further limits of the code are visible in the properties and are not findings,
since nothing in the repository says otherwise:

* The OVSNetwork of a removed rail stays for good when the rail's policies, by which
  removed rails are recognised, go without it: if its deletion fails or is cut off by a
  reboot, and without any failure if a reconcile of the old spec on one node has patched
  the policies, another node deletes policies and OVSNetwork, and the first then
  patches the OVSNetwork. `AsSpecified` excepts exactly these (`orphaned`); without the
  exception TLC finds `RailsConverge` violated in the race of two nodes.
* An object deleted before the removal of a rail was reconciled leaves that rail
  behind, so `DeletionCleansSpec` speaks of the last spec. A reconcile that had not
  heard of a deletion can create policies again after it; `DeletionCleansSpec` excepts
  exactly those (`late`).
* A node that removes the finalizer has cleaned up its own bridges only.
  `DeletionCleansSpec` promises that of every such node (`closed`), and only without
  failures; other nodes may never hear of the deletion and keep their bridges.
* Removed rails are found by their policies, which the first node to clean up deletes
  for all: a node of the pool that lists them later keeps the bridges of a removed
  multiplane rail. `AsSpecified` therefore speaks of the cluster objects of removed
  rails, not of their bridges.
* A node with an old copy of the object can put an old selector back into the
  policies. Until another reconcile repairs that, `ListRailPoolConfigsForNode` passes
  over events of node states, and the node's entry stays as it was until the resync:
  `RestsRight` of `SyncStatus` excepts node states that have changed (TLC finds it
  violated without this exception), and `Converges` covers them with prompt informers.
* When a node leaves a pool, nobody is woken to renew the verdict (see Fairness);
  `RestsRight` excepts relabelled nodes for this reason.
* Representors of VFs that have returned to the host, or that no object covers any
  more, keep the state they had (`PodLinksFollow`).
* Between a garbage collection of the X-Plane DaemonSet, a comparison with an old
  cached version, or the last write of a node that has left the pool, and the resync,
  the DaemonSet may be missing or wrong (`silent`).
* A flowcontroller Pod that outlives its DaemonSet has no controller until it is
  adopted. What its node hears of the DaemonSets in that time is dropped
  (`flowcontrollerToRailConfigs` returns nil), and adoption is no event, so tolerations
  that changed with the DaemonSet are taken over by the next resync only (`Missed`;
  TLC finds `RestsRight` violated without this exception). The repository's README.md:13
  promises tolerations "including subsequent changes and removals": in the end, with
  the resync, this holds (`TolerationsFollow`).
* A label removed from an object's nodeSelector stays in the DaemonSet's
  (`StaysInPool`), and with two live objects either may have the last word.

## 5. Proofs

TLAPS proves, for every value of the constants that satisfies the named
assumptions in the modules (bounds are natural numbers, "none" is not a value):

* `SyncStatusProofs`: `TypeCorrect`, `AggregateIsSound`, `SucceededIsEarned`,
  `EntriesAreOwned`, `ImplementsBoard`. None of the properties is inductive. `Inv`
  adds: a synced cache equals the object (`CacheInv`); a patch that holds the lock is
  for the object's generation (`LockInv`), which is why an accepted patch aggregates
  for the generation it observed; nothing in the status is newer than the object
  (`GenInv`); a node's Succeeded, stored or about to be written, is for a generation in
  `applied` (`EntryInv`, `JobInv`). `SucceededIsEarned` follows: the aggregate is
  Succeeded only if all entries of the pool are, for that generation. `EntriesAreOwned`
  is an action property that follows from the same invariant step by step: an entry
  changes in the step only in which its own node's patch leaves "write".
  `ImplementsBoard` maps the initial states and each kind of step: an accepted patch is
  a `Report`, by `LockInv` for the current generation, by `JobInv` truthful, and with a
  right verdict because `Aggregate` meets the board's `Right` (`AggregateRight`).
* `SyncStatusRest`: `RestIsRight`. The invariant is about a node that has the stored
  object in its cache and is not queued (`Woken`): either it works, for the stored
  generation and selector, and what it will report is what it ought to (`Working`),
  or it is idle and its entry says so already (`Content`). Every way out of a
  reconcile that leaves less queues the object again; every change of the object
  takes the node out of `synced`, and its `CacheSync` queues it.
* `RailPoolProofs`: `StartsAreSafe`, `TypeCorrect`. For the first, `Inv` says that
  each host with an uplink has the complete hook, that workers have only rails to do,
  and that no unsafe start has happened. Lemmas show of every command, partial or
  whole, that it keeps a protected host protected; the hook is installed before the
  first bridge. The second adds what a worker knows between two calls (`InHand`):
  the rail in hand is still to be done, and one that is being applied is in the
  snapshot, without which the patches of an absent rail would have no type.
* `RailPoolDeletion`: `DeletionCleans`. `DeletionInv` adds: without a finalizer nothing
  was started (`Untouched`), which covers an object that goes at once; whoever has
  heard of the deletion knows the last spec (`HeardLast`), as a spec is not edited
  after it; of the calls a deletion has behind it, each has left nothing but what is
  `late` (`Progress`: `BridgesGone` for the host, `GoneBehind` for each of the three
  deletions of a rail), since whatever is patched from then on is recorded; and
  what holds of the nodes that removed the finalizer goes on to hold of every one of
  them (`Left`, `Settled`: such a node will not wire a bridge again, having heard of the
  deletion). No bound on nodes, rails or failures enters.
* `PodFlowsProofs`: `TypeCorrect`, `FlowsAreTracked`, `RestIsServed`. `Inv` adds: the reconciler adds
  flows only where the tag was and still is, or the Cleaner has come by (`AddInv`);
  before a tag is removed its flows are gone (`UntagInv`, `CleanInv`), because the
  reconciler is the only one to add flows; a pod in both hands is in `hit`
  (`MeetInv`). For `RestIsServed`, `RestInv` says of a pod that is not queued, with no
  restart unnoticed, that every flow is there except on bridges the reconcile at hand
  has before it or has an error for, and that on the bridge at hand the flows before
  the next one are there (`ServedInv`). It rests on three facts about the
  surroundings: the cache never shows a deletion or an annotation that was not
  (`PastInv`), flows are deleted of deleted pods only (`DeleteInv`), and a live pod's
  ports are tagged, and complete once its interfaces are known (`PlugInv`), so that
  `CheckBridge` does not skip a bridge of a running pod.
* `FileWatcherProofs`: `TypeCorrect`, `Implements`. The initial states map to initial
  states of `RestartEvents`, and with the types each of the nine kinds of steps maps to
  a step or a stutter: a poll leaves the set of owed controllers as it is, because
  the moment the file is not newer than `last` any more both are to be sent to.
* `VFStateFollowerProofs`: `TypeCorrect`, `FollowsInOnePass`, `DownIsAlwaysEarned`, for
  topologies that may share PFs. The invariant says of the topology in work that the
  PFs already passed in the check are in `dark`, that `allDown` implies that all
  are, and that as long as nothing has changed (`steady`) the representors of PFs and
  VFs already passed are as the carrier asks.
* `XPlaneDaemonSetProofs`: `TypeCorrect`, `RestIsRight`. `Inv` adds: no cache and no pod
  knows a parent of the future (`UidInv`); a reconcile works with the selector and
  the tolerations of now, as far as the node knows, unless its object is queued again
  (`CopyInv`); a pod that still has the old owner when its node knows the new one has
  all its work before it (`OrphanInv`; of a pod without controller this does not hold,
  which is what `Missed` is for);
  as long as there is no DaemonSet everyone has (`AbsentInv`); and as long as there is
  one, some node in its owner's pool either takes it for right or will look at it again
  (`OwnerInv`). All but the first are conditional on what the queues hold, which is how
  they survive edits, failures and replaced parents, and `CopyInv`, `AbsentInv` and
  `OwnerInv` on `silent` being FALSE.

Only model-checked: the liveness properties (`Converges`, `FailureReported`,
`RailsConverge`, `DeletionEnds`, `FlowsReturn`, `TagsReclaimed`, `NewsArrives`,
`StopSharpens`, `PodLinksFollow`, `TolerationsFollow`, `LivesWithObjects`,
`StaysInPool`), since fairness is outside what the prover handles. Every invariant and
every action property of a passing run, and the safety part of both refinements, is
proved. `RestsRight`, `RestsServed` and `OnePassFollows` are the safety cores of
`Converges`, `FlowsReturn`, `TolerationsFollow`/`LivesWithObjects` and
`PodLinksFollow`: what fairness adds is only that the system comes to rest.

## 6. Not modelled

* Contents of generated objects: VF counts, MTU, bridge and IPAM settings, VRF from
  a CIDRPool, plane ids. No control depends on them except the multiplane label,
  which is kept.
* Policies without topology label, from older releases.
* Several SpectrumXRailPoolConfigs at once, except as owners of the X-Plane DaemonSet,
  and an object created again under the same name.
* ServiceAccount, Role and RoleBinding of X-Plane, applied with fixed contents; its
  manifest and image.
* CIDRPool events, which cause reconciles whose effect is on contents only.
* Failures of the safe-start script's own `ovs-vsctl`, and files lost in a power
  failure after they were written.
* The panic of `FlowReconciler` on a network status without IPs (`ns.IPs[0]`,
  `flow_controller.go:140`): the pods of the model have an address on every rail interface.
* Multiplane flow functions of `flows.go`: nothing but tests calls them.
* Configuration, PCI wrappers, the netlink wrappers nothing calls, version, flags, TLS, metrics, manifests,
  generated code and mocks: no state of their own.
