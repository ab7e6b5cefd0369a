------------------------------ MODULE RailPool ------------------------------
(***************************************************************************)
(* The rail topologies of one SpectrumXRailPoolConfig, in the cluster and  *)
(* on the hosts.                                                           *)
(*                                                                         *)
(* Every node's flowcontroller reconciles the whole object: it patches the *)
(* SR-IOV policies and OVSNetworks of all rails, wires the multiplane      *)
(* rails into its own Open vSwitch (br-xplane, a bridge per rail, uplinks, *)
(* patch ports), removes what rails no longer in the spec have left, and   *)
(* on deletion tears everything down and removes the shared finalizer.     *)
(* The status it reports along the way is the subject of SyncStatus.       *)
(***************************************************************************)
EXTENDS Naturals

CONSTANTS
    Nodes,       \* nodes with a flowcontroller
    Rails,       \* names of rail topologies
    PFs,         \* physical functions of a multiplane rail
    None,        \* no rail
    Edits,       \* edits of a rail considered: pairs <<kind before, kind after>>
    MaxGen,      \* bound: generations of the object (edits and deletion)
    MaxFaults,   \* bound: failed commands and API calls
    MaxReboots   \* bound: host reboots

\* A rail topology is absent from the spec, has one PF, or several.
Kinds == {"absent", "single", "multi"}

ASSUME RailAssumption ==
    /\ None \notin Rails
    /\ Edits \subseteq Kinds \X Kinds
    /\ MaxGen \in Nat /\ MaxFaults \in Nat /\ MaxReboots \in Nat

VARIABLES
    rpc,      \* the stored object
    cache,    \* cache[n]: the object in node n's informer cache
    pool,     \* the SriovNetworkPoolConfig exists
    api,      \* api[r]: the cluster objects of rail r
    view,     \* view[n]: api in node n's informer cache
    worker,   \* worker[n]: the reconcile in progress on node n
    host,     \* host[n]: Open vSwitch database and safe-start hook of node n
    mode,     \* mode[n]: eswitch mode of node n's PFs
    seen,     \* seen[n]: the mode in the published SriovNetworkNodeState of n
    stuck,    \* history: stuck[n], rails whose bridge deletion timed out on n
    unsafe,   \* history: nodes whose vswitchd started on uplinks of legacy PFs
    late,     \* history: the pool config and rails applied by reconciles that had
              \* not heard of the object's deletion when it was requested
    orphaned, \* history: rails whose OVSNetwork was patched when the policies that
              \* the rail is recognised by were gone, and not deleted since
    closed,   \* history: nodes that have torn down everything and removed the finalizer
    spent     \* faults and reboots so far

vars == <<rpc, cache, pool, api, view, worker, host, mode, seen, stuck, unsafe, late,
          orphaned, closed, spent>>

-----------------------------------------------------------------------------
\* members are the nodes that the object's nodeSelector matches.  It is not edited
\* here, and nodes keep their labels.
Object == [phase : {"live", "deleting", "gone"}, fin : BOOLEAN, gen : Nat,
           members : SUBSET Nodes, rails : [Rails -> Kinds]]

\* What is not in a cache.  The stored object keeps its last spec when it goes.
Gone == [phase |-> "gone", fin |-> FALSE, gen |-> 0,
         members |-> {}, rails |-> [r \in Rails |-> "absent"]]

Removed(o) == [o EXCEPT !.phase = "gone", !.fin = FALSE]

\* The primary policy carries the multiplane label when it was applied for
\* several PFs; the "-unused" secondary policy always does.
RailObjects == [primary : {"none", "single", "multi"}, secondary : BOOLEAN, network : BOOLEAN]

NoObjects == [primary |-> "none", secondary |-> FALSE, network |-> FALSE]

\* "absent": there is no SriovNetworkNodeState.
Modes == {"absent", "legacy", "switchdev"}

\* The safe-start hook is a script and a systemd drop-in, written in this order.
Hooks == {"none", "script", "installed"}

Host == [xplane  : BOOLEAN,                  \* br-xplane exists
         bridges : SUBSET Rails,             \* rail bridges
         uplinks : SUBSET (Rails \X PFs),    \* uplink ports of br-xplane
         patched : SUBSET Rails,             \* rails patched to br-xplane
         hook    : Hooks]

BareHost == [xplane |-> FALSE, bridges |-> {}, uplinks |-> {}, patched |-> {}, hook |-> "none"]

\* A reconcile applies the rails of its snapshot ("rails"), one call after the
\* other, then cleans up ("clean"): todo are the rails left in this phase, rail
\* the one in hand, xp those whose bridges have to go as well.  pc names the
\* call that comes next; other nodes' calls come in between any two.
Calls == {"idle", "rails", "secondary", "network", "wire",
          "clean", "dropPrimary", "dropSecondary", "dropNetwork", "finalizer"}

Worker == [pc : Calls, deleting : BOOLEAN, rails : [Rails -> Kinds],
           todo : SUBSET Rails, rail : Rails \cup {None}, xp : SUBSET Rails]

IdleWorker ==
    [pc |-> "idle", deleting |-> FALSE, rails |-> Gone.rails, todo |-> {}, rail |-> None, xp |-> {}]

Idle(n) == worker[n].pc = "idle"

\* Variant: rails that were removed are still iterated over.
PresentAll(rails) == Rails

Present(rails) == {r \in Rails : rails[r] # "absent"}
Multi(rails)   == {r \in Rails : rails[r] = "multi"}

SetWorker(n, w) == worker' = [worker EXCEPT ![n] = w]

\* Rail r is taken in hand; the next call is made; the rail in hand is done.
TakeRail(n, r, pc) == SetWorker(n, [worker[n] EXCEPT !.pc = pc, !.rail = r])
GoOn(n, pc)        == SetWorker(n, [worker[n] EXCEPT !.pc = pc])
RailDone(n, pc)    ==
    SetWorker(n, [worker[n] EXCEPT !.pc = pc, !.todo = @ \ {worker[n].rail}, !.rail = None])

SetHost(n, h)   == host' = [host EXCEPT ![n] = h]

Fault == spent.faults < MaxFaults /\ spent' = [spent EXCEPT !.faults = @ + 1]

-----------------------------------------------------------------------------
(* Commands on a host. *)

\* ovs-vsctl del-br of a rail's bridge, which takes its patch port along, and
\* of br-xplane, which takes all uplinks and patch ports along.
DelRail(h, r) == [h EXCEPT !.bridges = @ \ {r}, !.patched = @ \ {r}]
DelXplane(h)  == [h EXCEPT !.xplane = FALSE, !.uplinks = {}, !.patched = {}]

\* createXPlaneBridges, with the uplinks of U and the patch ports of P.
Wire(h, r, U, P) ==
    [h EXCEPT !.xplane = TRUE, !.bridges = @ \cup {r},
              !.uplinks = @ \cup U, !.patched = @ \cup P]

Uplinks(r) == {r} \X PFs

\* The outcomes of createXPlaneBridges and deployXplane that end without an
\* error although a port could not be added, and with one: after a command
\* that timed out its effect may be there or not.
WireLogged(h, r) == {Wire(h, r, U, P) : U \in SUBSET Uplinks(r), P \in SUBSET {r}}
WireError(h, r) == {h, [h EXCEPT !.xplane = TRUE]} \cup WireLogged(h, r)

\* EnsureInstalled may fail before or after the script was written.
Hooked(h)    == [h EXCEPT !.hook = "installed"]
HookError(h) == {h} \cup IF h.hook = "none" THEN {[h EXCEPT !.hook = "script"]} ELSE {}

\* configureXPlane goes on to the bridges when every node of the pool has a
\* SriovNetworkNodeState, the node is one of them and its PFs are in switchdev.
Wirable(n) ==
    /\ n \in rpc.members
    /\ seen[n] = "switchdev"
    /\ \A m \in rpc.members : seen[m] # "absent"

\* Variant: a rail whose bridge is there counts as wired.
ConfigureXPlaneOnce(n, r) ==
    LET h == Hooked(host[n])
    IN  IF Wirable(n) /\ r \notin h.bridges THEN {Wire(h, r, Uplinks(r), {r})} ELSE {h}

\* Variant: the patch ports are forgotten.
ConfigureXPlaneUnpatched(n, r) ==
    LET h == Hooked(host[n])
    IN  IF Wirable(n) THEN {Wire(h, r, Uplinks(r), {})} ELSE {h}

\* configureXPlane of rail r on node n: the hook first, then the bridges.
ConfigureXPlane(n, r) ==
    LET h == Hooked(host[n])
    IN  IF Wirable(n) THEN {Wire(h, r, Uplinks(r), {r})} ELSE {h}

ConfigureXPlaneLogged(n, r) ==
    IF Wirable(n) THEN WireLogged(Hooked(host[n]), r) ELSE {}

\* Variant: the hook comes last.
ConfigureXPlaneErrorHookLast(n, r) ==
    IF Wirable(n) THEN WireError(host[n], r) ELSE HookError(host[n])

\* The hook fails, a list or a node state cannot be read, or a bridge fails.
ConfigureXPlaneError(n, r) ==
    HookError(host[n]) \cup {Hooked(host[n])}
        \cup IF Wirable(n) THEN WireError(Hooked(host[n]), r) ELSE {}

-----------------------------------------------------------------------------
(* The cluster objects of a rail. *)

\* The patches of reconcileRailTopology.
PatchPrimary(r, kind) == [api EXCEPT ![r].primary = kind]
PatchSecondary(r)     == [api EXCEPT ![r].secondary = TRUE]
PatchNetwork(r)       == [api EXCEPT ![r].network = TRUE]

\* Variant: the name of the primary policy is used twice.
DeleteSecondaryName(r) == [api EXCEPT ![r].primary = "none"]

\* The deletions of deleteRailTopologyResources; what is gone already is ignored.
DeletePrimary(r)   == [api EXCEPT ![r].primary = "none"]
DeleteSecondary(r) == [api EXCEPT ![r].secondary = FALSE]
DeleteNetwork(r)   == [api EXCEPT ![r].network = FALSE]

\* A rail is recognised by its policies only.
Recognised(o) == o.primary # "none" \/ o.secondary

-----------------------------------------------------------------------------
(* The reconcile of node n. *)

\* A call that applies something of rail r.
Late(r) == IF rpc.phase = "live" THEN late ELSE [late EXCEPT !.rails = @ \cup {r}]

\* The first reconcile adds the finalizer.
AddFinalizer(n) ==
    /\ Idle(n)
    /\ cache[n].phase = "live" /\ ~cache[n].fin
    /\ rpc.phase = "live" /\ ~rpc.fin
    /\ rpc' = [rpc EXCEPT !.fin = TRUE]
    /\ UNCHANGED <<cache, pool, api, view, worker, host, mode, seen, stuck, unsafe, late, orphaned, closed, spent>>

\* doReconcile and handleDeletion take their snapshot from the cache; the
\* first thing applied is the SriovNetworkPoolConfig.
Start(n) ==
    /\ Idle(n)
    /\ cache[n].phase # "gone" /\ cache[n].fin
    /\ LET o   == cache[n]
           del == o.phase = "deleting"
       IN  SetWorker(n, [pc |-> IF del THEN "clean" ELSE "rails", deleting |-> del,
                         rails |-> o.rails, todo |-> Present(o.rails), rail |-> None,
                         xp |-> IF del THEN Multi(o.rails) ELSE {}])
           /\ pool' = (pool \/ ~del)
           /\ late' = IF del \/ rpc.phase = "live" THEN late ELSE [late EXCEPT !.pool = TRUE]
    /\ UNCHANGED <<rpc, cache, api, view, host, mode, seen, stuck, unsafe, orphaned, closed, spent>>

\* reconcileRailTopology of one rail: the primary policy, for several PFs the
\* secondary one, the OVSNetwork, and for several PFs configureXPlane.
ApplyPrimary(n) ==
    /\ worker[n].pc = "rails"
    /\ \E r \in worker[n].todo :
         /\ api' = PatchPrimary(r, worker[n].rails[r])
         /\ late' = Late(r)
         /\ TakeRail(n, r, IF worker[n].rails[r] = "multi" THEN "secondary" ELSE "network")
    /\ UNCHANGED <<rpc, cache, pool, view, host, mode, seen, stuck, unsafe, orphaned, closed, spent>>

ApplySecondary(n) ==
    /\ worker[n].pc = "secondary"
    /\ api' = PatchSecondary(worker[n].rail)
    /\ late' = Late(worker[n].rail)
    /\ GoOn(n, "network")
    /\ UNCHANGED <<rpc, cache, pool, view, host, mode, seen, stuck, unsafe, orphaned, closed, spent>>

ApplyNetwork(n) ==
    /\ worker[n].pc = "network"
    /\ LET r == worker[n].rail
       IN  /\ api' = PatchNetwork(r)
           /\ late' = Late(r)
           /\ orphaned' = IF Recognised(api[r]) THEN orphaned ELSE orphaned \cup {r}
           /\ IF worker[n].rails[r] = "multi" THEN GoOn(n, "wire") ELSE RailDone(n, "rails")
    /\ UNCHANGED <<rpc, cache, pool, view, host, mode, seen, stuck, unsafe, closed, spent>>

WireRail(n) ==
    /\ worker[n].pc = "wire"
    /\ \/ /\ \E h \in ConfigureXPlane(n, worker[n].rail) : SetHost(n, h)
          /\ UNCHANGED spent
       \/ /\ \E h \in ConfigureXPlaneLogged(n, worker[n].rail) : SetHost(n, h)
          /\ Fault
    /\ RailDone(n, "rails")
    /\ UNCHANGED <<rpc, cache, pool, api, view, mode, seen, stuck, unsafe, late, orphaned, closed>>

\* A patch is answered with an error, and was carried out or not: the reconcile
\* is given up and queued again.
ApplyFails(n) ==
    /\ Fault
    /\ \/ /\ worker[n].pc = "rails"
          /\ \E r \in worker[n].todo :
               api' \in {api, PatchPrimary(r, worker[n].rails[r])} /\ late' = Late(r)
       \/ /\ worker[n].pc = "secondary"
          /\ api' \in {api, PatchSecondary(worker[n].rail)} /\ late' = Late(worker[n].rail)
       \/ /\ worker[n].pc = "network"
          /\ api' \in {api, PatchNetwork(worker[n].rail)} /\ late' = Late(worker[n].rail)
    /\ SetWorker(n, IdleWorker)
    /\ UNCHANGED <<rpc, cache, pool, view, host, mode, seen, stuck, unsafe, orphaned, closed>>

\* configureXPlane returns an error.
WireFails(n) ==
    /\ worker[n].pc = "wire"
    /\ Fault
    /\ \E h \in ConfigureXPlaneError(n, worker[n].rail) : SetHost(n, h)
    /\ SetWorker(n, IdleWorker)
    /\ UNCHANGED <<rpc, cache, pool, api, view, mode, seen, stuck, unsafe, late, orphaned, closed>>

\* Variant: a removed rail is recognised by its primary policy only.
ListRemovedPrimary(n) ==
    LET removed == {r \in Rails \ Present(worker[n].rails) : view[n][r].primary # "none"}
    IN  /\ worker[n].pc = "rails" /\ worker[n].todo = {}
        /\ SetWorker(n, [worker[n] EXCEPT !.pc = "clean", !.todo = removed,
                                          !.xp = {r \in removed : view[n][r].primary = "multi"}])
        /\ UNCHANGED <<rpc, cache, pool, api, view, host, mode, seen, stuck, unsafe, late, orphaned, closed, spent>>

\* deleteRemovedRailTopologies lists the owned policies from the cache.  A rail
\* counts as multiplane by the label of whichever of its policies comes first.
ListRemoved(n) ==
    LET removed == {r \in Rails \ Present(worker[n].rails) : Recognised(view[n][r])}
        multi   == {r \in removed : view[n][r].primary = "multi" \/ view[n][r].secondary}
        single  == {r \in removed : view[n][r].primary = "single"}
    IN  /\ worker[n].pc = "rails" /\ worker[n].todo = {}
        /\ \E xp \in SUBSET multi :
             /\ removed \subseteq xp \cup single
             /\ SetWorker(n, [worker[n] EXCEPT !.pc = "clean", !.todo = removed, !.xp = xp])
        /\ UNCHANGED <<rpc, cache, pool, api, view, host, mode, seen, stuck, unsafe, late, orphaned, closed, spent>>

\* Variant: only br-xplane is deleted.
CleanupXplane(h, r) == DelXplane(h)

\* cleanupXPlaneBridges deletes the rail's bridge and br-xplane.
Cleanup(h, r) == DelXplane(DelRail(h, r))

\* A failure that is not a timeout is only logged: either bridge may stay.
CleanupLogged(h, r) == {h, DelRail(h, r), DelXplane(h)}

\* One rail is cleaned up: its bridges if need be, then its primary policy, its
\* secondary policy and its OVSNetwork (deleteRailTopologyResources).
CleanBridges(n) ==
    /\ worker[n].pc = "clean"
    /\ \E r \in worker[n].todo :
         /\ \/ /\ SetHost(n, IF r \in worker[n].xp THEN Cleanup(host[n], r) ELSE host[n])
               /\ UNCHANGED spent
            \/ /\ r \in worker[n].xp /\ Fault
               /\ \E h \in CleanupLogged(host[n], r) : SetHost(n, h)
         /\ stuck' = IF r \in worker[n].xp THEN [stuck EXCEPT ![n] = @ \ {r}] ELSE stuck
         /\ TakeRail(n, r, "dropPrimary")
    /\ UNCHANGED <<rpc, cache, pool, api, view, mode, seen, unsafe, late, orphaned, closed>>

DropPrimary(n) ==
    /\ worker[n].pc = "dropPrimary"
    /\ api' = DeletePrimary(worker[n].rail)
    /\ GoOn(n, "dropSecondary")
    /\ UNCHANGED <<rpc, cache, pool, view, host, mode, seen, stuck, unsafe, late, orphaned, closed, spent>>

DropSecondary(n) ==
    /\ worker[n].pc = "dropSecondary"
    /\ api' = DeleteSecondary(worker[n].rail)
    /\ GoOn(n, "dropNetwork")
    /\ UNCHANGED <<rpc, cache, pool, view, host, mode, seen, stuck, unsafe, late, orphaned, closed, spent>>

DropNetwork(n) ==
    /\ worker[n].pc = "dropNetwork"
    /\ api' = DeleteNetwork(worker[n].rail)
    /\ orphaned' = orphaned \ {worker[n].rail}
    /\ RailDone(n, "clean")
    /\ UNCHANGED <<rpc, cache, pool, view, host, mode, seen, stuck, unsafe, late, closed, spent>>

\* The deletion of a bridge times out: the reconcile is given up and queued again.
CleanBridgesFails(n) ==
    /\ worker[n].pc = "clean"
    /\ Fault
    /\ \E r \in worker[n].todo \cap worker[n].xp :
         \E h \in CleanupLogged(host[n], r) \cup {Cleanup(host[n], r)} :
           /\ SetHost(n, h)
           /\ stuck' = [stuck EXCEPT ![n] = IF r \in h.bridges THEN @ \cup {r} ELSE @ \ {r}]
    /\ SetWorker(n, IdleWorker)
    /\ UNCHANGED <<rpc, cache, pool, api, view, mode, seen, unsafe, late, orphaned, closed>>

\* A deletion is answered with an error, and was carried out or not.
DropFails(n) ==
    /\ Fault
    /\ \/ worker[n].pc = "dropPrimary" /\ api' \in {api, DeletePrimary(worker[n].rail)}
       \/ worker[n].pc = "dropSecondary" /\ api' \in {api, DeleteSecondary(worker[n].rail)}
       \/ worker[n].pc = "dropNetwork" /\ api' \in {api, DeleteNetwork(worker[n].rail)}
    /\ SetWorker(n, IdleWorker)
    /\ UNCHANGED <<rpc, cache, pool, view, host, mode, seen, stuck, unsafe, late, orphaned, closed>>

\* The policies cannot be listed, or the status cannot be written.
ListFails(n) ==
    /\ worker[n].pc = "rails" /\ worker[n].todo = {}
    /\ Fault
    /\ SetWorker(n, IdleWorker)
    /\ UNCHANGED <<rpc, cache, pool, api, view, host, mode, seen, stuck, unsafe, late, orphaned, closed>>

\* A reconcile that was no deletion ends.
Finish(n) ==
    /\ worker[n].pc = "clean" /\ worker[n].todo = {} /\ ~worker[n].deleting
    /\ SetWorker(n, IdleWorker)
    /\ UNCHANGED <<rpc, cache, pool, api, view, host, mode, seen, stuck, unsafe, late, orphaned, closed, spent>>

\* Variant: a pool config that is gone already is an error.
DeletePoolNotFound(n) ==
    /\ worker[n].pc = "clean" /\ worker[n].todo = {} /\ worker[n].deleting
    /\ pool' = FALSE
    /\ IF pool THEN GoOn(n, "finalizer") ELSE SetWorker(n, IdleWorker)
    /\ UNCHANGED <<rpc, cache, api, view, host, mode, seen, stuck, unsafe, late, orphaned, closed, spent>>

\* With all rails cleaned up a deletion deletes the pool config, ...
DeletePool(n) ==
    /\ worker[n].pc = "clean" /\ worker[n].todo = {} /\ worker[n].deleting
    /\ pool' = FALSE
    /\ GoOn(n, "finalizer")
    /\ UNCHANGED <<rpc, cache, api, view, host, mode, seen, stuck, unsafe, late, orphaned, closed, spent>>

\* ... and removes the finalizer, and with it the object, by a patch that
\* carries no lock.
RemoveFinalizer(n) ==
    /\ worker[n].pc = "finalizer"
    /\ rpc' = Removed(rpc)
    /\ closed' = closed \cup {n}
    /\ SetWorker(n, IdleWorker)
    /\ UNCHANGED <<cache, pool, api, view, host, mode, seen, stuck, unsafe, late, orphaned, spent>>

\* Either call is answered with an error, and was carried out or not.
DeletionFails(n) ==
    /\ Fault
    /\ \/ /\ worker[n].pc = "clean" /\ worker[n].todo = {} /\ worker[n].deleting
          /\ pool' \in {pool, FALSE} /\ UNCHANGED rpc
       \/ /\ worker[n].pc = "finalizer"
          /\ rpc' \in {rpc, Removed(rpc)} /\ UNCHANGED pool
    /\ SetWorker(n, IdleWorker)
    /\ UNCHANGED <<cache, api, view, host, mode, seen, stuck, unsafe, late, orphaned, closed>>

-----------------------------------------------------------------------------
(* Informers, users, the SR-IOV configuration daemon, and the host. *)

CacheSync(n) ==
    /\ cache[n] # rpc
    /\ cache' = [cache EXCEPT ![n] = rpc]
    /\ UNCHANGED <<rpc, pool, api, view, worker, host, mode, seen, stuck, unsafe, late, orphaned, closed, spent>>

ViewSync(n) ==
    /\ view[n] # api
    /\ view' = [view EXCEPT ![n] = api]
    /\ UNCHANGED <<rpc, cache, pool, api, worker, host, mode, seen, stuck, unsafe, late, orphaned, closed, spent>>

\* A user edits one rail; the CRD wants at least one to remain.
EditSpec ==
    /\ rpc.phase = "live" /\ rpc.gen < MaxGen
    /\ \E r \in Rails, k \in Kinds :
         /\ <<rpc.rails[r], k>> \in Edits
         /\ rpc' = [rpc EXCEPT !.gen = @ + 1, !.rails[r] = k]
         /\ Present(rpc'.rails) # {}
    /\ UNCHANGED <<cache, pool, api, view, worker, host, mode, seen, stuck, unsafe, late, orphaned, closed, spent>>

DeleteObject ==
    /\ rpc.phase = "live" /\ rpc.gen < MaxGen
    /\ rpc' = IF rpc.fin THEN [rpc EXCEPT !.phase = "deleting", !.gen = @ + 1] ELSE Removed(rpc)
    /\ UNCHANGED <<cache, pool, api, view, worker, host, mode, seen, stuck, unsafe, late, orphaned, closed, spent>>

\* The daemon switches the PFs of a node, and publishes the mode they are in.
SwitchMode(n) ==
    /\ mode[n] = "legacy"
    /\ mode' = [mode EXCEPT ![n] = "switchdev"]
    /\ UNCHANGED <<rpc, cache, pool, api, view, worker, host, seen, stuck, unsafe, late, orphaned, closed, spent>>

Publish(n) ==
    /\ seen[n] # mode[n]
    /\ seen' = [seen EXCEPT ![n] = mode[n]]
    /\ UNCHANGED <<rpc, cache, pool, api, view, worker, host, mode, stuck, unsafe, late, orphaned, closed, spent>>

\* The safe-start script, run by systemd before ovs-vswitchd if the drop-in is
\* installed: it takes the uplinks whose PF is not in switchdev off br-xplane.
SafeStart(h) == IF h.hook = "installed" THEN [h EXCEPT !.uplinks = {}] ELSE h

\* The host reboots: the PFs come up in legacy mode, ovs-vswitchd starts on the
\* database it finds, the flowcontroller starts with fresh caches.
Reboot(n) ==
    /\ spent.reboots < MaxReboots
    /\ spent' = [spent EXCEPT !.reboots = @ + 1]
    /\ mode' = [mode EXCEPT ![n] = "legacy"]
    /\ SetHost(n, SafeStart(host[n]))
    /\ unsafe' = IF SafeStart(host[n]).uplinks # {} THEN unsafe \cup {n} ELSE unsafe
    /\ SetWorker(n, IdleWorker)
    /\ cache' = [cache EXCEPT ![n] = rpc]
    /\ view' = [view EXCEPT ![n] = api]
    /\ UNCHANGED <<rpc, pool, api, seen, stuck, late, orphaned, closed>>

-----------------------------------------------------------------------------
\* An object has just been created; node states may exist already, and PFs may
\* be in switchdev mode from earlier policies.
Init ==
    /\ \E f \in [Rails -> Kinds], N \in SUBSET Nodes :
         /\ Present(f) # {}
         /\ rpc = [phase |-> "live", fin |-> FALSE, gen |-> 1, members |-> N, rails |-> f]
    /\ cache = [n \in Nodes |-> Gone]
    /\ pool = FALSE
    /\ api = [r \in Rails |-> NoObjects]
    /\ view = [n \in Nodes |-> api]
    /\ worker = [n \in Nodes |-> IdleWorker]
    /\ host = [n \in Nodes |-> BareHost]
    /\ mode \in [Nodes -> {"legacy", "switchdev"}]
    /\ seen \in [Nodes -> Modes] /\ \A n \in Nodes : seen[n] \in {"absent", mode[n]}
    /\ stuck = [n \in Nodes |-> {}]
    /\ unsafe = {}
    /\ late = [pool |-> FALSE, rails |-> {}]
    /\ orphaned = {} /\ closed = {}
    /\ spent = [faults |-> 0, reboots |-> 0]

Step(n) ==
    \/ AddFinalizer(n) \/ Start(n)
    \/ ApplyPrimary(n) \/ ApplySecondary(n) \/ ApplyNetwork(n) \/ WireRail(n)
    \/ ListRemoved(n)
    \/ CleanBridges(n) \/ DropPrimary(n) \/ DropSecondary(n) \/ DropNetwork(n)
    \/ Finish(n) \/ DeletePool(n) \/ RemoveFinalizer(n)

Failure(n) ==
    \/ ApplyFails(n) \/ WireFails(n) \/ ListFails(n)
    \/ CleanBridgesFails(n) \/ DropFails(n) \/ DeletionFails(n)
    \/ Reboot(n)

Delivery(n) == CacheSync(n) \/ ViewSync(n) \/ Publish(n)

Next ==
    \/ \E n \in Nodes : Step(n) \/ Failure(n) \/ Delivery(n) \/ SwitchMode(n)
    \/ EditSpec
    \/ DeleteObject

Spec == Init /\ [][Next]_vars

\* Reconciles run again and again (retries, events, the periodic resync), get
\* on with their work, informers catch up, node states are published.
Fairness ==
    \A n \in Nodes : /\ WF_vars(Step(n))
                     /\ WF_vars(CacheSync(n)) /\ WF_vars(ViewSync(n)) /\ WF_vars(Publish(n))

FairSpec == Spec /\ Fairness

-----------------------------------------------------------------------------
(* Properties. *)

TypeOK ==
    /\ rpc \in Object
    /\ cache \in [Nodes -> Object]
    /\ pool \in BOOLEAN
    /\ api \in [Rails -> RailObjects]
    /\ view \in [Nodes -> [Rails -> RailObjects]]
    /\ worker \in [Nodes -> Worker]
    /\ host \in [Nodes -> Host]
    /\ mode \in [Nodes -> Modes]
    /\ seen \in [Nodes -> Modes]
    /\ stuck \in [Nodes -> SUBSET Rails]
    /\ unsafe \subseteq Nodes
    /\ late \in [pool : BOOLEAN, rails : SUBSET Rails]
    /\ orphaned \subseteq Rails
    /\ closed \subseteq Nodes
    /\ spent \in [faults : Nat, reboots : Nat]

\* ovs-vswitchd never starts on an uplink whose PF has fallen back to legacy
\* mode, wherever a failure, a reboot or a stale node state strikes: whenever
\* the database holds an uplink, the safe-start hook is installed in full.
SafeStarts == unsafe = {} /\ \A n \in Nodes : host[n].uplinks # {} => host[n].hook = "installed"

\* A deletion leaves nothing of the rails in the object's last spec behind: no
\* policy, OVSNetwork or pool config, except what a reconcile on another node
\* applied that had not heard of it, and, unless a failure was only logged, no
\* bridge on a node that removed the finalizer (handleDeletion).
DeletionCleansSpec ==
    rpc.phase = "gone" =>
        /\ pool => late.pool
        /\ \A r \in Present(rpc.rails) : api[r] = NoObjects \/ r \in late.rails
        /\ spent.faults = 0 => \A n \in closed : host[n].bridges \cap Multi(rpc.rails) = {}

\* The object keeps its finalizer as long as the deletion of a bridge has timed
\* out on some node and was not carried out since.
FinalizerHeld == rpc.phase = "gone" => \A n \in Nodes : stuck[n] = {}

\* A rail that stays in the spec keeps its wiring when another one is removed:
\* br-xplane goes only with the last multiplane rail.
XplaneKept ==
    [][\A n \in Nodes :
          host[n].xplane /\ ~host'[n].xplane /\ ~worker[n].deleting
              => Multi(worker[n].rails) = {}]_vars

\* A reconcile of the current spec leaves a rail with one PF without the
\* secondary policy for further PFs.
SingleHasNoSecondary ==
    [][\A n \in Nodes :
          Finish(n) /\ ~worker[n].deleting /\ worker[n].rails = rpc.rails
              => \A r \in Rails : rpc.rails[r] = "single" => ~api[r].secondary]_vars

\* Rail r is wired on a host: bridges, all uplinks, patch ports.
Wired(h, r) == h.xplane /\ r \in h.bridges /\ Uplinks(r) \subseteq h.uplinks /\ r \in h.patched

\* Cluster objects and hosts are what the spec asks for, except that the
\* OVSNetwork of a removed rail stays for good when the rail's policies, which it
\* is recognised by, are gone: if its deletion fails or is cut off by a reboot,
\* or if a reconcile of the old spec on another node patches it after them.
AsSpecified ==
    /\ pool
    /\ \A r \in Rails :
          /\ rpc.rails[r] = "absent" =>
                /\ api[r].primary = "none" /\ ~api[r].secondary
                /\ api[r].network => r \in orphaned \/ spent.faults > 0 \/ spent.reboots > 0
          /\ rpc.rails[r] # "absent" => api[r].primary = rpc.rails[r] /\ api[r].network
          /\ rpc.rails[r] = "multi" =>
                api[r].secondary /\ \A n \in rpc.members : Wired(host[n], r)

\* Once edits, faults and reboots have ended and the PFs are in switchdev, a
\* live object is carried out and stays carried out: removals on one node, late
\* reconciles on another and stale policy lists do not undo it for ever.
RailsConverge ==
    <>[](rpc.phase = "live" /\ \A n \in rpc.members : mode[n] = "switchdev") => <>[]AsSpecified

\* A deleted object does not stay: every obstacle to its cleanup passes.
DeletionEnds == rpc.phase = "deleting" ~> rpc.phase = "gone"
=============================================================================
