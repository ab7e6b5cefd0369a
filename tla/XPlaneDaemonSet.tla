--------------------------- MODULE XPlaneDaemonSet ---------------------------
(***************************************************************************)
(* The X-Plane DaemonSet that the objects of one namespace share.          *)
(*                                                                         *)
(* Every node's flowcontroller deploys it for every object whose pool has  *)
(* the node (deployXplane): it reads the tolerations of its own parent,    *)
(* the flowcontroller DaemonSet, then the X-Plane DaemonSet, and creates   *)
(* or updates that with the tolerations, the object's nodeSelector and the *)
(* object as owner.  Both DaemonSets come from one informer cache, the     *)
(* node's own Pod from another.  The garbage collector deletes a DaemonSet *)
(* whose owner is gone.                                                    *)
(***************************************************************************)
EXTENDS Naturals

CONSTANTS
    Nodes,        \* nodes with a flowcontroller
    Objects,      \* SpectrumXRailPoolConfigs with a multiplane rail
    Labels,       \* labels, and terms of a nodeSelector
    NodeLabels,   \* NodeLabels[n]: the labels of node n
    Tolerations,  \* tolerations the parent may have
    None,         \* no object, no DaemonSet
    MaxChanges,   \* bound: changes of objects, the parent and its pods
    MaxFaults     \* bound: failed API calls

ASSUME XPlaneAssumption ==
    /\ NodeLabels \in [Nodes -> SUBSET Labels]
    /\ None \notin Objects
    /\ MaxChanges \in Nat /\ MaxFaults \in Nat

VARIABLES
    live,      \* the objects that exist
    selector,  \* selector[o]: nodeSelector of o
    parent,    \* the flowcontroller DaemonSet: its UID and tolerations
    podOwner,  \* podOwner[n]: UID of the controller of node n's own Pod, as cached
    ds,        \* the X-Plane DaemonSet, or None
    view,      \* view[n]: the two DaemonSets in node n's cache
    current,   \* nodes that have the stored version of the X-Plane DaemonSet
    queue,     \* queue[n]: objects in node n's work queue
    worker,    \* worker[n]: the reconcile in progress on node n
    silent,    \* history: the X-Plane DaemonSet may be wrong with no event to come,
               \* since it was garbage-collected, an old version of it looked right,
               \* a node wrote it that had left the pool, or one heard of tolerations
               \* while its own Pod had no controller
    spent      \* changes and faults so far

vars == <<live, selector, parent, podOwner, ds, view, current, queue, worker, silent, spent>>

\* UIDs count the parents that were created; 0 is the one of a Pod that has no
\* controller.
NoUid == 0

Parents    == [uid : Nat \ {NoUid}, tolerations : SUBSET Tolerations]
DaemonSets == [owner : Objects, selector : SUBSET Labels, tolerations : SUBSET Tolerations]

ASSUME NoneAssumption == None \notin DaemonSets

\* A reconcile has a copy of the object ("tolerations": it is about to read
\* those), then also the tolerations ("sync").
Workers == [pc : {"idle", "tolerations", "sync"}, object : Objects \cup {None},
            selector : SUBSET Labels, tolerations : SUBSET Tolerations]

IdleWorker == [pc |-> "idle", object |-> None, selector |-> {}, tolerations |-> {}]

Pool(sel) == {n \in Nodes : sel \subseteq NodeLabels[n]}

Init ==
    /\ live \in (SUBSET Objects) \ {{}}
    /\ selector \in [Objects -> SUBSET Labels]
    /\ \E t \in SUBSET Tolerations : parent = [uid |-> 1, tolerations |-> t]
    /\ podOwner = [n \in Nodes |-> 1]
    /\ ds = None
    /\ view = [n \in Nodes |-> [parent |-> parent, ds |-> None]]
    /\ current = Nodes
    /\ queue = [n \in Nodes |-> live]
    /\ worker = [n \in Nodes |-> IdleWorker]
    /\ silent = FALSE
    /\ spent = [changes |-> 0, faults |-> 0]

-----------------------------------------------------------------------------
(* The reconcile of node n. *)

\* An object is taken off the queue; unless it is gone, or its pool does not
\* have the node, configureXPlane gets to deployXplane.  The pools are those of
\* nodes that are ready for it: until all node states are there and the node's
\* PFs are in switchdev mode (RailPool's Wirable) nothing is deployed.
Start(n) ==
    /\ worker[n].pc = "idle"
    /\ \E o \in queue[n] :
         /\ queue' = [queue EXCEPT ![n] = @ \ {o}]
         /\ worker' = IF o \in live /\ n \in Pool(selector[o])
                        THEN [worker EXCEPT ![n] = [pc |-> "tolerations", object |-> o,
                                                    selector |-> selector[o], tolerations |-> {}]]
                        ELSE worker
    /\ UNCHANGED <<live, selector, parent, podOwner, ds, view, current, silent, spent>>

\* The reconcile ends with an error and is queued again.
Fail(n) ==
    /\ worker' = [worker EXCEPT ![n] = IdleWorker]
    /\ queue' = [queue EXCEPT ![n] = @ \cup {worker[n].object}]

\* flowcontrollerTolerations: an error if the cached parent is not the one that
\* the Pod belongs to, or the Pod belongs to none.
ReadTolerations(n) ==
    /\ worker[n].pc = "tolerations"
    /\ IF view[n].parent.uid = podOwner[n]
         THEN /\ worker' = [worker EXCEPT ![n].pc = "sync", ![n].tolerations = view[n].parent.tolerations]
              /\ UNCHANGED queue
         ELSE Fail(n)
    /\ UNCHANGED <<live, selector, parent, podOwner, ds, view, current, silent, spent>>

\* Variant: the object is not made the owner.
WantedOwnerless(n) ==
    [owner |-> None, selector |-> worker[n].selector, tolerations |-> worker[n].tolerations]

\* What syncDsObject asks for.
Wanted(n) ==
    [owner |-> worker[n].object, selector |-> worker[n].selector, tolerations |-> worker[n].tolerations]

\* Variant: tolerations are compared like the rest of the spec.
UpToDateDerivative(in, old) ==
    in.owner = old.owner /\ in.tolerations \subseteq old.tolerations /\ in.selector \subseteq old.selector

\* Variant: of the spec only the tolerations are compared.
UpToDateTolerations(in, old) ==
    in.owner = old.owner /\ in.tolerations = old.tolerations

\* syncDaemonSet: owner and tolerations have to be equal, but DeepDerivative
\* does not see a label that is in the stored nodeSelector only.
UpToDate(in, old) ==
    /\ in.owner = old.owner
    /\ in.tolerations = old.tolerations
    /\ in.selector \subseteq old.selector

\* DaemonSet d needs no update.
Satisfied(n, d) == d # None /\ UpToDate(Wanted(n), d)

\* A write of the DaemonSet: every cached version is old from now on.
Store(new) == ds' = new /\ current' = {}

\* A Create is refused if there is one (AlreadyExists), an Update if the cached
\* version is old (Conflict, NotFound).
Accepted(n) == IF view[n].ds = None THEN ds = None ELSE n \in current

\* syncDaemonSet: Get from the cache, compare, Create or Update.
Sync(n) ==
    /\ worker[n].pc = "sync"
    /\ \/ /\ Satisfied(n, view[n].ds)
          /\ worker' = [worker EXCEPT ![n] = IdleWorker]
          /\ silent' = (silent \/ ~Satisfied(n, ds))
          /\ UNCHANGED <<ds, current, queue>>
       \/ /\ ~Satisfied(n, view[n].ds)
          /\ IF Accepted(n)
               THEN Store(Wanted(n)) /\ worker' = [worker EXCEPT ![n] = IdleWorker] /\ UNCHANGED queue
               ELSE Fail(n) /\ UNCHANGED <<ds, current>>
          /\ silent' = (silent \/ n \notin Pool(selector[worker[n].object]))
    /\ UNCHANGED <<live, selector, parent, podOwner, view, spent>>

\* A call is answered with an error, carried out or not.
DeployFails(n) ==
    /\ worker[n].pc # "idle"
    /\ spent.faults < MaxFaults /\ spent' = [spent EXCEPT !.faults = @ + 1]
    /\ Fail(n)
    /\ \/ UNCHANGED <<ds, current>>
       \/ /\ worker[n].pc = "sync" /\ Accepted(n) /\ ~Satisfied(n, view[n].ds)
          /\ Store(Wanted(n))
    /\ silent' = (silent \/ n \notin Pool(selector[worker[n].object]))
    /\ UNCHANGED <<live, selector, parent, podOwner, view>>

-----------------------------------------------------------------------------
(* Events. *)

\* Variant: only an event of the parent that the Pod belongs to by then counts.
ParentQueuesOwn(n) == view[n].parent # parent /\ podOwner[n] = parent.uid

\* flowcontrollerTolerationsChanged and flowcontrollerToRailConfigs: the parent
\* has new tolerations, or was deleted or created, and the Pod belongs to it.  For
\* a Pod that has no controller at the time the event is dropped.
ParentQueues(n) == view[n].parent # parent /\ podOwner[n] \in view[n].parent.uid..parent.uid

\* Tolerations are heard of in such an event.
Missed(n) == podOwner[n] = NoUid /\ view[n].parent.tolerations # parent.tolerations

\* The informer catches up.  Events of the X-Plane DaemonSet itself queue nothing,
\* nor does the adoption of a Pod whose tolerations were missed.
ViewSync(n) ==
    /\ view[n].parent # parent \/ n \notin current
    /\ view' = [view EXCEPT ![n] = [parent |-> parent, ds |-> ds]]
    /\ current' = current \cup {n}
    /\ queue' = IF ParentQueues(n) THEN [queue EXCEPT ![n] = @ \cup live] ELSE queue
    /\ silent' = (silent \/ Missed(n))
    /\ UNCHANGED <<live, selector, parent, podOwner, ds, worker, spent>>

\* The periodic resync.  It is counted on only where no event will come.
Resync(n) ==
    /\ silent /\ ~(live \subseteq queue[n])
    /\ queue' = [queue EXCEPT ![n] = @ \cup live]
    /\ UNCHANGED <<live, selector, parent, podOwner, ds, view, current, worker, silent, spent>>

\* The garbage collector.
Collect ==
    /\ ds # None /\ ds.owner \in Objects \ live
    /\ Store(None)
    /\ silent' = TRUE
    /\ UNCHANGED <<live, selector, parent, podOwner, view, queue, worker, spent>>

-----------------------------------------------------------------------------
(* Users. *)

Change == spent.changes < MaxChanges /\ spent' = [spent EXCEPT !.changes = @ + 1]

EditSelector ==
    /\ Change
    /\ \E o \in live, s \in SUBSET Labels :
         /\ s # selector[o]
         /\ selector' = [selector EXCEPT ![o] = s]
         /\ queue' = [n \in Nodes |-> queue[n] \cup {o}]
    /\ UNCHANGED <<live, parent, podOwner, ds, view, current, worker, silent>>

DeleteObject ==
    /\ Change
    /\ \E o \in live : live' = live \ {o}
    /\ UNCHANGED <<selector, parent, podOwner, ds, view, current, queue, worker, silent>>

EditParent ==
    /\ Change
    /\ \E t \in SUBSET Tolerations : t # parent.tolerations /\ parent' = [parent EXCEPT !.tolerations = t]
    /\ UNCHANGED <<live, selector, podOwner, ds, view, current, queue, worker, silent>>

\* The parent is deleted and created again.  What there is in between is left
\* out: tolerations cannot be read then either, and the events of the deletion
\* and of the creation queue the same.
ReplaceParent ==
    /\ Change
    /\ \E t \in SUBSET Tolerations : parent' = [uid |-> parent.uid + 1, tolerations |-> t]
    /\ UNCHANGED <<live, selector, podOwner, ds, view, current, queue, worker, silent>>

\* A fresh flowcontroller Pod reconciles everything.
FreshPod(n) ==
    /\ podOwner' = [podOwner EXCEPT ![n] = parent.uid]
    /\ view' = [view EXCEPT ![n] = [parent |-> parent, ds |-> ds]]
    /\ current' = current \cup {n}
    /\ queue' = [queue EXCEPT ![n] = live]
    /\ worker' = [worker EXCEPT ![n] = IdleWorker]

\* The garbage collector deletes the Pod of a parent that is gone, and the new
\* parent makes another, or orphans it: the Pod stays without controller, ...
LoseParent(n) ==
    /\ podOwner[n] \notin {NoUid, parent.uid}
    /\ \/ FreshPod(n)
       \/ /\ podOwner' = [podOwner EXCEPT ![n] = NoUid]
          /\ UNCHANGED <<view, current, queue, worker>>
    /\ UNCHANGED <<live, selector, parent, ds, silent, spent>>

\* ... until the new parent adopts it.
Adopt(n) ==
    /\ podOwner[n] = NoUid
    /\ podOwner' = [podOwner EXCEPT ![n] = parent.uid]
    /\ UNCHANGED <<live, selector, parent, ds, view, current, queue, worker, silent, spent>>

\* The Pod is replaced.
RestartPod(n) ==
    /\ Change
    /\ FreshPod(n)
    /\ UNCHANGED <<live, selector, parent, ds, silent>>

-----------------------------------------------------------------------------
Work(n) == Start(n) \/ ReadTolerations(n) \/ Sync(n)

Next ==
    \/ \E n \in Nodes : \/ Work(n) \/ DeployFails(n) \/ ViewSync(n) \/ Resync(n)
                       \/ LoseParent(n) \/ Adopt(n) \/ RestartPod(n)
    \/ Collect
    \/ EditSelector \/ DeleteObject \/ EditParent \/ ReplaceParent

Spec == Init /\ [][Next]_vars

\* Queued objects are reconciled, caches catch up, and Kubernetes' controllers
\* collect garbage, orphan Pods and adopt them.
Fairness ==
    /\ WF_vars(Collect)
    /\ \A n \in Nodes : /\ WF_vars(Work(n)) /\ WF_vars(ViewSync(n))
                        /\ WF_vars(Resync(n)) /\ WF_vars(LoseParent(n)) /\ WF_vars(Adopt(n))

FairSpec == Spec /\ Fairness

-----------------------------------------------------------------------------
(* Properties. *)

TypeOK ==
    /\ live \subseteq Objects
    /\ selector \in [Objects -> SUBSET Labels]
    /\ parent \in Parents
    /\ podOwner \in [Nodes -> Nat]
    /\ ds \in DaemonSets \cup {None}
    /\ view \in [Nodes -> [parent : Parents, ds : DaemonSets \cup {None}]]
    /\ current \subseteq {n \in Nodes : view[n].ds = ds}
    /\ queue \in [Nodes -> SUBSET Objects]
    /\ worker \in [Nodes -> Workers]
    /\ silent \in BOOLEAN
    /\ spent \in [changes : Nat, faults : Nat]

\* Some object has a node to run X-Plane on.
Served == \E o \in live : Pool(selector[o]) # {}

\* Nothing is queued or in progress, every node has seen the parent, and none of
\* the events has happened after which only a resync helps.
AtRest ==
    /\ ~silent
    /\ \A n \in Nodes : queue[n] = {} /\ worker[n].pc = "idle" /\ view[n].parent = parent

\* No wake-up is lost: when every node is content, X-Plane is as it should be.
\* It is there if an object has nodes for it, and if its owner has nodes, one of
\* which would repair it, it has the tolerations of the parent and all labels of
\* the owner, however edits, old copies, collisions, failed calls and new
\* parents came together (SetupWithManager, syncDaemonSet).  Excepted is what a
\* node hears of while its Pod has no controller: no event follows then.
RestsRight ==
    AtRest =>
        /\ Served => ds # None
        /\ ds # None /\ ds.owner \in live /\ Pool(selector[ds.owner]) # {}
             => ds.tolerations = parent.tolerations /\ selector[ds.owner] \subseteq ds.selector

\* X-Plane ends up with the tolerations that the flowcontroller's DaemonSet has,
\* additions and removals alike, also when a node writes what it read before a
\* change, when the parent is replaced under the Pods, and when writes collide
\* (flowcontrollerTolerations, syncDaemonSet).  After a change that Pods without
\* a controller heard of it takes a resync.
TolerationsFollow == <>[](Served => ds # None /\ ds.tolerations = parent.tolerations)

\* X-Plane outlives the object that happens to own it as long as another one has
\* nodes for it, and goes with the last object: neither a late reconcile of a
\* deleted object nor the garbage collector has the last word.
LivesWithObjects ==
    /\ <>[](Served => ds # None /\ ds.owner \in live)
    /\ <>[](live = {} => ds = None)

\* X-Plane does not run outside the pool of the object that owns it, once the
\* object's nodeSelector was edited to one with nodes: the stored nodeSelector
\* has all its labels.  It may have more: a label removed from the object stays.
StaysInPool ==
    <>[](ds # None /\ ds.owner \in live /\ Pool(selector[ds.owner]) # {}
            => selector[ds.owner] \subseteq ds.selector)
=============================================================================
