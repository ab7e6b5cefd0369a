----------------------------- MODULE SyncStatus -----------------------------
(***************************************************************************)
(* The status protocol of one SpectrumXRailPoolConfig.                     *)
(*                                                                         *)
(* A flowcontroller runs on every node of the cluster.  All of them        *)
(* reconcile the same object, read it through an informer cache that lags  *)
(* the API server, write their own entry of status.nodeStates and          *)
(* recompute the aggregate status.syncStatus, with an optimistic lock on   *)
(* the object's resourceVersion and a bounded number of retries.           *)
(*                                                                         *)
(* What a reconcile does to the cluster and to the host (policies,         *)
(* bridges) is the subject of RailPool; here it is one step that succeeds  *)
(* or fails.  The API server, the informers, the work queue and the SR-IOV *)
(* operator are external and modelled by how this controller uses them.    *)
(***************************************************************************)
EXTENDS Naturals

CONSTANTS
    Nodes,        \* the cluster's nodes, one flowcontroller on each
    Labels,       \* values of the node label the object's nodeSelector tests
    NoSel,        \* "no selector": the policy object does not exist
    SriovReports, \* the SriovNetworkNodeState conditions considered
    MaxGen,       \* bound: generations of the object (spec edits, deletion)
    MaxTries,     \* steps of retry.DefaultRetry (5 in client-go)
    MaxRelabels,  \* bound: node label changes
    MaxSriov,     \* bound: SriovNetworkNodeState changes
    ResyncEnabled,\* informers resync periodically (every ten hours or so)
    MaxFaults     \* bound: failed or lost calls and process restarts

ASSUME NoSelAssumption == NoSel \notin Labels
ASSUME BoundsAssumption ==
    /\ MaxGen \in Nat
    /\ MaxTries \in Nat \ {0}
    /\ MaxRelabels \in Nat
    /\ MaxSriov \in Nat
    /\ ResyncEnabled \in BOOLEAN
    /\ MaxFaults \in Nat

VARIABLES
    obj,        \* the object as the API server stores it
    cache,      \* cache[n]: the object as node n's informer last delivered it
    synced,     \* nodes whose cached object carries the stored resourceVersion
    queued,     \* nodes whose work queue holds the object's key
    worker,     \* worker[n]: the reconcile in progress on node n
    locked,     \* nodes whose patch closure read the stored resourceVersion
    labels,     \* labels[n]: the label of Node n
    labelView,  \* labelView[n]: the labels of all nodes in node n's cache
    sriov,      \* sriov[n]: node n's SriovNetworkNodeState, as cached there
    policySel,  \* nodeSelector of the SriovNetworkNodePolicies, or NoSel
    applied,    \* history: applied[n], generations node n has carried out
    aggPool,    \* history: the pool the last accepted status write saw
    spent       \* environment steps taken, against the bounds above

vars == <<obj, cache, synced, queued, worker, locked, labels, labelView,
          sriov, policySel, applied, aggPool, spent>>

-----------------------------------------------------------------------------
(* The object. *)

States == {"InProgress", "Failed", "Succeeded"}

\* One element of status.nodeStates; "None" stands for a node without one.
\* The message is kept as far as the code compares it: empty or an error.
NodeState == [state : States \cup {"None"}, err : BOOLEAN, gen : Nat]

NoState == [state |-> "None", err |-> FALSE, gen |-> 0]

Object == [phase  : {"live", "deleting", "gone"},
           fin    : BOOLEAN,                  \* our finalizer is on it
           gen    : Nat,                      \* metadata.generation
           sel    : Labels \cup {NoSel},      \* spec.nodeSelector
           states : [Nodes -> NodeState],     \* status.nodeStates
           sync   : States \cup {"None"},     \* status.syncStatus
           obs    : Nat]                      \* status.observedGeneration

\* No object: Get answers NotFound.
GoneObject == [phase |-> "gone", fin |-> FALSE, gen |-> 0, sel |-> NoSel,
               states |-> [n \in Nodes |-> NoState], sync |-> "None", obs |-> 0]

\* The conditions of a SriovNetworkNodeState that processNodeStatus tells
\* apart: its absence, its syncStatus, and success without any interface.
SriovStates == {"absent", "InProgress", "Failed", "Succeeded", "SucceededNoInterfaces"}

ASSUME SriovAssumption == SriovReports \subseteq SriovStates

\* Nodes the selector sel matches under the labels lbl.
Pool(lbl, sel) == {n \in Nodes : lbl[n] = sel}

(* aggregateSyncStatus: the aggregate of the node states st for generation *)
(* g over the nodes of pool.                                               *)
Aggregate(st, g, pool) ==
    LET current == {n \in pool : st[n].state # "None" /\ st[n].gen = g}
    IN  IF \E n \in current : st[n].state = "Failed" THEN "Failed"
        ELSE IF pool # {} /\ \A n \in pool : n \in current /\ st[n].state = "Succeeded"
        THEN "Succeeded" ELSE "InProgress"

-----------------------------------------------------------------------------
(* The reconcile in progress on a node. *)

PCs == {"idle", "delete", "work", "read", "write"}

\* What follows the status patch: the reconcile's work, its normal end, or
\* its end with an error.
Conts == {"begin", "report", "fail"}

Job == [pc       : PCs,
        gen      : Nat,               \* rpc.Generation
        sel      : Labels \cup {NoSel},   \* rpc.Spec.NodeSelector
        selected : BOOLEAN,           \* localNodeSelected
        target   : States,            \* newState
        err      : BOOLEAN,           \* message is not empty
        cont     : Conts,
        tries    : 0..MaxTries]       \* attempts RetryOnConflict has made

IdleJob == [pc |-> "idle", gen |-> 0, sel |-> NoSel, selected |-> FALSE,
            target |-> "InProgress", err |-> FALSE, cont |-> "begin", tries |-> 0]

Idle(n) == worker[n].pc = "idle"

\* A job that calls patchSyncStatusWithMessage next.
Patching(job, target, err, cont) ==
    [job EXCEPT !.pc = "read", !.target = target, !.err = err,
                !.cont = cont, !.tries = 0]

SetJob(n, job) == worker' = [worker EXCEPT ![n] = job]

\* The API server accepts a change of the object: every resourceVersion read
\* before is out of date.
Store(o) == obj' = o /\ synced' = {} /\ locked' = {}

\* Variant: an error is logged but not returned, so nothing is queued again.
ReturnSwallowed(n, ok) == SetJob(n, IdleJob) /\ UNCHANGED queued

\* The reconcile on n returns nil, or returns an error and is queued again.
Return(n, ok) ==
    /\ SetJob(n, IdleJob)
    /\ queued' = IF ok THEN queued ELSE queued \cup {n}

\* failReconcile, and the failure branch of handleDeletion: a selected node
\* reports Failed, then the reconcile returns the error.
FailReconcile(n, selected) ==
    IF selected
    THEN SetJob(n, Patching(worker[n], "Failed", TRUE, "fail")) /\ UNCHANGED queued
    ELSE Return(n, FALSE)

-----------------------------------------------------------------------------
(* doReconcile, up to its first status patch. *)

Dequeue(n) ==
    /\ Idle(n)
    /\ n \in queued

\* The object is not in the cache: the reconciler adapter ignores NotFound.
StartGone(n) ==
    /\ Dequeue(n)
    /\ cache[n].phase = "gone"
    /\ queued' = queued \ {n}
    /\ UNCHANGED <<obj, cache, synced, worker, locked, labels, labelView, sriov,
                   policySel, applied, aggPool, spent>>

\* A first reconcile only adds the finalizer, by a merge patch without lock:
\* it fails when the object is gone and changes nothing when another node's
\* patch came first.
AddFinalizer(n) ==
    /\ Dequeue(n)
    /\ cache[n].phase # "gone" /\ ~cache[n].fin
    /\ IF obj.phase = "gone" \/ obj.fin
       THEN UNCHANGED <<obj, synced, locked>>
       ELSE Store([obj EXCEPT !.fin = TRUE])
    /\ queued' = IF obj.phase = "gone" THEN queued ELSE queued \ {n}
    /\ UNCHANGED <<cache, worker, labels, labelView, sriov, policySel, applied, aggPool, spent>>

\* The object is being deleted: handleDeletion starts its cleanup.
StartDeletion(n) ==
    /\ Dequeue(n)
    /\ cache[n].phase = "deleting" /\ cache[n].fin
    /\ queued' = queued \ {n}
    /\ SetJob(n, [worker[n] EXCEPT !.pc = "delete", !.gen = cache[n].gen, !.sel = cache[n].sel])
    /\ UNCHANGED <<obj, cache, synced, locked, labels, labelView, sriov,
                   policySel, applied, aggPool, spent>>

\* localNodeStateSucceededForGeneration, on the object o as node n cached it.
LocalSucceeded(n, o) == o.states[n].state = "Succeeded" /\ o.states[n].gen = o.gen

\* A live object: a selected node that has not succeeded for this generation
\* reports InProgress first; any other node goes straight to its work.
StartReconcile(n) ==
    /\ Dequeue(n)
    /\ cache[n].phase = "live" /\ cache[n].fin
    /\ queued' = queued \ {n}
    /\ LET o        == cache[n]
           selected == labelView[n][n] = o.sel
           job      == [worker[n] EXCEPT !.pc = "work", !.gen = o.gen,
                                             !.sel = o.sel, !.selected = selected]
       IN  SetJob(n, IF selected /\ ~LocalSucceeded(n, o)
                     THEN Patching(job, "InProgress", FALSE, "begin") ELSE job)
    /\ UNCHANGED <<obj, cache, synced, locked, labels, labelView, sriov,
                   policySel, applied, aggPool, spent>>

-----------------------------------------------------------------------------
(* patchSyncStatusWithMessage: the closure RetryOnConflict runs. *)

\* The closure returned nil (ok) or an error that is not retried.
PatchDone(n, ok) ==
    LET job == worker[n]
    IN  IF job.cont = "begin" /\ ok
        THEN SetJob(n, [job EXCEPT !.pc = "work"]) /\ UNCHANGED queued
        ELSE IF job.cont = "report" /\ ~ok THEN FailReconcile(n, TRUE)
        ELSE Return(n, job.cont = "report")

\* Variant: one attempt too many.
ConflictOnceMore(n) ==
    LET job == worker[n]
    IN  IF job.tries <= MaxTries
        THEN SetJob(n, [job EXCEPT !.pc = "read", !.tries = @ + 1]) /\ UNCHANGED queued
        ELSE PatchDone(n, FALSE)

\* The closure returned a conflict: try again, at most MaxTries times in all.
Conflict(n) ==
    LET job == worker[n]
    IN  IF job.tries + 1 < MaxTries
        THEN SetJob(n, [job EXCEPT !.pc = "read", !.tries = @ + 1]) /\ UNCHANGED queued
        ELSE PatchDone(n, FALSE)

\* Variant: the aggregate is not compared.
UnchangedEntry(n, o, job) ==
    /\ o.states[n] = [state |-> job.target, err |-> job.err, gen |-> job.gen]
    /\ o.obs = job.gen

\* The node's entry already says what would be written, and so do the
\* aggregate and the observed generation.
Unchanged(n, o, job) ==
    /\ o.states[n] = [state |-> job.target, err |-> job.err, gen |-> job.gen]
    /\ o.sync = Aggregate(o.states, o.gen, Pool(labelView[n], o.sel))
    /\ o.obs = job.gen

\* Variant: the closure reports for the generation it reads, not for the one
\* that was reconciled.
PatchReadAdopting(n) ==
    LET job == worker[n]
        o   == cache[n]
    IN  /\ job.pc = "read"
        /\ IF o.phase = "gone" THEN PatchDone(n, FALSE) /\ UNCHANGED locked
           ELSE /\ SetJob(n, [job EXCEPT !.pc = "write", !.gen = o.gen])
                /\ locked' = IF n \in synced THEN locked \cup {n} ELSE locked \ {n}
                /\ UNCHANGED queued
        /\ UNCHANGED <<obj, cache, synced, labels, labelView, sriov, policySel,
                       applied, aggPool, spent>>

\* Get latest from the cache; refuse another generation than the one being
\* reconciled; skip the write when nothing would change.
PatchRead(n) ==
    LET job == worker[n]
        o   == cache[n]
    IN  /\ job.pc = "read"
        /\ IF o.phase = "gone" THEN PatchDone(n, FALSE) /\ UNCHANGED locked
           ELSE IF o.gen # job.gen THEN Conflict(n) /\ UNCHANGED locked
           ELSE IF Unchanged(n, o, job) THEN PatchDone(n, TRUE) /\ UNCHANGED locked
           ELSE /\ SetJob(n, [job EXCEPT !.pc = "write"])
                /\ locked' = IF n \in synced THEN locked \cup {n} ELSE locked \ {n}
                /\ UNCHANGED queued
        /\ UNCHANGED <<obj, cache, synced, labels, labelView, sriov, policySel,
                       applied, aggPool, spent>>

\* Variant: the aggregate computed before the node's own entry was set.
UpdatedEarlyAggregate(n, o) ==
    LET job == worker[n]
    IN  [o EXCEPT !.states[n] = [state |-> job.target, err |-> job.err, gen |-> job.gen],
                  !.obs = job.gen,
                  !.sync = Aggregate(o.states, o.gen, Pool(labelView[n], o.sel))]

\* The object o with n's own entry, the aggregate and the observed generation
\* set, as the closure on node n sets them.
Updated(n, o) ==
    LET job == worker[n]
        st  == [o.states EXCEPT ![n] = [state |-> job.target, err |-> job.err, gen |-> job.gen]]
    IN  [o EXCEPT !.states = st, !.obs = job.gen,
                  !.sync = Aggregate(st, o.gen, Pool(labelView[n], o.sel))]

\* Variant: no optimistic lock, the status of a cached copy is written.
PatchWriteUnlocked(n) ==
    /\ worker[n].pc = "write"
    /\ IF obj.phase # "gone"
       THEN /\ Store([Updated(n, cache[n]) EXCEPT !.phase = obj.phase, !.gen = obj.gen])
            /\ aggPool' = Pool(labelView[n], obj.sel)
            /\ PatchDone(n, TRUE)
       ELSE PatchDone(n, FALSE) /\ UNCHANGED <<obj, synced, locked, aggPool>>
    /\ UNCHANGED <<cache, labels, labelView, sriov, policySel, applied, spent>>

\* Status().Patch under the optimistic lock: the API server refuses it when
\* the object has changed since `latest` was read, and does not know a deleted
\* object.  A patch that is accepted was computed from the stored object.
PatchWrite(n) ==
    /\ worker[n].pc = "write"
    /\ IF n \in locked
       THEN /\ Store(Updated(n, obj))
            /\ aggPool' = Pool(labelView[n], obj.sel)
            /\ PatchDone(n, TRUE)
       ELSE /\ IF obj.phase = "gone" THEN PatchDone(n, FALSE) ELSE Conflict(n)
            /\ UNCHANGED <<obj, synced, locked, aggPool>>
    /\ UNCHANGED <<cache, labels, labelView, sriov, policySel, applied, spent>>

\* The call fails with an error that is not a conflict; the API server may
\* have carried it out all the same.
PatchError(n) ==
    /\ worker[n].pc = "write"
    /\ spent.faults < MaxFaults
    /\ spent' = [spent EXCEPT !.faults = @ + 1]
    /\ \/ UNCHANGED <<obj, synced, locked, aggPool>>
       \/ /\ n \in locked
          /\ Store(Updated(n, obj))
          /\ aggPool' = Pool(labelView[n], obj.sel)
    /\ PatchDone(n, FALSE)
    /\ UNCHANGED <<cache, labels, labelView, sriov, policySel, applied>>

-----------------------------------------------------------------------------
(* doReconcile, from applyPoolConfig on. *)

\* Variant: the Failed case is missing.
ReportedNoFailed(s) == IF s = "Succeeded" THEN "Succeeded" ELSE "InProgress"

\* processNodeStatus: what a selected node reports for its node state.
Reported(s) ==
    CASE s = "Succeeded" -> "Succeeded"
      [] s = "Failed"    -> "Failed"
      [] OTHER           -> "InProgress"

\* Pool config, rail topologies and removals all succeed, the policies carry
\* the object's selector; then processNodeStatus.
WorkOK(n) ==
    LET job == worker[n]
    IN  /\ job.pc = "work"
        /\ applied' = [applied EXCEPT ![n] = @ \cup {job.gen}]
        /\ policySel' = job.sel
        /\ IF job.selected
           THEN SetJob(n, Patching(job, Reported(sriov[n]), FALSE, "report")) /\ UNCHANGED queued
           ELSE Return(n, TRUE)
        /\ UNCHANGED <<obj, cache, synced, locked, labels, labelView, sriov, aggPool, spent>>

\* A step of the work fails, before or after the policies were patched.
WorkFails(n) ==
    LET job == worker[n]
    IN  /\ job.pc = "work"
        /\ spent.faults < MaxFaults
        /\ spent' = [spent EXCEPT !.faults = @ + 1]
        /\ policySel' \in {policySel, job.sel}
        /\ FailReconcile(n, job.selected)
        /\ UNCHANGED <<obj, cache, synced, locked, labels, labelView, sriov, applied, aggPool>>

\* handleDeletion succeeds: the policies are deleted and the finalizer is
\* removed, which lets the API server remove the object.  The patch carries
\* no lock and fails when the object is gone already.
DeletionOK(n) ==
    /\ worker[n].pc = "delete"
    /\ policySel' = NoSel
    /\ IF obj.phase = "gone"
       THEN Return(n, FALSE) /\ UNCHANGED <<obj, synced, locked>>
       ELSE Return(n, TRUE) /\ Store(GoneObject)
    /\ UNCHANGED <<cache, labels, labelView, sriov, applied, aggPool, spent>>

\* handleDeletion fails to clean up a rail topology: a node that matches the
\* selector now reports Failed; the finalizer stays.
DeletionFails(n) ==
    /\ worker[n].pc = "delete"
    /\ spent.faults < MaxFaults
    /\ spent' = [spent EXCEPT !.faults = @ + 1]
    /\ policySel' \in {policySel, NoSel}
    /\ FailReconcile(n, labelView[n][n] = worker[n].sel)
    /\ UNCHANGED <<obj, cache, synced, locked, labels, labelView, sriov, applied, aggPool>>

\* The policies are gone, but the pool config cannot be deleted or the removal
\* of the finalizer is answered with an error, carried out or not: nothing is
\* reported.
FinalizerFails(n) ==
    /\ worker[n].pc = "delete"
    /\ spent.faults < MaxFaults
    /\ spent' = [spent EXCEPT !.faults = @ + 1]
    /\ policySel' = NoSel
    /\ Return(n, FALSE)
    /\ \/ UNCHANGED <<obj, synced, locked>>
       \/ obj.phase # "gone" /\ Store(GoneObject)
    /\ UNCHANGED <<cache, labels, labelView, sriov, applied, aggPool>>

-----------------------------------------------------------------------------
(* Informers, work queue and the rest of the cluster. *)

\* Variant: objects that have succeeded already are passed over.
ListUnfinishedForNode(n, lbl) ==
    queued' = IF cache[n].phase # "gone" /\ cache[n].sync # "Succeeded" /\ policySel = lbl[n]
              THEN queued \cup {n} ELSE queued

\* ListRailPoolConfigsForNode: an event of this node's own Node or
\* SriovNetworkNodeState queues the object if the policies select the node.
ListRailPoolConfigsForNode(n, lbl) ==
    queued' = IF cache[n].phase # "gone" /\ policySel = lbl[n] THEN queued \cup {n} ELSE queued

\* The object's informer catches up; every change of it is an event.
CacheSync(n) ==
    /\ n \notin synced
    /\ cache' = [cache EXCEPT ![n] = obj]
    /\ synced' = synced \cup {n}
    /\ queued' = queued \cup {n}
    /\ UNCHANGED <<obj, worker, locked, labels, labelView, sriov, policySel,
                   applied, aggPool, spent>>

\* The node informer catches up; only a label change of the own node counts.
LabelSync(n) ==
    /\ labelView[n] # labels
    /\ labelView' = [labelView EXCEPT ![n] = labels]
    /\ IF labels[n] # labelView[n][n] THEN ListRailPoolConfigsForNode(n, labels)
       ELSE UNCHANGED queued
    /\ UNCHANGED <<obj, cache, synced, worker, locked, labels, sriov, policySel,
                   applied, aggPool, spent>>

\* The informer's periodic resync queues every cached object.
Resync(n) ==
    /\ ResyncEnabled
    /\ cache[n].phase # "gone"
    /\ queued' = queued \cup {n}
    /\ UNCHANGED <<obj, cache, synced, worker, locked, labels, labelView, sriov,
                   policySel, applied, aggPool, spent>>

\* The SR-IOV operator changes the node's state, seen through the informer.
SriovChange(n) ==
    /\ spent.sriov < MaxSriov
    /\ spent' = [spent EXCEPT !.sriov = @ + 1]
    /\ \E s \in SriovReports \ {sriov[n]} : sriov' = [sriov EXCEPT ![n] = s]
    /\ ListRailPoolConfigsForNode(n, labelView[n])
    /\ UNCHANGED <<obj, cache, synced, worker, locked, labels, labelView,
                   policySel, applied, aggPool>>

\* An administrator relabels a node.
Relabel(n) ==
    /\ spent.relabels < MaxRelabels
    /\ spent' = [spent EXCEPT !.relabels = @ + 1]
    /\ \E l \in Labels \ {labels[n]} : labels' = [labels EXCEPT ![n] = l]
    /\ UNCHANGED <<obj, cache, synced, queued, worker, locked, labelView, sriov,
                   policySel, applied, aggPool>>

\* A user edits the spec: a new generation, perhaps with another selector.
EditSpec ==
    /\ obj.phase = "live" /\ obj.gen < MaxGen
    /\ \E l \in Labels : Store([obj EXCEPT !.gen = @ + 1, !.sel = l])
    /\ UNCHANGED <<cache, queued, worker, labels, labelView, sriov, policySel,
                   applied, aggPool, spent>>

\* A user deletes the object: it stays, with a deletion timestamp and a new
\* generation, as long as it has the finalizer.
DeleteObject ==
    /\ obj.phase = "live" /\ obj.gen < MaxGen
    /\ Store(IF obj.fin THEN [obj EXCEPT !.phase = "deleting", !.gen = @ + 1] ELSE GoneObject)
    /\ UNCHANGED <<cache, queued, worker, labels, labelView, sriov, policySel,
                   applied, aggPool, spent>>

\* The flowcontroller of node n restarts: its reconcile is lost, its caches
\* are listed anew and every object is queued.
Restart(n) ==
    /\ spent.faults < MaxFaults
    /\ spent' = [spent EXCEPT !.faults = @ + 1]
    /\ SetJob(n, IdleJob)
    /\ locked' = locked \ {n}
    /\ cache' = [cache EXCEPT ![n] = obj]
    /\ synced' = synced \cup {n}
    /\ labelView' = [labelView EXCEPT ![n] = labels]
    /\ queued' = IF obj.phase = "gone" THEN queued \ {n} ELSE queued \cup {n}
    /\ UNCHANGED <<obj, labels, sriov, policySel, applied, aggPool>>

-----------------------------------------------------------------------------
\* An object has just been created; no cache holds it yet.
Init ==
    /\ \E l \in Labels : obj = [GoneObject EXCEPT !.phase = "live", !.gen = 1, !.sel = l]
    /\ cache = [n \in Nodes |-> GoneObject]
    /\ synced = {} /\ queued = {} /\ locked = {}
    /\ worker = [n \in Nodes |-> IdleJob]
    /\ labels \in [Nodes -> Labels]
    /\ labelView = [n \in Nodes |-> labels]
    /\ sriov \in [Nodes -> SriovReports]
    /\ policySel = NoSel
    /\ applied = [n \in Nodes |-> {}]
    /\ aggPool = {}
    /\ spent = [faults |-> 0, sriov |-> 0, relabels |-> 0]

\* One step of the reconcile on node n.
Step(n) ==
    \/ StartGone(n) \/ AddFinalizer(n) \/ StartDeletion(n) \/ StartReconcile(n)
    \/ PatchRead(n) \/ PatchWrite(n) \/ WorkOK(n) \/ DeletionOK(n)

Fault(n) ==
    PatchError(n) \/ WorkFails(n) \/ DeletionFails(n) \/ FinalizerFails(n) \/ Restart(n)

Environment(n) == SriovChange(n) \/ Relabel(n)

Next ==
    \/ \E n \in Nodes : \/ Step(n) \/ Fault(n) \/ Environment(n)
                       \/ CacheSync(n) \/ LabelSync(n) \/ Resync(n)
    \/ EditSpec
    \/ DeleteObject

Spec == Init /\ [][Next]_vars

\* A worker that can step does, and informers catch up.
EventFairness ==
    \A n \in Nodes : WF_vars(Step(n)) /\ WF_vars(CacheSync(n)) /\ WF_vars(LabelSync(n))

EventSpec == Spec /\ EventFairness

-----------------------------------------------------------------------------
(* Properties. *)

TypeOK ==
    /\ obj \in Object
    /\ cache \in [Nodes -> Object]
    /\ synced \subseteq Nodes
    /\ queued \subseteq Nodes
    /\ worker \in [Nodes -> Job]
    /\ locked \subseteq Nodes
    /\ labels \in [Nodes -> Labels]
    /\ labelView \in [Nodes -> [Nodes -> Labels]]
    /\ sriov \in [Nodes -> SriovReports]
    /\ policySel \in Labels \cup {NoSel}
    /\ applied \in [Nodes -> SUBSET Nat]
    /\ aggPool \subseteq Nodes
    /\ spent \in [faults : Nat, sriov : Nat, relabels : Nat]

\* The aggregate users read is never at odds with the entries beside it: it is
\* the aggregate of exactly those entries, for the generation it claims to
\* have observed, over the pool its last writer saw (patchSyncStatusWithMessage
\* recomputes it from a cached copy while other nodes write the same object).
AggregateSound ==
    obj.obs > 0 => obj.sync = Aggregate(obj.states, obj.obs, aggPool)

\* "Succeeded" for a generation is only reported once every node of the pool
\* has itself carried out that generation, whatever was edited, retried or
\* restarted meanwhile (reconcileGeneration against latest.Generation).
SucceededMeansApplied ==
    obj.sync = "Succeeded" => \A n \in aggPool : obj.obs \in applied[n]

\* What a step may do to the status of an object that stays.
EntryStep ==
    obj'.phase # "gone" =>
        /\ obj.obs <= obj'.obs
        /\ \A n \in Nodes :
              /\ obj.states[n].gen <= obj'.states[n].gen
              /\ obj'.states[n] # obj.states[n] =>
                    worker[n].pc = "write" /\ worker'[n].pc # "write"

\* An entry changes only by its own node's status write, in the step that ends
\* the write, whichever nodes write at the same time, and neither an entry nor
\* the object ever goes back to an earlier observed generation
\* (patchSyncStatusWithMessage).
OwnEntryForward == [][EntryStep]_obj

\* For its readers the status is a StatusBoard.
Board == INSTANCE StatusBoard WITH
            Blank <- NoState, gen <- obj.gen, entries <- obj.states, verdict <- obj.sync,
            observed <- obj.obs, pool <- aggPool, done <- applied

\* Cached reads, generation checks, retries, the optimistic lock and the patch,
\* on all nodes at once, amount to atomic reports on the current generation with
\* a right verdict (patchSyncStatusWithMessage, aggregateSyncStatus).
KeepsBoard == Board!Spec

\* The status says what is the case now: the aggregate for the current
\* generation and the current pool, each entry the node's current state.
Converged ==
    /\ obj.obs = obj.gen
    /\ obj.sync = Aggregate(obj.states, obj.gen, Pool(labels, obj.sel))
    /\ \A n \in Pool(labels, obj.sel) :
          obj.states[n] = [state |-> Reported(sriov[n]), err |-> FALSE, gen |-> obj.gen]

\* A live object with a node to report on it.
Reportable == obj.phase = "live" /\ Pool(labels, obj.sel) # {}

\* Nothing is queued or in progress, and every node has the stored object.
AtRest == queued = {} /\ synced = Nodes /\ \A n \in Nodes : Idle(n)

\* No wake-up is lost: when no node has anything left to do, the status is that
\* of the current generation, the aggregate is that of the pool, and no node of
\* the pool is missing, behind or left with an old error, however edits,
\* conflicts, exhausted retries, failed calls and restarts came together.
\* Each entry is what the node would report now, if its node state has not
\* changed: that event is passed over while the policies have another selector.
\* A node that leaves the pool wakes nobody, hence no relabelling.
RestsRight ==
    AtRest /\ Reportable /\ spent.relabels = 0 =>
        /\ obj.obs = obj.gen
        /\ obj.sync = Aggregate(obj.states, obj.gen, Pool(labels, obj.sel))
        /\ \A n \in Pool(labels, obj.sel) :
              /\ obj.states[n].gen = obj.gen /\ ~obj.states[n].err
              /\ spent.sriov = 0 => obj.states[n].state = Reported(sriov[n])

\* Informers deliver a change before any reconcile takes its next step.
Prompt == worker' # worker => synced = Nodes /\ \A n \in Nodes : labelView[n] = labels

\* Once edits, faults and node changes have ended, the status of a live object
\* whose nodes have not failed becomes right and stays right, without a lost
\* wake-up on any node (the triggers of SetupWithManager).  Informers have to
\* become prompt for this: a node that for ever starts from a cache without its
\* own last write reports InProgress over its own Succeeded, and that write is
\* the event that starts it again while the other nodes' patches conflict.
Converges ==
    <>[][Prompt]_vars /\ <>[](Reportable /\ \A n \in Pool(labels, obj.sel) : sriov[n] # "Failed") => <>[]Converged

\* A pool with a node whose SR-IOV configuration has failed is reported Failed
\* again and again (not for good: every reconcile of a failed node first
\* reports InProgress, and that write is an event that causes the next one).
FailureReported ==
    <>[](Reportable /\ \E n \in Pool(labels, obj.sel) : sriov[n] = "Failed")
        => []<>(obj.sync = "Failed" /\ obj.obs = obj.gen)
=============================================================================
