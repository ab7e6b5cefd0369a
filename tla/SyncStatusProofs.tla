-------------------------- MODULE SyncStatusProofs --------------------------
(* TLAPS proofs about SyncStatus, for any set of nodes and any bounds. *)
EXTENDS SyncStatus, TLAPS

-----------------------------------------------------------------------------
(* The inductive invariant. *)

\* A cache with the stored resourceVersion holds the stored object.
CacheInv == \A n \in synced : cache[n] = obj

\* A patch whose lock will be accepted is for the object's generation.
LockInv ==
    \A n \in locked : worker[n].pc = "write" => worker[n].gen = obj.gen /\ obj.phase # "gone"

\* Nothing in the status is from the future, and a status was written for a
\* real generation.
GenInv ==
    /\ obj.phase # "gone" => obj.gen > 0
    /\ obj.obs <= obj.gen
    /\ \A n \in Nodes : obj.states[n].gen <= obj.gen
    /\ obj.obs = 0 => obj.sync = "None"

\* A node says Succeeded, or is about to, for a generation it carried out.
EntryInv ==
    \A n \in Nodes : obj.states[n].state = "Succeeded" => obj.states[n].gen \in applied[n]

JobInv ==
    \A n \in Nodes :
        worker[n].pc \in {"read", "write"} /\ worker[n].target = "Succeeded"
            => worker[n].gen \in applied[n]

Inv == TypeOK /\ CacheInv /\ LockInv /\ GenInv /\ EntryInv /\ JobInv /\ AggregateSound

-----------------------------------------------------------------------------
(* Types of the building blocks. *)

\* GoneObject and IdleJob are well typed.
LEMMA ConstantTypes == GoneObject \in Object /\ IdleJob \in Job
BY BoundsAssumption DEF BoundsAssumption, GoneObject, Object, NoState, NodeState, IdleJob, Job, PCs, Conts, States

\* The aggregate is one of the three states.
LEMMA AggregateType == \A st, g, pool : Aggregate(st, g, pool) \in States
BY DEF Aggregate, States

\* An aggregate of Succeeded is the success of every node of the pool.
LEMMA AggregateSucceeded ==
    \A st, g, pool : Aggregate(st, g, pool) = "Succeeded" =>
        \A n \in pool : st[n].state = "Succeeded" /\ st[n].gen = g
BY DEF Aggregate

\* The job of a node that starts patching is well typed.
LEMMA PatchingType ==
    ASSUME NEW job \in Job, NEW target \in States, NEW err \in BOOLEAN, NEW cont \in Conts
    PROVE  /\ Patching(job, target, err, cont) \in Job
           /\ Patching(job, target, err, cont).pc = "read"
           /\ Patching(job, target, err, cont).gen = job.gen
           /\ Patching(job, target, err, cont).target = target
<1>1. 0 \in 0..MaxTries
  BY BoundsAssumption DEF BoundsAssumption
<1>2. "read" \in PCs
  BY DEF PCs
<1> QED BY <1>1, <1>2 DEF Patching, Job

\* What the end of a patch closure leaves in the worker: a well-typed job that
\* does not write and, if it patches again, reports Failed.
LEMMA PatchDoneJob ==
    ASSUME TypeOK, NEW n \in Nodes, NEW ok \in BOOLEAN, PatchDone(n, ok)
    PROVE  /\ queued' \subseteq Nodes
           /\ \E j \in Job : /\ worker' = [worker EXCEPT ![n] = j]
                             /\ j.pc # "write"
                             /\ j.pc = "read" => j.target = "Failed"
<1> DEFINE job == worker[n]
<1>1. job \in Job
  BY DEF TypeOK
<1>2. CASE job.cont = "begin" /\ ok
  <2>1. [job EXCEPT !.pc = "work"] \in Job /\ [job EXCEPT !.pc = "work"].pc = "work"
    BY <1>1 DEF Job, PCs
  <2> QED BY <2>1, <1>2 DEF PatchDone, SetJob, TypeOK
<1>3. CASE job.cont = "report" /\ ~ok
  <2> DEFINE j == Patching(job, "Failed", TRUE, "fail")
  <2>1. j \in Job /\ j.pc = "read" /\ j.target = "Failed"
    BY <1>1, PatchingType DEF States, Conts
  <2>2. worker' = [worker EXCEPT ![n] = j] /\ queued' = queued
    BY <1>3 DEF PatchDone, FailReconcile, SetJob
  <2> HIDE DEF j
  <2> QED BY <2>1, <2>2 DEF TypeOK
<1>4. CASE ~(job.cont = "begin" /\ ok) /\ ~(job.cont = "report" /\ ~ok)
  <2>1. worker' = [worker EXCEPT ![n] = IdleJob] /\ queued' \subseteq Nodes
    BY <1>4 DEF PatchDone, Return, SetJob, TypeOK
  <2>2. IdleJob.pc = "idle"
    BY DEF IdleJob
  <2> QED BY <2>1, <2>2, ConstantTypes
<1> QED BY <1>2, <1>3, <1>4

\* The same for a conflict, which may also read again for the same report.
LEMMA ConflictJob ==
    ASSUME TypeOK, NEW n \in Nodes, Conflict(n)
    PROVE  /\ queued' \subseteq Nodes
           /\ \E j \in Job : /\ worker' = [worker EXCEPT ![n] = j]
                             /\ j.pc # "write"
                             /\ j.pc = "read" =>
                                  \/ j.target = "Failed"
                                  \/ j.target = worker[n].target /\ j.gen = worker[n].gen
<1> DEFINE job == worker[n]
<1>1. job \in Job
  BY DEF TypeOK
<1>2. CASE job.tries + 1 < MaxTries
  <2> DEFINE j == [job EXCEPT !.pc = "read", !.tries = @ + 1]
  <2>1. job.tries + 1 \in 0..MaxTries
    BY <1>1, <1>2, BoundsAssumption DEF BoundsAssumption, Job
  <2>3. "read" \in PCs
    BY DEF PCs
  <2>4. j \in Job /\ j.pc = "read" /\ j.target = job.target /\ j.gen = job.gen
    BY <1>1, <2>1, <2>3 DEF Job
  <2>2. worker' = [worker EXCEPT ![n] = j] /\ queued' = queued
    BY <1>2 DEF Conflict, SetJob
  <2> HIDE DEF j
  <2> QED BY <2>4, <2>2 DEF TypeOK
<1>3. CASE ~(job.tries + 1 < MaxTries)
  <2>1. PatchDone(n, FALSE)
    BY <1>3 DEF Conflict
  <2> QED BY <2>1, PatchDoneJob
<1> QED BY <1>2, <1>3

\* An object with its status updated is well typed and keeps everything else.
LEMMA UpdatedType ==
    ASSUME TypeOK, NEW n \in Nodes, NEW o \in Object
    PROVE  /\ Updated(n, o) \in Object
           /\ Updated(n, o).phase = o.phase
           /\ Updated(n, o).gen = o.gen
           /\ Updated(n, o).obs = worker[n].gen
           /\ Updated(n, o).states = [o.states EXCEPT ![n] =
                  [state |-> worker[n].target, err |-> worker[n].err, gen |-> worker[n].gen]]
           /\ Updated(n, o).sync = Aggregate(Updated(n, o).states, o.gen, Pool(labelView[n], o.sel))
<1> DEFINE e  == [state |-> worker[n].target, err |-> worker[n].err, gen |-> worker[n].gen]
           st == [o.states EXCEPT ![n] = e]
           ag == Aggregate(st, o.gen, Pool(labelView[n], o.sel))
<1>1. worker[n].target \in States /\ worker[n].err \in BOOLEAN /\ worker[n].gen \in Nat
  BY DEF TypeOK, Job
<1>2. e \in NodeState
  BY <1>1 DEF NodeState
<1>3. st \in [Nodes -> NodeState]
  BY <1>2 DEF Object
<1>4. ag \in States
  BY AggregateType
<1>5. Updated(n, o) = [o EXCEPT !.states = st, !.obs = worker[n].gen, !.sync = ag]
  BY DEF Updated
<1> HIDE DEF ag, st, e
<1>6. /\ Updated(n, o) \in Object
      /\ Updated(n, o).phase = o.phase /\ Updated(n, o).gen = o.gen
      /\ Updated(n, o).obs = worker[n].gen /\ Updated(n, o).states = st /\ Updated(n, o).sync = ag
  BY <1>1, <1>3, <1>4, <1>5 DEF Object
<1> QED BY <1>6 DEF ag, st, e

-----------------------------------------------------------------------------
(* Frames: what a step that leaves parts of the state alone preserves. *)

\* A step without a write to the object keeps what the invariant says of it.
LEMMA ObjectFrame ==
    ASSUME GenInv, EntryInv, AggregateSound, obj' = obj, aggPool' = aggPool,
           \A n \in Nodes : applied[n] \subseteq applied'[n]
    PROVE  GenInv' /\ EntryInv' /\ AggregateSound'
BY DEF GenInv, EntryInv, AggregateSound

\* A node's worker moves on without preparing a write.
LEMMA JobFrame ==
    ASSUME TypeOK, JobInv, NEW n \in Nodes, NEW j \in Job,
           worker' = [worker EXCEPT ![n] = j],
           j.pc # "write",
           j.pc = "read" => j.target # "Succeeded" \/ j.gen \in applied[n],
           \A m \in Nodes : applied[m] \subseteq applied'[m]
    PROVE  /\ worker' \in [Nodes -> Job]
           /\ JobInv'
           /\ LockInv /\ obj' = obj /\ locked' \subseteq locked => LockInv'
<1>1. worker' \in [Nodes -> Job] /\ worker'[n] = j
      /\ \A m \in Nodes \ {n} : worker'[m] = worker[m]
  BY DEF TypeOK
<1>2. JobInv'
  BY <1>1 DEF JobInv
<1>3. ASSUME LockInv, obj' = obj, locked' \subseteq locked PROVE LockInv'
  <2> SUFFICES ASSUME NEW m \in locked', worker'[m].pc = "write"
               PROVE  worker'[m].gen = obj.gen /\ obj.phase # "gone"
    BY <1>3 DEF LockInv
  <2>1. m \in Nodes /\ m \in locked
    BY <1>3 DEF TypeOK
  <2>2. m # n
    BY <1>1
  <2> QED BY <1>1, <1>3, <2>1, <2>2 DEF LockInv
<1> QED BY <1>1, <1>2, <1>3

\* Steps that touch neither the object nor a worker.
LEMMA QuietFrame ==
    ASSUME Inv, UNCHANGED <<obj, worker, locked, applied, aggPool>>, TypeOK', CacheInv'
    PROVE  Inv'
<1>1. GenInv' /\ EntryInv' /\ AggregateSound'
  BY ObjectFrame DEF Inv
<1>2. LockInv' /\ JobInv'
  BY DEF Inv, LockInv, JobInv
<1> QED BY <1>1, <1>2 DEF Inv

-----------------------------------------------------------------------------
(* One lemma per action. *)

\* The invariant holds initially.
LEMMA InitInv == Init => Inv
<1> SUFFICES ASSUME Init PROVE Inv
  OBVIOUS
<1>1. PICK l \in Labels : obj = [GoneObject EXCEPT !.phase = "live", !.gen = 1, !.sel = l]
  BY DEF Init
<1>2. /\ obj \in Object /\ obj.gen = 1 /\ obj.obs = 0 /\ obj.sync = "None"
      /\ \A n \in Nodes : obj.states[n] = NoState
  BY <1>1, ConstantTypes DEF GoneObject, Object
<1>3. TypeOK
  BY <1>2, ConstantTypes DEF Init, TypeOK
<1>4. \A n \in Nodes : worker[n].pc = "idle"
  BY DEF Init, IdleJob
<1>5. JobInv
  BY <1>4 DEF JobInv
<1>6. CacheInv /\ LockInv
  BY DEF Init, CacheInv, LockInv
<1>7. GenInv /\ EntryInv /\ AggregateSound
  BY <1>2 DEF GenInv, EntryInv, AggregateSound, NoState
<1> QED BY <1>3, <1>5, <1>6, <1>7 DEF Inv

\* Dequeuing an object that is not in the cache.
LEMMA StartGoneInv == ASSUME Inv, NEW n \in Nodes, StartGone(n) PROVE Inv'
<1>1. TypeOK' /\ CacheInv'
  BY DEF StartGone, Inv, TypeOK, CacheInv
<1> QED BY <1>1, QuietFrame DEF StartGone

\* A change of the object that keeps its status and does not lower its generation.
LEMMA StoreFrame ==
    ASSUME Inv, NEW o \in Object, Store(o),
           o.states = obj.states, o.sync = obj.sync, o.obs = obj.obs, o.gen >= obj.gen, o.gen > 0,
           UNCHANGED <<worker, applied, aggPool>>
    PROVE  CacheInv' /\ LockInv' /\ GenInv' /\ EntryInv' /\ JobInv' /\ AggregateSound'
<1>1. obj' = o /\ synced' = {} /\ locked' = {}
  BY DEF Store
<1>2. CacheInv' /\ LockInv'
  BY <1>1 DEF CacheInv, LockInv
<1>3. obj \in Object
  BY DEF Inv, TypeOK
<1>4. GenInv'
  <2>1. obj.obs <= o.gen /\ \A n \in Nodes : obj.states[n].gen <= o.gen
    BY <1>3 DEF Inv, GenInv, Object, NodeState
  <2> QED BY <1>1, <2>1 DEF Inv, GenInv
<1>5. EntryInv' /\ AggregateSound' /\ JobInv'
  BY <1>1 DEF Inv, EntryInv, AggregateSound, JobInv
<1> QED BY <1>2, <1>4, <1>5

\* The object disappears.
LEMMA GoneFrame ==
    ASSUME Store(GoneObject)
    PROVE  CacheInv' /\ LockInv' /\ GenInv' /\ EntryInv' /\ AggregateSound'
<1>1. obj' = GoneObject /\ synced' = {} /\ locked' = {}
  BY DEF Store
<1>2. /\ GoneObject.phase = "gone" /\ GoneObject.gen = 0 /\ GoneObject.obs = 0
      /\ GoneObject.sync = "None" /\ \A n \in Nodes : GoneObject.states[n] = NoState
  BY DEF GoneObject
<1> QED BY <1>1, <1>2 DEF CacheInv, LockInv, GenInv, EntryInv, AggregateSound, NoState

\* The first reconcile adds the finalizer.
LEMMA AddFinalizerInv == ASSUME Inv, NEW n \in Nodes, AddFinalizer(n) PROVE Inv'
<1>1. CASE obj.phase = "gone" \/ obj.fin
  <2>1. TypeOK' /\ CacheInv'
    BY <1>1 DEF AddFinalizer, Inv, TypeOK, CacheInv
  <2> QED BY <1>1, <2>1, QuietFrame DEF AddFinalizer
<1>2. CASE ~(obj.phase = "gone" \/ obj.fin)
  <2> DEFINE o == [obj EXCEPT !.fin = TRUE]
  <2>1. obj \in Object
    BY DEF Inv, TypeOK
  <2>2. /\ o \in Object /\ o.states = obj.states /\ o.sync = obj.sync
        /\ o.obs = obj.obs /\ o.gen = obj.gen /\ obj.gen \in Nat
    BY <2>1 DEF Object
  <2>3. o.gen > 0 /\ o.gen >= obj.gen
    BY <1>2, <2>2 DEF Inv, GenInv
  <2>4. Store(o) /\ UNCHANGED <<worker, applied, aggPool>>
    BY <1>2 DEF AddFinalizer
  <2> HIDE DEF o
  <2>5. CacheInv' /\ LockInv' /\ GenInv' /\ EntryInv' /\ JobInv' /\ AggregateSound'
    BY <2>2, <2>3, <2>4, StoreFrame
  <2>6. TypeOK'
    BY <2>2, <2>4, <1>2 DEF AddFinalizer, Inv, TypeOK, Store
  <2> QED BY <2>5, <2>6 DEF Inv
<1> QED BY <1>1, <1>2

\* A reconcile of an object that is being deleted starts its cleanup.
LEMMA StartDeletionInv == ASSUME Inv, NEW n \in Nodes, StartDeletion(n) PROVE Inv'
<1> DEFINE j == [worker[n] EXCEPT !.pc = "delete", !.gen = cache[n].gen, !.sel = cache[n].sel]
<1>1. worker[n] \in Job /\ cache[n] \in Object
  BY DEF Inv, TypeOK
<1>2. j \in Job /\ j.pc = "delete"
  BY <1>1 DEF Job, PCs, Object
<1>3. worker' = [worker EXCEPT ![n] = j]
      /\ UNCHANGED <<obj, cache, synced, locked, applied, aggPool>>
  BY DEF StartDeletion, SetJob
<1> HIDE DEF j
<1>4. worker' \in [Nodes -> Job] /\ JobInv' /\ LockInv'
  BY <1>2, <1>3, JobFrame DEF Inv
<1>5. TypeOK' /\ CacheInv'
  BY <1>3, <1>4 DEF StartDeletion, Inv, TypeOK, CacheInv
<1>6. GenInv' /\ EntryInv' /\ AggregateSound'
  BY <1>3, ObjectFrame DEF Inv
<1> QED BY <1>4, <1>5, <1>6 DEF Inv

\* A reconcile of a live object starts.
LEMMA StartReconcileInv == ASSUME Inv, NEW n \in Nodes, StartReconcile(n) PROVE Inv'
<1> DEFINE o        == cache[n]
           selected == labelView[n][n] = o.sel
           job      == [worker[n] EXCEPT !.pc = "work", !.gen = o.gen,
                                         !.sel = o.sel, !.selected = selected]
           j        == IF selected /\ ~LocalSucceeded(n, o)
                       THEN Patching(job, "InProgress", FALSE, "begin") ELSE job
<1>1. worker[n] \in Job /\ o \in Object /\ selected \in BOOLEAN
  BY DEF Inv, TypeOK
<1>2. job \in Job /\ job.pc = "work"
  BY <1>1 DEF Job, PCs, Object
<1>3. worker' = [worker EXCEPT ![n] = j]
      /\ UNCHANGED <<obj, cache, synced, locked, applied, aggPool>>
  BY DEF StartReconcile, SetJob
<1> HIDE DEF job
<1>4. j \in Job /\ j.pc # "write" /\ (j.pc = "read" => j.target # "Succeeded")
  BY <1>2, PatchingType DEF States, Conts
<1> HIDE DEF j
<1>5. worker' \in [Nodes -> Job] /\ JobInv' /\ LockInv'
  BY <1>3, <1>4, JobFrame DEF Inv
<1>6. TypeOK' /\ CacheInv'
  BY <1>3, <1>5 DEF StartReconcile, Inv, TypeOK, CacheInv
<1>7. GenInv' /\ EntryInv' /\ AggregateSound'
  BY <1>3, ObjectFrame DEF Inv
<1> QED BY <1>5, <1>6, <1>7 DEF Inv

\* A worker leaves its patch without having written.
LEMMA PatchEndInv ==
    ASSUME Inv, NEW n \in Nodes, worker[n].pc \in {"read", "write"},
           Conflict(n) \/ \E ok \in BOOLEAN : PatchDone(n, ok),
           UNCHANGED <<obj, cache, synced, locked, labels, labelView, sriov, policySel,
                       applied, aggPool>>,
           spent' \in [faults : Nat, sriov : Nat, relabels : Nat]
    PROVE  Inv'
<1>1. TypeOK /\ JobInv /\ LockInv
  BY DEF Inv
<1>2. /\ queued' \subseteq Nodes
      /\ \E j \in Job : /\ worker' = [worker EXCEPT ![n] = j]
                        /\ j.pc # "write"
                        /\ j.pc = "read" =>
                              \/ j.target = "Failed"
                              \/ j.target = worker[n].target /\ j.gen = worker[n].gen
  <2>1. CASE Conflict(n)
    BY <1>1, <2>1, ConflictJob
  <2>2. ASSUME NEW ok \in BOOLEAN, PatchDone(n, ok)
        PROVE  /\ queued' \subseteq Nodes
               /\ \E j \in Job : /\ worker' = [worker EXCEPT ![n] = j]
                                 /\ j.pc # "write"
                                 /\ j.pc = "read" => j.target = "Failed"
    BY <1>1, <2>2, PatchDoneJob
  <2> QED BY <2>1, <2>2
<1>3. PICK j \in Job : /\ worker' = [worker EXCEPT ![n] = j]
                       /\ j.pc # "write"
                       /\ j.pc = "read" =>
                              \/ j.target = "Failed"
                              \/ j.target = worker[n].target /\ j.gen = worker[n].gen
  BY <1>2
<1>4. j.pc = "read" => j.target # "Succeeded" \/ j.gen \in applied[n]
  BY <1>1, <1>3 DEF JobInv
<1>5. worker' \in [Nodes -> Job] /\ JobInv' /\ LockInv'
  BY <1>1, <1>3, <1>4, JobFrame
<1>6. TypeOK' /\ CacheInv'
  BY <1>2, <1>5 DEF Inv, TypeOK, CacheInv
<1>7. GenInv' /\ EntryInv' /\ AggregateSound'
  BY ObjectFrame DEF Inv
<1> QED BY <1>5, <1>6, <1>7 DEF Inv

\* The patch closure reads the cached object: where it goes on to write, the
\* generation it checked is the stored one whenever its lock is good.
LEMMA PatchReadInv == ASSUME Inv, NEW n \in Nodes, PatchRead(n) PROVE Inv'
<1> DEFINE job == worker[n]
           o   == cache[n]
           j   == [job EXCEPT !.pc = "write"]
<1>1. TypeOK /\ JobInv /\ LockInv /\ CacheInv /\ job \in Job /\ job.pc = "read"
  BY DEF Inv, TypeOK, PatchRead
<1>2. CASE o.phase = "gone" \/ o.gen # job.gen \/ Unchanged(n, o, job)
  <2>1. Conflict(n) \/ \E ok \in BOOLEAN : PatchDone(n, ok)
    BY <1>2 DEF PatchRead
  <2>2. UNCHANGED <<obj, cache, synced, locked, labels, labelView, sriov, policySel,
                    applied, aggPool, spent>>
    BY <1>2 DEF PatchRead
  <2> QED BY <1>1, <2>1, <2>2, PatchEndInv DEF TypeOK
<1>3. CASE ~(o.phase = "gone" \/ o.gen # job.gen \/ Unchanged(n, o, job))
  <2>1. /\ worker' = [worker EXCEPT ![n] = j]
        /\ locked' = IF n \in synced THEN locked \cup {n} ELSE locked \ {n}
        /\ UNCHANGED <<obj, cache, synced, queued, labels, labelView, sriov, policySel,
                       applied, aggPool, spent>>
    BY <1>3 DEF PatchRead, SetJob
  <2>2. j \in Job /\ j.gen = job.gen /\ j.target = job.target
    BY <1>1 DEF Job, PCs
  <2> HIDE DEF j
  <2>3. worker' \in [Nodes -> Job] /\ worker'[n] = j
        /\ \A m \in Nodes \ {n} : worker'[m] = worker[m]
    BY <1>1, <2>1, <2>2 DEF TypeOK
  <2>4. TypeOK' /\ CacheInv'
    BY <1>1, <2>1, <2>3 DEF TypeOK, CacheInv
  <2>5. JobInv'
    BY <1>1, <2>1, <2>2, <2>3 DEF JobInv
  <2>6. LockInv'
    <3> SUFFICES ASSUME NEW m \in locked', worker'[m].pc = "write"
                 PROVE  worker'[m].gen = obj.gen /\ obj.phase # "gone"
      BY <2>1 DEF LockInv
    <3>1. CASE m = n
      <4>1. n \in synced
        BY <2>1, <3>1
      <4> QED BY <1>1, <1>3, <2>2, <2>3, <3>1, <4>1 DEF CacheInv
    <3>2. CASE m # n
      <4>1. m \in locked /\ m \in Nodes
        BY <1>1, <2>1, <3>2 DEF TypeOK
      <4> QED BY <1>1, <2>3, <3>2, <4>1 DEF LockInv
    <3> QED BY <3>1, <3>2
  <2>7. GenInv' /\ EntryInv' /\ AggregateSound'
    BY <2>1, ObjectFrame DEF Inv
  <2> QED BY <2>4, <2>5, <2>6, <2>7 DEF Inv
<1> QED BY <1>2, <1>3

\* An accepted status write: the heart of the argument.  The lock makes the
\* entries the aggregate is computed from the stored ones, and the generation
\* it is computed for the one that is recorded as observed.
LEMMA AcceptedWriteInv ==
    ASSUME Inv, NEW n \in Nodes, NEW ok \in BOOLEAN,
           worker[n].pc = "write", n \in locked,
           Store(Updated(n, obj)), aggPool' = Pool(labelView[n], obj.sel), PatchDone(n, ok),
           UNCHANGED <<cache, labels, labelView, sriov, policySel, applied>>,
           spent' \in [faults : Nat, sriov : Nat, relabels : Nat]
    PROVE  Inv'
<1> DEFINE job == worker[n]
           o   == Updated(n, obj)
           e   == [state |-> job.target, err |-> job.err, gen |-> job.gen]
<1>1. TypeOK /\ JobInv /\ LockInv /\ GenInv /\ EntryInv /\ obj \in Object /\ job \in Job
  BY DEF Inv, TypeOK
<1>2. obj' = o /\ synced' = {} /\ locked' = {}
  BY DEF Store
<1>3. job.gen = obj.gen /\ obj.phase # "gone" /\ obj.gen > 0
  BY <1>1 DEF LockInv, GenInv
<1>4. /\ o \in Object /\ o.phase = obj.phase /\ o.gen = obj.gen /\ o.obs = job.gen
      /\ o.states = [obj.states EXCEPT ![n] = e]
      /\ o.sync = Aggregate(o.states, obj.gen, Pool(labelView[n], obj.sel))
  BY <1>1, UpdatedType
<1> HIDE DEF o
<1>5. /\ o.states[n] = e
      /\ \A m \in Nodes \ {n} : o.states[m] = obj.states[m]
      /\ e.state = job.target /\ e.gen = job.gen
  BY <1>1, <1>4 DEF Object
<1> HIDE DEF e
<1>6. CacheInv' /\ LockInv'
  BY <1>2 DEF CacheInv, LockInv
<1>7. GenInv'
  <2>1. obj.gen \in Nat /\ job.gen \in Nat
    BY <1>1 DEF Object, Job
  <2>2. \A m \in Nodes : o.states[m].gen <= obj.gen
    BY <1>1, <1>3, <1>5, <2>1 DEF GenInv
  <2> QED BY <1>2, <1>3, <1>4, <2>1, <2>2 DEF GenInv
<1>8. EntryInv'
  BY <1>1, <1>2, <1>5 DEF EntryInv, JobInv
<1>9. AggregateSound'
  BY <1>2, <1>3, <1>4 DEF AggregateSound
<1>10. /\ queued' \subseteq Nodes
       /\ \E j \in Job : /\ worker' = [worker EXCEPT ![n] = j]
                         /\ j.pc # "write"
                         /\ j.pc = "read" => j.target = "Failed"
  BY <1>1, PatchDoneJob
<1>11. worker' \in [Nodes -> Job] /\ JobInv'
  BY <1>1, <1>10, JobFrame
<1>12. TypeOK'
  BY <1>1, <1>2, <1>4, <1>10, <1>11 DEF TypeOK, Pool
<1> QED BY <1>6, <1>7, <1>8, <1>9, <1>11, <1>12 DEF Inv

\* The status patch is sent.
LEMMA PatchWriteInv == ASSUME Inv, NEW n \in Nodes, PatchWrite(n) PROVE Inv'
<1>1. TypeOK /\ worker[n].pc = "write"
  BY DEF Inv, PatchWrite
<1>2. CASE n \in locked
  BY <1>1, <1>2, AcceptedWriteInv DEF PatchWrite, TypeOK
<1>3. CASE n \notin locked
  <2>1. Conflict(n) \/ \E ok \in BOOLEAN : PatchDone(n, ok)
    BY <1>3 DEF PatchWrite
  <2>2. UNCHANGED <<obj, cache, synced, locked, labels, labelView, sriov, policySel,
                    applied, aggPool, spent>>
    BY <1>3 DEF PatchWrite
  <2> QED BY <1>1, <2>1, <2>2, PatchEndInv DEF TypeOK
<1> QED BY <1>2, <1>3

\* The call fails, carried out or not.
LEMMA PatchErrorInv == ASSUME Inv, NEW n \in Nodes, PatchError(n) PROVE Inv'
<1>1. TypeOK /\ worker[n].pc = "write" /\ PatchDone(n, FALSE)
      /\ UNCHANGED <<cache, labels, labelView, sriov, policySel, applied>>
  BY DEF Inv, PatchError
<1>2. spent' \in [faults : Nat, sriov : Nat, relabels : Nat]
  BY <1>1 DEF PatchError, TypeOK
<1>3. CASE UNCHANGED <<obj, synced, locked, aggPool>>
  BY <1>1, <1>2, <1>3, PatchEndInv
<1>4. CASE n \in locked /\ Store(Updated(n, obj)) /\ aggPool' = Pool(labelView[n], obj.sel)
  BY <1>1, <1>2, <1>4, AcceptedWriteInv
<1> QED BY <1>3, <1>4 DEF PatchError

\* failReconcile on a worker: it reports Failed or is idle and queued again.
LEMMA FailReconcileJob ==
    ASSUME TypeOK, NEW n \in Nodes, NEW selected \in BOOLEAN, FailReconcile(n, selected)
    PROVE  /\ queued' \subseteq Nodes
           /\ \E j \in Job : /\ worker' = [worker EXCEPT ![n] = j]
                             /\ j.pc # "write"
                             /\ j.pc = "read" => j.target = "Failed"
<1> DEFINE p == Patching(worker[n], "Failed", TRUE, "fail")
<1> worker[n] \in Job
  BY DEF TypeOK
<1>1. p \in Job /\ p.pc = "read" /\ p.target = "Failed"
  BY PatchingType DEF States, Conts
<1>2. CASE selected
  <2>1. worker' = [worker EXCEPT ![n] = p] /\ queued' = queued
    BY <1>2 DEF FailReconcile, SetJob
  <2> HIDE DEF p
  <2> QED BY <1>1, <2>1 DEF TypeOK
<1>3. CASE ~selected
  <2>1. worker' = [worker EXCEPT ![n] = IdleJob] /\ queued' \subseteq Nodes
    BY <1>3 DEF FailReconcile, Return, SetJob, TypeOK
  <2>2. IdleJob.pc = "idle"
    BY DEF IdleJob
  <2> QED BY <2>1, <2>2, ConstantTypes
<1> QED BY <1>2, <1>3

\* A step of the work or of the deletion fails.
LEMMA FailInv ==
    ASSUME Inv, NEW n \in Nodes, NEW selected \in BOOLEAN, FailReconcile(n, selected),
           spent' = [spent EXCEPT !.faults = @ + 1], policySel' \in Labels \cup {NoSel},
           UNCHANGED <<obj, cache, synced, locked, labels, labelView, sriov, applied, aggPool>>
    PROVE  Inv'
<1>1. TypeOK /\ JobInv /\ LockInv
  BY DEF Inv
<1>2. /\ queued' \subseteq Nodes
      /\ \E j \in Job : /\ worker' = [worker EXCEPT ![n] = j]
                        /\ j.pc # "write"
                        /\ j.pc = "read" => j.target = "Failed"
  BY <1>1, FailReconcileJob
<1>3. worker' \in [Nodes -> Job] /\ JobInv' /\ LockInv'
  BY <1>1, <1>2, JobFrame
<1>4. TypeOK' /\ CacheInv'
  BY <1>1, <1>2, <1>3 DEF Inv, TypeOK, CacheInv
<1>5. GenInv' /\ EntryInv' /\ AggregateSound'
  BY ObjectFrame DEF Inv
<1> QED BY <1>3, <1>4, <1>5 DEF Inv

\* The work of a reconcile fails.
LEMMA WorkFailsInv == ASSUME Inv, NEW n \in Nodes, WorkFails(n) PROVE Inv'
<1>1. worker[n] \in Job /\ policySel \in Labels \cup {NoSel}
  BY DEF Inv, TypeOK
<1>2. worker[n].selected \in BOOLEAN /\ policySel' \in Labels \cup {NoSel}
  BY <1>1 DEF WorkFails, Job
<1> QED BY <1>2, FailInv DEF WorkFails

\* The cleanup of a deleted object fails.
LEMMA DeletionFailsInv == ASSUME Inv, NEW n \in Nodes, DeletionFails(n) PROVE Inv'
<1>1. policySel' \in Labels \cup {NoSel}
  BY DEF Inv, TypeOK, DeletionFails
<1> QED BY <1>1, FailInv DEF DeletionFails

\* The work of a reconcile succeeds: only now may the node report success.
LEMMA WorkOKInv == ASSUME Inv, NEW n \in Nodes, WorkOK(n) PROVE Inv'
<1> DEFINE job == worker[n]
           p   == Patching(job, Reported(sriov[n]), FALSE, "report")
<1>1. TypeOK /\ JobInv /\ LockInv /\ job \in Job
  BY DEF Inv, TypeOK
<1>2. applied' = [applied EXCEPT ![n] = @ \cup {job.gen}]
      /\ UNCHANGED <<obj, cache, synced, locked, labels, labelView, sriov, aggPool, spent>>
      /\ policySel' = job.sel
  BY DEF WorkOK
<1>3. /\ applied' \in [Nodes -> SUBSET Nat] /\ job.gen \in applied'[n]
      /\ \A m \in Nodes : applied[m] \subseteq applied'[m]
      /\ policySel' \in Labels \cup {NoSel}
  BY <1>1, <1>2 DEF TypeOK, Job
<1>4. p \in Job /\ p.pc = "read" /\ p.gen = job.gen
  <2>1. Reported(sriov[n]) \in States
    BY DEF Reported, States
  <2> QED BY <1>1, <2>1, PatchingType DEF Conts
<1>5. /\ queued' \subseteq Nodes
      /\ \E j \in Job : /\ worker' = [worker EXCEPT ![n] = j]
                        /\ j.pc # "write"
                        /\ j.pc = "read" => j.gen \in applied'[n]
  <2>1. CASE job.selected
    <3>1. worker' = [worker EXCEPT ![n] = p] /\ queued' = queued
      BY <2>1 DEF WorkOK, SetJob
    <3> HIDE DEF p
    <3> QED BY <1>1, <1>3, <1>4, <3>1 DEF TypeOK
  <2>2. CASE ~job.selected
    <3>1. worker' = [worker EXCEPT ![n] = IdleJob] /\ queued' \subseteq Nodes
      BY <1>1, <2>2 DEF WorkOK, Return, SetJob, TypeOK
    <3>2. IdleJob.pc = "idle"
      BY DEF IdleJob
    <3> QED BY <3>1, <3>2, ConstantTypes
  <2> QED BY <2>1, <2>2
<1>6. PICK j \in Job : /\ worker' = [worker EXCEPT ![n] = j]
                       /\ j.pc # "write"
                       /\ j.pc = "read" => j.gen \in applied'[n]
  BY <1>5
<1>7. worker' \in [Nodes -> Job] /\ worker'[n] = j
      /\ \A m \in Nodes \ {n} : worker'[m] = worker[m]
  BY <1>1, <1>6 DEF TypeOK
<1>8. TypeOK' /\ CacheInv'
  BY <1>1, <1>2, <1>3, <1>5, <1>7 DEF Inv, TypeOK, CacheInv
<1>9. JobInv'
  BY <1>1, <1>3, <1>6, <1>7 DEF JobInv
<1>10. LockInv'
  BY <1>1, <1>2, <1>6, <1>7 DEF LockInv, TypeOK
<1>11. GenInv' /\ EntryInv' /\ AggregateSound'
  BY <1>2, <1>3, ObjectFrame DEF Inv
<1> QED BY <1>8, <1>9, <1>10, <1>11 DEF Inv

\* The cleanup of a deleted object succeeds and its finalizer goes.
LEMMA DeletionOKInv ==
    ASSUME Inv, NEW n \in Nodes, DeletionOK(n) \/ FinalizerFails(n) PROVE Inv'
<1>1. TypeOK /\ JobInv /\ LockInv
  BY DEF Inv
<1>2. /\ worker' = [worker EXCEPT ![n] = IdleJob] /\ queued' \subseteq Nodes
      /\ policySel' = NoSel /\ spent' \in [faults : Nat, sriov : Nat, relabels : Nat]
      /\ UNCHANGED <<cache, labels, labelView, sriov, applied, aggPool>>
  BY <1>1 DEF DeletionOK, FinalizerFails, Return, SetJob, TypeOK
<1>3. IdleJob.pc = "idle"
  BY DEF IdleJob
<1>4. worker' \in [Nodes -> Job] /\ JobInv'
      /\ (obj' = obj /\ locked' = locked => LockInv')
  BY <1>1, <1>2, <1>3, ConstantTypes, JobFrame
<1>5. CASE UNCHANGED <<obj, synced, locked>>
  <2>1. TypeOK' /\ CacheInv'
    BY <1>1, <1>2, <1>4, <1>5 DEF Inv, TypeOK, CacheInv
  <2>2. GenInv' /\ EntryInv' /\ AggregateSound'
    BY <1>2, <1>5, ObjectFrame DEF Inv
  <2> QED BY <1>4, <1>5, <2>1, <2>2 DEF Inv
<1>6. CASE Store(GoneObject)
  <2>1. TypeOK'
    BY <1>1, <1>2, <1>4, <1>6, ConstantTypes DEF TypeOK, Store
  <2> QED BY <1>4, <1>6, <2>1, GoneFrame DEF Inv
<1> QED BY <1>5, <1>6 DEF DeletionOK, FinalizerFails

\* Informer deliveries, resyncs and node changes touch no worker and no object.
LEMMA EnvironmentInv ==
    ASSUME Inv, NEW n \in Nodes,
           CacheSync(n) \/ LabelSync(n) \/ Resync(n) \/ SriovChange(n) \/ Relabel(n)
    PROVE  Inv'
<1>1. TypeOK /\ CacheInv
  BY DEF Inv
<1>2. CASE CacheSync(n)
  <2>1. TypeOK' /\ CacheInv'
    BY <1>1, <1>2 DEF CacheSync, TypeOK, CacheInv
  <2> QED BY <1>2, <2>1, QuietFrame DEF CacheSync
<1>3. CASE LabelSync(n)
  <2>1. TypeOK' /\ CacheInv'
    BY <1>1, <1>3 DEF LabelSync, ListRailPoolConfigsForNode, TypeOK, CacheInv
  <2> QED BY <1>3, <2>1, QuietFrame DEF LabelSync
<1>4. CASE Resync(n)
  <2>1. TypeOK' /\ CacheInv'
    BY <1>1, <1>4 DEF Resync, TypeOK, CacheInv
  <2> QED BY <1>4, <2>1, QuietFrame DEF Resync
<1>5. CASE SriovChange(n)
  <2>1. TypeOK' /\ CacheInv'
    BY <1>1, <1>5 DEF SriovChange, ListRailPoolConfigsForNode, TypeOK, CacheInv
  <2> QED BY <1>5, <2>1, QuietFrame DEF SriovChange
<1>6. CASE Relabel(n)
  <2>1. TypeOK' /\ CacheInv'
    BY <1>1, <1>6 DEF Relabel, TypeOK, CacheInv
  <2> QED BY <1>6, <2>1, QuietFrame DEF Relabel
<1> QED BY <1>2, <1>3, <1>4, <1>5, <1>6

\* The flowcontroller of a node restarts.
LEMMA RestartInv == ASSUME Inv, NEW n \in Nodes, Restart(n) PROVE Inv'
<1>1. TypeOK /\ JobInv /\ LockInv /\ CacheInv
  BY DEF Inv
<1>2. worker' = [worker EXCEPT ![n] = IdleJob] /\ UNCHANGED <<obj, applied, aggPool>>
      /\ locked' \subseteq locked /\ IdleJob.pc = "idle"
  BY DEF Restart, SetJob, IdleJob
<1>3. worker' \in [Nodes -> Job] /\ JobInv' /\ LockInv'
  BY <1>1, <1>2, ConstantTypes, JobFrame
<1>4. TypeOK' /\ CacheInv'
  BY <1>1, <1>2, <1>3 DEF Restart, TypeOK, CacheInv
<1>5. GenInv' /\ EntryInv' /\ AggregateSound'
  BY <1>2, ObjectFrame DEF Inv
<1> QED BY <1>3, <1>4, <1>5 DEF Inv

\* A user edits the object.
LEMMA EditSpecInv == ASSUME Inv, EditSpec PROVE Inv'
<1>1. PICK l \in Labels : Store([obj EXCEPT !.gen = @ + 1, !.sel = l])
  BY DEF EditSpec
<1> DEFINE o == [obj EXCEPT !.gen = @ + 1, !.sel = l]
<1>2. obj \in Object /\ TypeOK /\ UNCHANGED <<worker, applied, aggPool>>
  BY DEF Inv, TypeOK, EditSpec
<1> obj.gen \in Nat /\ obj.gen + 1 \in Nat
  BY <1>2 DEF Object
<1>3. /\ o \in Object /\ o.states = obj.states /\ o.sync = obj.sync /\ o.obs = obj.obs
      /\ o.gen = obj.gen + 1
  BY <1>2 DEF Object
<1>4. Store(o)
  BY <1>1
<1> HIDE DEF o
<1>5. CacheInv' /\ LockInv' /\ GenInv' /\ EntryInv' /\ JobInv' /\ AggregateSound'
  BY <1>2, <1>3, <1>4, StoreFrame
<1>6. TypeOK'
  BY <1>2, <1>3, <1>4 DEF EditSpec, TypeOK, Store
<1> QED BY <1>5, <1>6 DEF Inv

\* A user deletes the object.
LEMMA DeleteObjectInv == ASSUME Inv, DeleteObject PROVE Inv'
<1> DEFINE o == [obj EXCEPT !.phase = "deleting", !.gen = @ + 1]
<1>1. obj \in Object /\ TypeOK /\ JobInv /\ UNCHANGED <<worker, applied, aggPool>>
  BY DEF Inv, TypeOK, DeleteObject
<1> obj.gen \in Nat /\ obj.gen + 1 \in Nat
  BY <1>1 DEF Object
<1>2. /\ o \in Object /\ o.states = obj.states /\ o.sync = obj.sync /\ o.obs = obj.obs
      /\ o.gen = obj.gen + 1
  BY <1>1 DEF Object
<1>3. CASE obj.fin
  <2>1. Store(o)
    BY <1>3 DEF DeleteObject
  <2> HIDE DEF o
  <2>2. CacheInv' /\ LockInv' /\ GenInv' /\ EntryInv' /\ JobInv' /\ AggregateSound'
    BY <1>1, <1>2, <2>1, StoreFrame
  <2>3. TypeOK'
    BY <1>1, <1>2, <2>1 DEF DeleteObject, TypeOK, Store
  <2> QED BY <2>2, <2>3 DEF Inv
<1>4. CASE ~obj.fin
  <2>1. Store(GoneObject)
    BY <1>4 DEF DeleteObject
  <2>2. TypeOK' /\ JobInv'
    BY <1>1, <2>1, ConstantTypes DEF DeleteObject, TypeOK, Store, JobInv
  <2> QED BY <2>1, <2>2, GoneFrame DEF Inv
<1> QED BY <1>3, <1>4

-----------------------------------------------------------------------------
(* The theorems. *)

\* Every step keeps the invariant.
LEMMA NextInv == Inv /\ [Next]_vars => Inv'
<1> SUFFICES ASSUME Inv, [Next]_vars PROVE Inv'
  OBVIOUS
<1>1. ASSUME NEW n \in Nodes, Step(n) PROVE Inv'
  BY <1>1, StartGoneInv, AddFinalizerInv, StartDeletionInv, StartReconcileInv, PatchReadInv,
     PatchWriteInv, WorkOKInv, DeletionOKInv DEF Step
<1>2. ASSUME NEW n \in Nodes, Fault(n) PROVE Inv'
  BY <1>2, PatchErrorInv, WorkFailsInv, DeletionFailsInv, DeletionOKInv, RestartInv DEF Fault
<1>3. ASSUME NEW n \in Nodes, Environment(n) \/ CacheSync(n) \/ LabelSync(n) \/ Resync(n) PROVE Inv'
  BY <1>3, EnvironmentInv DEF Environment
<1>4. CASE EditSpec
  BY <1>4, EditSpecInv
<1>5. CASE DeleteObject
  BY <1>5, DeleteObjectInv
<1>6. CASE UNCHANGED vars
  BY <1>6 DEF vars, Inv, TypeOK, CacheInv, LockInv, GenInv, EntryInv, JobInv, AggregateSound
<1> QED BY <1>1, <1>2, <1>3, <1>4, <1>5, <1>6 DEF Next

\* The invariant holds throughout.
LEMMA SpecInv == Spec => []Inv
BY InitInv, NextInv, PTL DEF Spec

\* Type correctness of the status protocol.
THEOREM TypeCorrect == Spec => []TypeOK
<1>1. Inv => TypeOK
  BY DEF Inv
<1> QED BY <1>1, SpecInv, PTL

\* The aggregate always is the aggregate of the entries it is stored with, for
\* the generation it names, on any number of nodes.
THEOREM AggregateIsSound == Spec => []AggregateSound
<1>1. Inv => AggregateSound
  BY DEF Inv
<1> QED BY <1>1, SpecInv, PTL

\* Succeeded is never reported before every node of the pool has carried out
\* the generation it is reported for.
THEOREM SucceededIsEarned == Spec => []SucceededMeansApplied
<1>1. ASSUME Inv PROVE SucceededMeansApplied
  <2> SUFFICES ASSUME obj.sync = "Succeeded", NEW n \in aggPool
               PROVE  obj.obs \in applied[n]
    BY DEF SucceededMeansApplied
  <2>1. obj \in Object /\ n \in Nodes
    BY <1>1 DEF Inv, TypeOK
  <2>2. obj.obs > 0
    BY <1>1, <2>1 DEF Inv, GenInv, Object
  <2>3. Aggregate(obj.states, obj.obs, aggPool) = "Succeeded"
    BY <1>1, <2>2 DEF Inv, AggregateSound
  <2>4. obj.states[n].state = "Succeeded" /\ obj.states[n].gen = obj.obs
    BY <2>3, AggregateSucceeded
  <2> QED BY <1>1, <2>1, <2>4 DEF Inv, EntryInv
<1> QED BY <1>1, SpecInv, PTL

\* A step that leaves the status alone is such a step.
LEMMA SameStatusStep ==
    ASSUME Inv, obj'.states = obj.states, obj'.obs = obj.obs
    PROVE  EntryStep
<1>1. obj \in Object
  BY DEF Inv, TypeOK
<1>2. obj.obs \in Nat /\ \A n \in Nodes : obj.states[n].gen \in Nat
  BY <1>1 DEF Object, NodeState
<1> QED BY <1>2 DEF EntryStep

\* An accepted status write is such a step.
LEMMA AcceptedWriteStep ==
    ASSUME Inv, NEW n \in Nodes, worker[n].pc = "write", n \in locked, obj' = Updated(n, obj),
           worker'[n].pc # "write"
    PROVE  EntryStep
<1>1. TypeOK /\ obj \in Object /\ GenInv /\ worker[n] \in Job
  BY DEF Inv, TypeOK
<1>2. worker[n].gen = obj.gen
  BY DEF Inv, LockInv
<1> DEFINE e == [state |-> worker[n].target, err |-> worker[n].err, gen |-> worker[n].gen]
<1>3. obj'.obs = worker[n].gen /\ obj'.states = [obj.states EXCEPT ![n] = e]
  BY <1>1, UpdatedType
<1>4. /\ obj'.states[n].gen = obj.gen
      /\ \A m \in Nodes \ {n} : obj'.states[m] = obj.states[m]
  BY <1>1, <1>2, <1>3 DEF Object
<1>5. \A m \in Nodes : obj.states[m].gen \in Nat
  BY <1>1 DEF Object, NodeState
<1>6. \A m \in Nodes : obj.states[m].gen <= obj'.states[m].gen
  BY <1>1, <1>4, <1>5 DEF GenInv
<1> QED BY <1>1, <1>2, <1>3, <1>4, <1>6 DEF EntryStep, GenInv

\* No step of any node or of the environment changes a foreign entry or goes
\* back to an earlier observed generation.
THEOREM EntriesAreOwned == Spec => OwnEntryForward
<1>1. ASSUME Inv, [Next]_vars PROVE obj' = obj \/ EntryStep
  <2> USE <1>1
  <2>1. CASE UNCHANGED obj
    BY <2>1
  <2>2. CASE \E o : Store(o) /\ (o = GoneObject \/ (o.states = obj.states /\ o.obs = obj.obs))
    <3>1. GoneObject.phase = "gone"
      BY DEF GoneObject
    <3> QED BY <2>2, <3>1, SameStatusStep DEF Store, EntryStep
  <2>3. ASSUME NEW n \in Nodes, AddFinalizer(n) PROVE obj' = obj \/ EntryStep
    <3> DEFINE o == [obj EXCEPT !.fin = TRUE]
    <3>1. o.states = obj.states /\ o.obs = obj.obs
      BY DEF Inv, TypeOK, Object
    <3> QED BY <2>2, <2>3, <3>1 DEF AddFinalizer
  <2>4. ASSUME NEW n \in Nodes, PatchWrite(n) \/ PatchError(n) PROVE obj' = obj \/ EntryStep
    <3>1. CASE obj' = obj
      BY <3>1
    <3>2. CASE n \in locked /\ obj' = Updated(n, obj)
      <4>1. /\ worker[n].pc = "write"
            /\ worker \in [Nodes -> Job]
            /\ PatchDone(n, TRUE) \/ PatchDone(n, FALSE)
        BY <2>4, <3>2 DEF PatchWrite, PatchError, Inv, TypeOK
      <4>2. \/ worker' = [worker EXCEPT ![n] = [worker[n] EXCEPT !.pc = "work"]]
            \/ worker' = [worker EXCEPT ![n] = Patching(worker[n], "Failed", TRUE, "fail")]
            \/ worker' = [worker EXCEPT ![n] = IdleJob]
        BY <4>1, Zenon DEF PatchDone, FailReconcile, Return, SetJob
      <4>3. worker'[n].pc # "write"
        <5>1. /\ Patching(worker[n], "Failed", TRUE, "fail").pc = "read"
              /\ [worker[n] EXCEPT !.pc = "work"].pc = "work"
              /\ IdleJob.pc = "idle"
          BY <4>1 DEF Patching, IdleJob, Job
        <5>2. worker'[n] \in {[worker[n] EXCEPT !.pc = "work"],
                              Patching(worker[n], "Failed", TRUE, "fail"), IdleJob}
          BY <4>1, <4>2
        <5> QED BY <5>1, <5>2
      <4> QED BY <3>2, <4>1, <4>3, AcceptedWriteStep
    <3> QED BY <2>4, <3>1, <3>2 DEF PatchWrite, PatchError, Store
  <2>5. ASSUME NEW n \in Nodes, DeletionOK(n) \/ FinalizerFails(n) PROVE obj' = obj \/ EntryStep
    BY <2>2, <2>5 DEF DeletionOK, FinalizerFails
  <2>6. CASE EditSpec
    <3>1. PICK l \in Labels : Store([obj EXCEPT !.gen = @ + 1, !.sel = l])
      BY <2>6 DEF EditSpec
    <3> DEFINE o == [obj EXCEPT !.gen = @ + 1, !.sel = l]
    <3>2. o.states = obj.states /\ o.obs = obj.obs
      BY DEF Inv, TypeOK, Object
    <3> QED BY <2>2, <3>1, <3>2
  <2>7. CASE DeleteObject
    <3> DEFINE o == [obj EXCEPT !.phase = "deleting", !.gen = @ + 1]
    <3>1. o.states = obj.states /\ o.obs = obj.obs
      BY DEF Inv, TypeOK, Object
    <3> QED BY <2>2, <2>7, <3>1 DEF DeleteObject
  <2>8. ASSUME NEW n \in Nodes,
               \/ StartGone(n) \/ StartDeletion(n) \/ StartReconcile(n) \/ PatchRead(n) \/ WorkOK(n)
               \/ WorkFails(n) \/ DeletionFails(n) \/ Restart(n) \/ SriovChange(n) \/ Relabel(n)
               \/ CacheSync(n) \/ LabelSync(n) \/ Resync(n)
        PROVE  obj' = obj
    BY <2>8 DEF StartGone, StartDeletion, StartReconcile, PatchRead, WorkOK, WorkFails,
                DeletionFails, Restart, SriovChange, Relabel, CacheSync, LabelSync, Resync
  <2>9. CASE UNCHANGED vars
    BY <2>9 DEF vars
  <2> QED BY <2>3, <2>4, <2>5, <2>6, <2>7, <2>8, <2>9 DEF Next, Step, Fault, Environment
<1>2. ASSUME Inv, [Next]_vars PROVE [EntryStep]_obj
  BY <1>1, <1>2
<1> QED BY <1>2, SpecInv, PTL DEF Spec, OwnEntryForward

-----------------------------------------------------------------------------
(* SyncStatus implements StatusBoard. *)

\* aggregateSyncStatus computes the right verdict.
LEMMA AggregateRight ==
    \A st, p : Board!Right(Aggregate(st, obj.gen, p), st, p)
BY DEF Aggregate, Board!Right, Board!Says

\* Initial states are initial states of the board.
LEMMA InitBoard == Init => Board!Init
<1> SUFFICES ASSUME Init PROVE Board!Init
  OBVIOUS
<1>1. PICK l \in Labels : obj = [GoneObject EXCEPT !.phase = "live", !.gen = 1, !.sel = l]
  BY DEF Init
<1>2. /\ obj.gen = 1 /\ obj.obs = 0 /\ obj.sync = "None"
      /\ obj.states = [n \in Nodes |-> NoState]
  BY <1>1 DEF GoneObject
<1> QED BY <1>2 DEF Init, Board!Init, Board!Empty

\* An accepted patch is a report.
LEMMA ReportStep ==
    ASSUME Inv, NEW n \in Nodes, worker[n].pc = "write", n \in locked,
           obj' = Updated(n, obj), aggPool' = Pool(labelView[n], obj.sel), applied' = applied
    PROVE  Board!Next
<1>1. TypeOK /\ obj \in Object /\ GenInv /\ JobInv /\ worker[n] \in Job
  BY DEF Inv, TypeOK
<1>2. worker[n].gen = obj.gen /\ obj.gen > 0
  BY <1>1 DEF Inv, LockInv, GenInv
<1> DEFINE e == [state |-> worker[n].target, err |-> worker[n].err, gen |-> worker[n].gen]
<1>3. /\ obj'.gen = obj.gen /\ obj'.obs = worker[n].gen
      /\ obj'.states = [obj.states EXCEPT ![n] = e]
      /\ obj'.sync = Aggregate(obj'.states, obj.gen, aggPool')
  BY <1>1, UpdatedType
<1>4. obj'.states[n] = e
  BY <1>1, <1>3 DEF Object
<1>5. obj'.states = [obj.states EXCEPT ![n] = obj'.states[n]]
  BY <1>3, <1>4
<1>6. /\ obj'.states[n].gen = obj.gen
      /\ obj'.states[n].state \in {"InProgress", "Failed", "Succeeded"}
      /\ obj'.states[n].state = "Succeeded" => obj.gen \in applied[n]
  BY <1>1, <1>2, <1>4 DEF Job, States, JobInv
<1>7. Board!Right(obj'.sync, obj'.states, aggPool')
  BY <1>3, AggregateRight
<1>8. aggPool' \subseteq Nodes
  BY DEF Pool
<1>9. Board!Report(n)
  BY <1>2, <1>3, <1>5, <1>6, <1>7, <1>8 DEF Board!Report
<1> QED BY <1>9 DEF Board!Next

\* The object goes.
LEMMA RemoveStep ==
    ASSUME Inv, obj.phase # "gone", obj' = GoneObject, UNCHANGED <<aggPool, applied>>
    PROVE  Board!Next
<1>1. obj.gen > 0
  BY DEF Inv, GenInv
<1>2. /\ obj'.gen = 0 /\ obj'.obs = 0 /\ obj'.sync = "None"
      /\ obj'.states = [n \in Nodes |-> NoState]
  BY DEF GoneObject
<1> QED BY <1>1, <1>2 DEF Board!Next, Board!Remove, Board!Empty

\* A step that changes no part of the object that the board has.
LEMMA SameBoard ==
    ASSUME obj'.gen = obj.gen, obj'.states = obj.states, obj'.sync = obj.sync, obj'.obs = obj.obs,
           UNCHANGED <<aggPool, applied>>
    PROVE  UNCHANGED Board!vars
BY DEF Board!vars

\* Every step is a step of the board or leaves it as it is.
LEMMA StepBoard == Inv /\ [Next]_vars => [Board!Next]_(Board!vars)
<1> SUFFICES ASSUME Inv, [Next]_vars PROVE [Board!Next]_(Board!vars)
  OBVIOUS
<1> obj \in Object /\ TypeOK
  BY DEF Inv, TypeOK
<1>1. ASSUME NEW n \in Nodes, AddFinalizer(n) PROVE UNCHANGED Board!vars
  <2> DEFINE o == [obj EXCEPT !.fin = TRUE]
  <2>1. o.gen = obj.gen /\ o.states = obj.states /\ o.sync = obj.sync /\ o.obs = obj.obs
    BY DEF Object
  <2>2. obj' \in {obj, o} /\ UNCHANGED <<aggPool, applied>>
    BY <1>1 DEF AddFinalizer, Store
  <2> QED BY <2>1, <2>2, SameBoard
<1>2. ASSUME NEW n \in Nodes, PatchWrite(n) \/ PatchError(n) PROVE [Board!Next]_(Board!vars)
  <2>1. applied' = applied /\ worker[n].pc = "write"
    BY <1>2 DEF PatchWrite, PatchError
  <2>2. CASE UNCHANGED <<obj, aggPool>>
    BY <2>1, <2>2, SameBoard
  <2>3. CASE n \in locked /\ obj' = Updated(n, obj) /\ aggPool' = Pool(labelView[n], obj.sel)
    BY <2>1, <2>3, ReportStep
  <2> QED BY <1>2, <2>2, <2>3 DEF PatchWrite, PatchError, Store
<1>3. ASSUME NEW n \in Nodes, WorkOK(n) PROVE [Board!Next]_(Board!vars)
  <2>1. applied' = [applied EXCEPT ![n] = @ \cup {worker[n].gen}] /\ UNCHANGED <<obj, aggPool>>
    BY <1>3 DEF WorkOK
  <2>2. worker[n].gen \in applied'[n]
    BY <2>1 DEF TypeOK
  <2>3. Board!CarryOut(n)
    BY <2>1, <2>2 DEF Board!CarryOut
  <2> QED BY <2>3 DEF Board!Next
<1>4. ASSUME NEW n \in Nodes, DeletionOK(n) \/ FinalizerFails(n) PROVE [Board!Next]_(Board!vars)
  <2>1. UNCHANGED <<aggPool, applied>> /\ (obj' = obj \/ (obj.phase # "gone" /\ obj' = GoneObject))
    BY <1>4 DEF DeletionOK, FinalizerFails, Store
  <2> QED BY <2>1, RemoveStep, SameBoard
<1>5. CASE EditSpec \/ (DeleteObject /\ obj.fin)
  <2>1. /\ obj'.gen = obj.gen + 1 /\ obj'.states = obj.states /\ obj'.sync = obj.sync
        /\ obj'.obs = obj.obs
    BY <1>5 DEF EditSpec, DeleteObject, Store, Object
  <2>2. obj.gen > 0 /\ UNCHANGED <<aggPool, applied>>
    BY <1>5 DEF EditSpec, DeleteObject, Inv, GenInv
  <2> QED BY <2>1, <2>2 DEF Board!Next, Board!Edit
<1>6. CASE DeleteObject /\ ~obj.fin
  <2>1. obj.phase # "gone" /\ obj' = GoneObject /\ UNCHANGED <<aggPool, applied>>
    BY <1>6 DEF DeleteObject, Store
  <2> QED BY <2>1, RemoveStep
<1>7. ASSUME NEW n \in Nodes,
             \/ StartGone(n) \/ StartDeletion(n) \/ StartReconcile(n) \/ PatchRead(n)
             \/ WorkFails(n) \/ DeletionFails(n) \/ Restart(n) \/ SriovChange(n) \/ Relabel(n)
             \/ CacheSync(n) \/ LabelSync(n) \/ Resync(n)
      PROVE  UNCHANGED Board!vars
  <2>1. UNCHANGED <<obj, aggPool, applied>>
    BY <1>7 DEF StartGone, StartDeletion, StartReconcile, PatchRead, WorkFails, DeletionFails,
                Restart, SriovChange, Relabel, CacheSync, LabelSync, Resync
  <2> QED BY <2>1, SameBoard
<1>8. CASE UNCHANGED vars
  BY <1>8, SameBoard DEF vars
<1> QED BY <1>1, <1>2, <1>3, <1>4, <1>5, <1>6, <1>7, <1>8 DEF Next, Step, Fault, Environment

\* The status is a StatusBoard: what nodes do to it through caches, locks and
\* retries are atomic reports on the current generation, each with a right verdict.
THEOREM ImplementsBoard == Spec => KeepsBoard
BY InitBoard, StepBoard, SpecInv, PTL DEF Spec, KeepsBoard, Board!Spec
=============================================================================
