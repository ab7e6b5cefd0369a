--------------------------- MODULE SyncStatusRest ---------------------------
(***************************************************************************)
(* No wake-up is lost in SyncStatus, for any set of nodes and any bounds.  *)
(***************************************************************************)
EXTENDS SyncStatusProofs

-----------------------------------------------------------------------------
(* The inductive invariant. *)

\* Node n has the stored object in its cache and has been woken for it.
Woken(n) == obj.phase = "live" /\ n \in synced /\ n \notin queued

\* What n reports when its work is done, as long as its node state is the first one.
Reports(n, state, err) == ~err /\ (spent.sriov = 0 => state = Reported(sriov[n]))

\* A node that has been woken and is at work works for the stored object.
Working(n) ==
    /\ worker[n].pc \in {"work", "read", "write"}
    /\ worker[n].gen = obj.gen
    /\ worker[n].selected = (labelView[n][n] = obj.sel)
    /\ worker[n].pc # "work" /\ worker[n].cont = "report"
         => Reports(n, worker[n].target, worker[n].err)

\* A node of the pool that has been woken and has nothing left to do is content:
\* its last reconcile found nothing to write.
Content(n) ==
    /\ obj.obs = obj.gen
    /\ obj.sync = Aggregate(obj.states, obj.gen, Pool(labelView[n], obj.sel))
    /\ obj.states[n].gen = obj.gen
    /\ Reports(n, obj.states[n].state, obj.states[n].err)

WokenInv(n) ==
    Woken(n) => IF Idle(n) THEN labelView[n][n] = obj.sel => Content(n) ELSE Working(n)

\* As long as nobody is relabelled, labels are known and whoever was woken has
\* been of use or will be.
RestInv == spent.relabels = 0 => \A n \in Nodes : labelView[n] = labels /\ WokenInv(n)

-----------------------------------------------------------------------------
(* Frames. *)

\* A step that leaves node n and the object alone.
LEMMA BystanderFrame ==
    ASSUME NEW n \in Nodes, WokenInv(n),
           UNCHANGED <<obj, labelView>>, sriov'[n] = sriov[n] \/ spent'.sriov # 0,
           spent.sriov # 0 => spent'.sriov # 0,
           worker'[n] = worker[n], n \in synced' => n \in synced, n \in queued => n \in queued'
    PROVE  WokenInv(n)'
<1> SUFFICES ASSUME Woken(n)'
             PROVE  IF Idle(n)' THEN labelView[n][n] = obj.sel => Content(n)' ELSE Working(n)'
  BY DEF WokenInv
<1>1. Woken(n)
  BY DEF Woken
<1>2. \A state, err : Reports(n, state, err) => Reports(n, state, err)'
  BY DEF Reports
<1>3. CASE Idle(n)
  BY <1>1, <1>2, <1>3 DEF WokenInv, Idle, Content
<1>4. CASE ~Idle(n)
  BY <1>1, <1>2, <1>4 DEF WokenInv, Idle, Working
<1> QED BY <1>3, <1>4

\* The object is stored: nobody has it.
LEMMA StoreRest ==
    ASSUME RestInv, NEW o, Store(o), UNCHANGED <<labels, labelView>>, spent'.relabels = spent.relabels
    PROVE  RestInv'
BY DEF RestInv, WokenInv, Woken, Store

\* A step of node n that stores nothing: only what n does has to be looked at.
LEMMA LocalRest ==
    ASSUME Inv, RestInv, NEW n \in Nodes, NEW j, worker' = [worker EXCEPT ![n] = j],
           queued \ {n} \subseteq queued', UNCHANGED <<obj, synced, labels, labelView, sriov>>,
           spent'.relabels = spent.relabels, spent'.sriov = spent.sriov,
           WokenInv(n)'
    PROVE  RestInv'
<1> SUFFICES ASSUME spent.relabels = 0, NEW m \in Nodes PROVE WokenInv(m)'
  BY DEF RestInv
<1>1. CASE m = n
  BY <1>1
<1>2. CASE m # n
  <2>1. worker'[m] = worker[m]
    BY <1>2 DEF Inv, TypeOK
  <2>2. WokenInv(m)
    BY DEF RestInv
  <2> QED BY <1>2, <2>1, <2>2, BystanderFrame
<1> QED BY <1>1, <1>2

\* A step of the environment that takes nobody out of the queue and starts nothing.
LEMMA QuietRest ==
    ASSUME Inv, RestInv, NEW n \in Nodes, UNCHANGED <<obj, worker, labels, labelView>>,
           queued \subseteq queued', synced' \subseteq synced \/ (synced' = synced \cup {n} /\ n \in queued'),
           spent'.relabels = spent.relabels, spent.sriov # 0 => spent'.sriov # 0,
           sriov' = sriov \/ spent'.sriov # 0
    PROVE  RestInv'
<1> SUFFICES ASSUME spent.relabels = 0, NEW m \in Nodes PROVE WokenInv(m)'
  BY DEF RestInv
<1>1. WokenInv(m)
  BY DEF RestInv
<1>2. CASE m \in synced' => m \in synced
  BY <1>1, <1>2, BystanderFrame
<1>3. CASE m \in synced' /\ m \notin synced
  BY <1>3 DEF WokenInv, Woken
<1> QED BY <1>2, <1>3

-----------------------------------------------------------------------------
(* The reconcile of a node. *)

\* A reconcile that starts from a cached object which is not the stored live one
\* leaves a node that has not been woken.
LEMMA StaleStart ==
    ASSUME Inv, NEW n \in Nodes, cache[n] # obj \/ obj.phase # "live", UNCHANGED <<obj, synced>>
    PROVE  WokenInv(n)'
BY DEF Inv, CacheInv, WokenInv, Woken

\* An object that is not cached, or is being deleted.
LEMMA StartOtherRest ==
    ASSUME Inv, RestInv, NEW n \in Nodes, StartGone(n) \/ StartDeletion(n)
    PROVE  RestInv'
<1>1. cache[n].phase # "live"
  BY DEF StartGone, StartDeletion
<1>2. UNCHANGED <<obj, synced, labels, labelView, sriov, spent>> /\ queued \ {n} \subseteq queued'
  BY DEF StartGone, StartDeletion
<1>3. WokenInv(n)'
  BY <1>1, <1>2, StaleStart
<1>4. \E j : worker' = [worker EXCEPT ![n] = j]
  <2>1. CASE StartGone(n)
    <3>1. worker' = [worker EXCEPT ![n] = worker[n]]
      BY <2>1 DEF StartGone, Inv, TypeOK
    <3> QED BY <3>1
  <2>2. CASE StartDeletion(n)
    BY <2>2 DEF StartDeletion, SetJob
  <2> QED BY <2>1, <2>2
<1> QED BY <1>2, <1>3, <1>4, LocalRest

\* The finalizer is added, unless another node has.
LEMMA AddFinalizerRest ==
    ASSUME Inv, RestInv, NEW n \in Nodes, AddFinalizer(n)
    PROVE  RestInv'
<1>1. CASE obj.phase = "gone" \/ obj.fin
  <2>1. cache[n] # obj \/ obj.phase # "live"
    BY <1>1 DEF AddFinalizer
  <2>2. /\ UNCHANGED <<obj, synced, worker, labels, labelView, sriov, spent>>
        /\ queued \ {n} \subseteq queued'
    BY <1>1 DEF AddFinalizer
  <2>3. worker' = [worker EXCEPT ![n] = worker[n]]
    BY <2>2 DEF Inv, TypeOK
  <2>4. WokenInv(n)'
    BY <2>1, <2>2, StaleStart
  <2> QED BY <2>2, <2>3, <2>4, LocalRest
<1>2. CASE ~(obj.phase = "gone" \/ obj.fin)
  BY <1>2, StoreRest DEF AddFinalizer
<1> QED BY <1>1, <1>2

\* A live object: the reconcile starts from the cached copy.
LEMMA StartReconcileRest ==
    ASSUME Inv, RestInv, NEW n \in Nodes, StartReconcile(n)
    PROVE  RestInv'
<1> DEFINE o        == cache[n]
           selected == labelView[n][n] = o.sel
           job      == [worker[n] EXCEPT !.pc = "work", !.gen = o.gen,
                                         !.sel = o.sel, !.selected = selected]
           j        == IF selected /\ ~LocalSucceeded(n, o)
                       THEN Patching(job, "InProgress", FALSE, "begin") ELSE job
<1>1. worker[n] \in Job /\ o \in Object /\ selected \in BOOLEAN
  BY DEF Inv, TypeOK
<1>2. job \in Job /\ job.pc = "work" /\ job.gen = o.gen /\ job.selected = selected
  BY <1>1 DEF Job, PCs, Object
<1>3. worker' = [worker EXCEPT ![n] = j]
      /\ UNCHANGED <<obj, synced, labels, labelView, sriov, spent>> /\ queued \ {n} \subseteq queued'
  BY DEF StartReconcile, SetJob
<1> HIDE DEF job
<1>4. /\ j.pc \in {"work", "read"} /\ j.gen = o.gen /\ j.selected = selected
      /\ j.pc = "read" => j.cont = "begin"
  <2> DEFINE p == Patching(job, "InProgress", FALSE, "begin")
  <2>1. p.pc = "read" /\ p.gen = job.gen /\ p.selected = job.selected /\ p.cont = "begin"
    BY <1>2 DEF Patching, Job
  <2> HIDE DEF p, selected
  <2>2. j = p \/ j = job
    BY DEF p
  <2> HIDE DEF j
  <2> QED BY <1>2, <2>1, <2>2
<1> HIDE DEF j
<1>5. worker'[n] = j
  BY <1>3 DEF Inv, TypeOK
<1>6. WokenInv(n)'
  <2>1. CASE cache[n] = obj
    BY <1>3, <1>4, <1>5, <2>1 DEF WokenInv, Idle, Working
  <2>2. CASE cache[n] # obj
    BY <1>3, <2>2, StaleStart
  <2> QED BY <2>1, <2>2
<1> QED BY <1>3, <1>6, LocalRest

\* The reconcile of n goes on with job j for the same object, or with an error.
LEMMA GoOn ==
    ASSUME RestInv, NEW n \in Nodes, ~Idle(n), NEW j, worker'[n] = j,
           n \in queued => n \in queued', spent.relabels = 0,
           UNCHANGED <<obj, synced, labels, labelView, sriov>>, spent'.sriov = spent.sriov,
           \/ n \in queued'
           \/ /\ worker[n].pc \in {"work", "read", "write"} =>
                     j.pc \in {"work", "read", "write"} /\ j.gen = worker[n].gen /\ j.selected = worker[n].selected
              /\ worker[n].pc \notin {"work", "read", "write"} \/ j.pc = "work" \/ j.cont # "report" \/
                     (worker[n].pc # "work" /\ worker[n].cont = "report"
                        /\ j.target = worker[n].target /\ j.err = worker[n].err)
    PROVE  WokenInv(n)'
<1> SUFFICES ASSUME Woken(n)' PROVE ~Idle(n)' /\ Working(n)'
  BY DEF WokenInv
<1>1. n \notin queued' /\ Woken(n)
  BY DEF Woken
<1>2. Working(n)
  BY <1>1 DEF RestInv, WokenInv
<1>3. /\ j.pc \in {"work", "read", "write"} /\ j.gen = obj.gen
      /\ j.selected = (labelView[n][n] = obj.sel)
  BY <1>1, <1>2 DEF Working
<1>4. j.pc # "work" /\ j.cont = "report" => Reports(n, j.target, j.err)'
  BY <1>1, <1>2 DEF Working, Reports
<1> QED BY <1>3, <1>4 DEF Working, Idle

\* failReconcile: the failure is reported, or the object is queued again.
LEMMA FailReconcileRest ==
    ASSUME Inv, RestInv, NEW n \in Nodes, ~Idle(n), NEW selected \in BOOLEAN,
           FailReconcile(n, selected), spent.relabels = 0,
           UNCHANGED <<obj, synced, labels, labelView, sriov>>, spent'.sriov = spent.sriov
    PROVE  /\ \E j : worker' = [worker EXCEPT ![n] = j]
           /\ queued \subseteq queued'
           /\ WokenInv(n)'
<1> DEFINE p == Patching(worker[n], "Failed", TRUE, "fail")
<1>1. worker[n] \in Job /\ worker \in [Nodes -> Job]
  BY DEF Inv, TypeOK
<1>2. p.pc = "read" /\ p.gen = worker[n].gen /\ p.selected = worker[n].selected /\ p.cont = "fail"
  BY <1>1 DEF Patching, Job
<1>3. CASE selected
  <2>1. worker' = [worker EXCEPT ![n] = p] /\ queued' = queued
    BY <1>3 DEF FailReconcile, SetJob
  <2> HIDE DEF p
  <2>2. worker'[n] = p
    BY <1>1, <2>1
  <2>3. WokenInv(n)'
    BY <1>2, <2>1, <2>2, GoOn
  <2> QED BY <2>1, <2>3
<1>4. CASE ~selected
  <2>1. worker' = [worker EXCEPT ![n] = IdleJob] /\ queued' = queued \cup {n}
    BY <1>4 DEF FailReconcile, Return, SetJob
  <2> QED BY <2>1 DEF WokenInv, Woken
<1> QED BY <1>3, <1>4

\* The end of a patch, except the successful end of the reconcile.
LEMMA PatchDoneRest ==
    ASSUME Inv, RestInv, NEW n \in Nodes, worker[n].pc \in {"read", "write"}, NEW ok \in BOOLEAN,
           PatchDone(n, ok), ~(worker[n].cont = "report" /\ ok), spent.relabels = 0,
           UNCHANGED <<obj, synced, labels, labelView, sriov>>, spent'.sriov = spent.sriov
    PROVE  /\ \E j : worker' = [worker EXCEPT ![n] = j]
           /\ queued \subseteq queued'
           /\ WokenInv(n)'
<1>1. worker[n] \in Job /\ worker \in [Nodes -> Job] /\ ~Idle(n)
  BY DEF Inv, TypeOK, Idle
<1>2. CASE worker[n].cont = "begin" /\ ok
  <2> DEFINE j == [worker[n] EXCEPT !.pc = "work"]
  <2>1. j.pc = "work" /\ j.gen = worker[n].gen /\ j.selected = worker[n].selected
    BY <1>1 DEF Job
  <2>2. worker' = [worker EXCEPT ![n] = j] /\ queued' = queued
    BY <1>2 DEF PatchDone, SetJob
  <2> HIDE DEF j
  <2>3. worker'[n] = j
    BY <1>1, <2>2
  <2>4. WokenInv(n)'
    BY <1>1, <2>1, <2>2, <2>3, GoOn
  <2> QED BY <2>2, <2>4
<1>3. CASE worker[n].cont = "report" /\ ~ok
  <2>1. FailReconcile(n, TRUE)
    BY <1>3 DEF PatchDone
  <2> QED BY <1>1, <2>1, FailReconcileRest
<1>4. CASE ~(worker[n].cont = "begin" /\ ok) /\ worker[n].cont # "report"
  <2>1. worker' = [worker EXCEPT ![n] = IdleJob] /\ queued' = queued \cup {n}
    BY <1>4 DEF PatchDone, Return, SetJob
  <2> QED BY <2>1 DEF WokenInv, Woken
<1> QED BY <1>2, <1>3, <1>4

\* A conflict: the patch is tried again, or given up.
LEMMA ConflictRest ==
    ASSUME Inv, RestInv, NEW n \in Nodes, worker[n].pc \in {"read", "write"},
           Conflict(n), spent.relabels = 0,
           UNCHANGED <<obj, synced, labels, labelView, sriov>>, spent'.sriov = spent.sriov
    PROVE  /\ \E j : worker' = [worker EXCEPT ![n] = j]
           /\ queued \subseteq queued'
           /\ WokenInv(n)'
<1>1. worker[n] \in Job /\ worker \in [Nodes -> Job] /\ ~Idle(n)
  BY DEF Inv, TypeOK, Idle
<1>2. CASE worker[n].tries + 1 < MaxTries
  <2> DEFINE j == [worker[n] EXCEPT !.pc = "read", !.tries = @ + 1]
  <2>1. /\ j.pc = "read" /\ j.gen = worker[n].gen /\ j.selected = worker[n].selected
        /\ j.cont = worker[n].cont /\ j.target = worker[n].target /\ j.err = worker[n].err
    BY <1>1 DEF Job
  <2>2. worker' = [worker EXCEPT ![n] = j] /\ queued' = queued
    BY <1>2 DEF Conflict, SetJob
  <2> HIDE DEF j
  <2>3. worker'[n] = j
    BY <1>1, <2>2
  <2>4. WokenInv(n)'
    BY <1>1, <2>1, <2>2, <2>3, GoOn
  <2> QED BY <2>2, <2>4
<1>3. CASE ~(worker[n].tries + 1 < MaxTries)
  <2>1. PatchDone(n, FALSE)
    BY <1>3 DEF Conflict
  <2> QED BY <2>1, PatchDoneRest
<1> QED BY <1>2, <1>3

\* Such an end of a step keeps the invariant.
LEMMA EndRest ==
    ASSUME Inv, RestInv, NEW n \in Nodes,
           spent.relabels = 0 => /\ \E j : worker' = [worker EXCEPT ![n] = j]
                                 /\ queued \subseteq queued'
                                 /\ WokenInv(n)',
           UNCHANGED <<obj, synced, labels, labelView, sriov>>,
           spent'.relabels = spent.relabels, spent'.sriov = spent.sriov
    PROVE  RestInv'
<1>1. CASE spent.relabels = 0
  BY <1>1, LocalRest
<1>2. CASE spent.relabels # 0
  BY <1>2 DEF RestInv
<1> QED BY <1>1, <1>2

\* The patch finds nothing to write and the reconcile ends: the node is content.
LEMMA ContentEnd ==
    ASSUME Inv, RestInv, NEW n \in Nodes, worker[n].pc = "read", worker[n].cont = "report",
           PatchDone(n, TRUE), cache[n].gen = worker[n].gen, Unchanged(n, cache[n], worker[n]),
           UNCHANGED <<obj, synced, labels, labelView, sriov, spent>>, spent.relabels = 0
    PROVE  /\ \E j : worker' = [worker EXCEPT ![n] = j]
           /\ queued \subseteq queued'
           /\ WokenInv(n)'
<1>1. worker[n] \in Job /\ worker \in [Nodes -> Job] /\ ~Idle(n)
  BY DEF Inv, TypeOK, Idle
<1>2. worker' = [worker EXCEPT ![n] = IdleJob] /\ queued' = queued
  BY DEF PatchDone, Return, SetJob
<1>3. Idle(n)'
  BY <1>1, <1>2 DEF Idle, IdleJob
<1>4. ASSUME Woken(n)' PROVE Content(n)'
  <2>1. Woken(n) /\ cache[n] = obj
    BY <1>2, <1>4 DEF Woken, Inv, CacheInv
  <2>2. Reports(n, worker[n].target, worker[n].err)
    BY <1>1, <2>1 DEF RestInv, WokenInv, Working
  <2>3. /\ obj.states[n] = [state |-> worker[n].target, err |-> worker[n].err, gen |-> worker[n].gen]
        /\ obj.sync = Aggregate(obj.states, obj.gen, Pool(labelView[n], obj.sel))
        /\ obj.obs = obj.gen
    BY <2>1 DEF Unchanged
  <2>4. Reports(n, obj.states[n].state, obj.states[n].err) /\ obj.states[n].gen = obj.gen
    BY <2>1, <2>2, <2>3
  <2> QED BY <2>3, <2>4 DEF Content, Reports
<1> QED BY <1>2, <1>3, <1>4 DEF WokenInv

\* The patch closure reads.
LEMMA PatchReadRest ==
    ASSUME Inv, RestInv, NEW n \in Nodes, PatchRead(n)
    PROVE  RestInv'
<1>1. /\ worker[n].pc = "read" /\ UNCHANGED <<obj, synced, labels, labelView, sriov, spent>>
      /\ worker[n] \in Job /\ worker \in [Nodes -> Job] /\ ~Idle(n)
  BY DEF PatchRead, Inv, TypeOK, Idle
<1>2. ASSUME spent.relabels = 0
      PROVE  /\ \E j : worker' = [worker EXCEPT ![n] = j]
             /\ queued \subseteq queued'
             /\ WokenInv(n)'
  <2>1. CASE PatchDone(n, FALSE) \/ Conflict(n)
    BY <1>1, <1>2, <2>1, PatchDoneRest, ConflictRest
  <2>2. CASE PatchDone(n, TRUE) /\ cache[n].gen = worker[n].gen /\ Unchanged(n, cache[n], worker[n])
    <3>1. CASE worker[n].cont = "report"
      BY <1>1, <1>2, <2>2, <3>1, ContentEnd
    <3>2. CASE worker[n].cont # "report"
      BY <1>1, <1>2, <2>2, <3>2, PatchDoneRest
    <3> QED BY <3>1, <3>2
  <2>3. CASE SetJob(n, [worker[n] EXCEPT !.pc = "write"]) /\ queued' = queued
    <3> DEFINE j == [worker[n] EXCEPT !.pc = "write"]
    <3>1. /\ j.pc = "write" /\ j.gen = worker[n].gen /\ j.selected = worker[n].selected
          /\ j.cont = worker[n].cont /\ j.target = worker[n].target /\ j.err = worker[n].err
      BY <1>1 DEF Job
    <3>2. worker' = [worker EXCEPT ![n] = j]
      BY <2>3 DEF SetJob
    <3> HIDE DEF j
    <3>3. worker'[n] = j
      BY <1>1, <3>2
    <3>4. WokenInv(n)'
      BY <1>1, <1>2, <2>3, <3>1, <3>3, GoOn
    <3> QED BY <2>3, <3>2, <3>4
  <2> QED BY <2>1, <2>2, <2>3 DEF PatchRead
<1> QED BY <1>1, <1>2, EndRest

\* The patch is sent.
LEMMA PatchWriteRest ==
    ASSUME Inv, RestInv, NEW n \in Nodes, PatchWrite(n)
    PROVE  RestInv'
<1>1. worker[n].pc = "write" /\ UNCHANGED <<labels, labelView, sriov, spent>>
  BY DEF PatchWrite
<1>2. CASE n \in locked
  BY <1>1, <1>2, StoreRest DEF PatchWrite
<1>3. CASE n \notin locked
  <2>1. UNCHANGED <<obj, synced>> /\ (PatchDone(n, FALSE) \/ Conflict(n))
    BY <1>3 DEF PatchWrite
  <2>2. ASSUME spent.relabels = 0
        PROVE  /\ \E j : worker' = [worker EXCEPT ![n] = j]
               /\ queued \subseteq queued'
               /\ WokenInv(n)'
    BY <1>1, <2>1, <2>2, PatchDoneRest, ConflictRest
  <2> QED BY <1>1, <2>1, <2>2, EndRest
<1> QED BY <1>2, <1>3

\* A fault is counted and nothing else.
LEMMA FaultCount ==
    ASSUME Inv, spent' = [spent EXCEPT !.faults = @ + 1]
    PROVE  spent'.relabels = spent.relabels /\ spent'.sriov = spent.sriov
BY DEF Inv, TypeOK

\* The patch is answered with an error.
LEMMA PatchErrorRest ==
    ASSUME Inv, RestInv, NEW n \in Nodes, PatchError(n)
    PROVE  RestInv'
<1>1. /\ worker[n].pc = "write" /\ UNCHANGED <<labels, labelView, sriov>>
      /\ PatchDone(n, FALSE)
      /\ spent'.relabels = spent.relabels /\ spent'.sriov = spent.sriov
  BY FaultCount DEF PatchError
<1>2. CASE UNCHANGED <<obj, synced>>
  <2>1. ASSUME spent.relabels = 0
        PROVE  /\ \E j : worker' = [worker EXCEPT ![n] = j]
               /\ queued \subseteq queued'
               /\ WokenInv(n)'
    BY <1>1, <1>2, <2>1, PatchDoneRest
  <2> QED BY <1>1, <1>2, <2>1, EndRest
<1>3. CASE \E o : Store(o)
  BY <1>1, <1>3, StoreRest
<1> QED BY <1>2, <1>3 DEF PatchError

\* The work is done: the node reports what its node state says, or is not asked.
LEMMA WorkOKRest ==
    ASSUME Inv, RestInv, NEW n \in Nodes, WorkOK(n)
    PROVE  RestInv'
<1>1. /\ worker[n].pc = "work" /\ UNCHANGED <<obj, synced, labels, labelView, sriov, spent>>
      /\ worker[n] \in Job /\ worker \in [Nodes -> Job] /\ ~Idle(n)
  BY DEF WorkOK, Inv, TypeOK, Idle
<1> DEFINE p == Patching(worker[n], Reported(sriov[n]), FALSE, "report")
<1>2. /\ p.pc = "read" /\ p.gen = worker[n].gen /\ p.selected = worker[n].selected
      /\ p.target = Reported(sriov[n])
  BY <1>1 DEF Patching, Job
<1>3. ~p.err
  BY <1>1 DEF Patching, Job
<1>4. ASSUME spent.relabels = 0
      PROVE  /\ \E j : worker' = [worker EXCEPT ![n] = j]
             /\ queued \subseteq queued'
             /\ WokenInv(n)'
  <2>1. Woken(n)' => Woken(n) \/ n \in queued
    BY <1>1 DEF Woken
  <2>2. CASE worker[n].selected
    <3>1. worker' = [worker EXCEPT ![n] = p] /\ queued' = queued
      BY <2>2 DEF WorkOK, SetJob
    <3> HIDE DEF p
    <3>2. worker'[n] = p
      BY <1>1, <3>1
    <3>3. ASSUME Woken(n)' PROVE ~Idle(n)' /\ Working(n)'
      <4>1. Woken(n)
        BY <1>1, <3>1, <3>3 DEF Woken
      <4>2. Working(n)
        BY <1>1, <1>4, <4>1 DEF RestInv, WokenInv
      <4>3. p.gen = obj.gen /\ p.selected = (labelView[n][n] = obj.sel)
        BY <1>2, <4>2 DEF Working
      <4>4. Reports(n, worker[n].target, worker[n].err)'
        BY <1>1, <1>2, <1>3, <3>2 DEF Reports
      <4> QED BY <1>1, <1>2, <3>2, <4>3, <4>4 DEF Working, Idle
    <3> QED BY <3>1, <3>3 DEF WokenInv
  <2>3. CASE ~worker[n].selected
    <3>1. worker' = [worker EXCEPT ![n] = IdleJob] /\ queued' = queued
      BY <2>3 DEF WorkOK, Return, SetJob
    <3>2. Idle(n)'
      BY <1>1, <3>1 DEF Idle, IdleJob
    <3>3. ASSUME Woken(n)' PROVE labelView[n][n] # obj.sel
      <4>1. Woken(n)
        BY <1>1, <3>1, <3>3 DEF Woken
      <4> QED BY <1>1, <1>4, <2>3, <4>1 DEF RestInv, WokenInv, Working
    <3>4. WokenInv(n)'
      BY <1>1, <3>2, <3>3 DEF WokenInv
    <3> QED BY <3>1, <3>4
  <2> QED BY <2>2, <2>3
<1> QED BY <1>1, <1>4, EndRest

\* The work or the cleanup fails.
LEMMA WorkFailsRest ==
    ASSUME Inv, RestInv, NEW n \in Nodes, WorkFails(n) \/ DeletionFails(n)
    PROVE  RestInv'
<1>1. /\ ~Idle(n) /\ UNCHANGED <<obj, synced, labels, labelView, sriov>>
      /\ spent'.relabels = spent.relabels /\ spent'.sriov = spent.sriov
  BY FaultCount DEF WorkFails, DeletionFails, Idle
<1>2. \E selected \in BOOLEAN : FailReconcile(n, selected)
  <2>1. worker[n].selected \in BOOLEAN
    BY DEF Inv, TypeOK, Job
  <2>2. CASE WorkFails(n)
    BY <2>1, <2>2 DEF WorkFails
  <2>3. CASE DeletionFails(n)
    BY <2>3 DEF DeletionFails
  <2> QED BY <2>2, <2>3
<1>3. ASSUME spent.relabels = 0
      PROVE  /\ \E j : worker' = [worker EXCEPT ![n] = j]
             /\ queued \subseteq queued'
             /\ WokenInv(n)'
  BY <1>1, <1>2, <1>3, FailReconcileRest
<1> QED BY <1>1, <1>3, EndRest

\* The end of a deletion.
LEMMA DeletionRest ==
    ASSUME Inv, RestInv, NEW n \in Nodes, DeletionOK(n) \/ FinalizerFails(n)
    PROVE  RestInv'
<1>1. /\ worker' = [worker EXCEPT ![n] = IdleJob] /\ queued \subseteq queued'
      /\ UNCHANGED <<labels, labelView, sriov>>
      /\ spent'.relabels = spent.relabels /\ spent'.sriov = spent.sriov
  BY FaultCount DEF DeletionOK, FinalizerFails, Return, SetJob
<1>2. CASE UNCHANGED <<obj, synced>> /\ n \in queued'
  <2>1. WokenInv(n)'
    BY <1>2 DEF WokenInv, Woken
  <2> QED BY <1>1, <1>2, <2>1, EndRest
<1>3. CASE Store(GoneObject)
  BY <1>1, <1>3, StoreRest
<1> QED BY <1>2, <1>3 DEF DeletionOK, FinalizerFails, Return

-----------------------------------------------------------------------------
(* Everything else. *)

\* Informers, resyncs and changes of node states and labels.
LEMMA EnvironmentRest ==
    ASSUME Inv, RestInv, NEW n \in Nodes,
           CacheSync(n) \/ LabelSync(n) \/ Resync(n) \/ SriovChange(n) \/ Relabel(n)
    PROVE  RestInv'
<1>1. spent \in [faults : Nat, sriov : Nat, relabels : Nat]
  BY DEF Inv, TypeOK
<1>2. CASE CacheSync(n)
  <2>1. /\ UNCHANGED <<obj, worker, labels, labelView, sriov, spent>> /\ queued \subseteq queued'
        /\ synced' = synced \cup {n} /\ n \in queued'
    BY <1>2 DEF CacheSync
  <2> QED BY <2>1, QuietRest
<1>3. CASE Resync(n)
  <2>1. /\ UNCHANGED <<obj, worker, labels, labelView, sriov, spent, synced>>
        /\ queued \subseteq queued'
    BY <1>3 DEF Resync
  <2> QED BY <2>1, QuietRest
<1>4. CASE SriovChange(n)
  <2>1. /\ UNCHANGED <<obj, worker, labels, labelView, synced>> /\ queued \subseteq queued'
        /\ spent' = [spent EXCEPT !.sriov = @ + 1]
    BY <1>4 DEF SriovChange, ListRailPoolConfigsForNode
  <2>2. spent'.relabels = spent.relabels /\ spent'.sriov # 0
    BY <1>1, <2>1
  <2> QED BY <2>1, <2>2, QuietRest
<1>5. CASE LabelSync(n)
  <2>1. labelView[n] # labels /\ spent' = spent
    BY <1>5 DEF LabelSync
  <2> QED BY <2>1 DEF RestInv
<1>6. CASE Relabel(n)
  <2>1. spent'.relabels # 0
    BY <1>1, <1>6 DEF Relabel
  <2> QED BY <2>1 DEF RestInv
<1> QED BY <1>2, <1>3, <1>4, <1>5, <1>6

\* A node restarts and has everything before it.
LEMMA RestartRest ==
    ASSUME Inv, RestInv, NEW n \in Nodes, Restart(n)
    PROVE  RestInv'
<1>1. /\ worker' = [worker EXCEPT ![n] = IdleJob] /\ UNCHANGED <<obj, labels, sriov>>
      /\ labelView' = [labelView EXCEPT ![n] = labels] /\ synced' = synced \cup {n}
      /\ queued \ {n} \subseteq queued' /\ (obj.phase = "gone" \/ n \in queued')
      /\ spent'.relabels = spent.relabels /\ spent'.sriov = spent.sriov
  BY FaultCount DEF Restart, SetJob
<1> SUFFICES ASSUME spent.relabels = 0, NEW m \in Nodes
             PROVE  labelView'[m] = labels /\ WokenInv(m)'
  BY <1>1 DEF RestInv
<1>2. labelView' = labelView
  BY <1>1 DEF RestInv, Inv, TypeOK
<1>3. CASE m = n
  BY <1>1, <1>2, <1>3 DEF RestInv, WokenInv, Woken
<1>4. CASE m # n
  <2>1. worker'[m] = worker[m]
    BY <1>1, <1>4 DEF Inv, TypeOK
  <2> QED BY <1>1, <1>2, <1>4, <2>1, BystanderFrame DEF RestInv
<1> QED BY <1>3, <1>4

\* Users store a new object.
LEMMA UserRest == ASSUME Inv, RestInv, EditSpec \/ DeleteObject PROVE RestInv'
<1>1. UNCHANGED <<labels, labelView, spent>> /\ \E o : Store(o)
  BY DEF EditSpec, DeleteObject
<1> QED BY <1>1, StoreRest

\* Every step keeps the invariant.
LEMMA NextRest == Inv /\ RestInv /\ [Next]_vars => RestInv'
<1> SUFFICES ASSUME Inv, RestInv, [Next]_vars PROVE RestInv'
  OBVIOUS
<1>1. ASSUME NEW n \in Nodes, Step(n) PROVE RestInv'
  BY <1>1, StartOtherRest, AddFinalizerRest, StartReconcileRest, PatchReadRest, PatchWriteRest,
     WorkOKRest, DeletionRest DEF Step
<1>2. ASSUME NEW n \in Nodes, Fault(n) PROVE RestInv'
  BY <1>2, PatchErrorRest, WorkFailsRest, DeletionRest, RestartRest DEF Fault
<1>3. ASSUME NEW n \in Nodes, Environment(n) \/ CacheSync(n) \/ LabelSync(n) \/ Resync(n)
      PROVE  RestInv'
  BY <1>3, EnvironmentRest DEF Environment
<1>4. CASE EditSpec \/ DeleteObject
  BY <1>4, UserRest
<1>5. CASE UNCHANGED vars
  <2>1. \A n \in Nodes : WokenInv(n) => WokenInv(n)'
    BY <1>5, BystanderFrame DEF vars
  <2> QED BY <1>5, <2>1 DEF vars, RestInv
<1> QED BY <1>1, <1>2, <1>3, <1>4, <1>5 DEF Next

\* No wake-up is lost: the status is right whenever no node has anything left to
\* do, on any number of nodes and after any edits, conflicts, faults and restarts.
THEOREM RestIsRight == Spec => []RestsRight
<1>1. Init => RestInv
  BY DEF Init, RestInv, WokenInv, Woken
<1>2. ASSUME Inv, RestInv PROVE RestsRight
  <2> SUFFICES ASSUME AtRest, Reportable, spent.relabels = 0 PROVE RestsRight!2
    BY DEF RestsRight
  <2>1. ASSUME NEW n \in Pool(labels, obj.sel) PROVE Content(n) /\ labelView[n] = labels
    <3>1. n \in Nodes /\ labels[n] = obj.sel
      BY DEF Pool
    <3> QED BY <1>2, <3>1 DEF AtRest, Reportable, RestInv, WokenInv, Woken
  <2>2. PICK n : n \in Pool(labels, obj.sel)
    BY DEF Reportable
  <2>3. obj.obs = obj.gen /\ obj.sync = Aggregate(obj.states, obj.gen, Pool(labels, obj.sel))
    BY <2>1, <2>2 DEF Content
  <2>4. \A m \in Pool(labels, obj.sel) :
           /\ obj.states[m].gen = obj.gen /\ ~obj.states[m].err
           /\ spent.sriov = 0 => obj.states[m].state = Reported(sriov[m])
    BY <2>1 DEF Content, Reports
  <2> QED BY <2>3, <2>4
<1> QED BY <1>1, <1>2, NextRest, SpecInv, PTL DEF Spec
=============================================================================
