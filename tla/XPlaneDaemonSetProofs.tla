------------------------ MODULE XPlaneDaemonSetProofs ------------------------
(***************************************************************************)
(* TLAPS proofs about XPlaneDaemonSet, for any nodes, objects, labels and  *)
(* tolerations and any number of changes and failures.                     *)
(***************************************************************************)
EXTENDS XPlaneDaemonSet, TLAPS

-----------------------------------------------------------------------------
(* The inductive invariant. *)

\* Node n is working on o.
Busy(n, o) == worker[n].pc # "idle" /\ worker[n].object = o

\* UIDs grow: neither a cache nor a Pod knows a parent of the future.
UidInv == \A n \in Nodes : view[n].parent.uid <= parent.uid /\ podOwner[n] <= parent.uid

\* A reconcile is about an object whose pool had the node.
WorkInv ==
    \A n \in Nodes : worker[n].pc # "idle" =>
        worker[n].object \in Objects /\ n \in Pool(worker[n].selector)

\* The copies of a reconcile in progress are those of now, as far as the node
\* knows, or the object is queued again.
CopyInv ==
    ~silent => \A n \in Nodes :
        worker[n].pc # "idle" /\ worker[n].object \in live \ queue[n] =>
            /\ worker[n].selector = selector[worker[n].object]
            /\ worker[n].pc = "sync" => worker[n].tolerations = view[n].parent.tolerations

\* A Pod whose cache is ahead of its owner has all its work before it: what
\* it tries fails until it is adopted.  One without owner may have missed that.
OrphanInv ==
    \A n \in Nodes : podOwner[n] # NoUid /\ podOwner[n] < view[n].parent.uid =>
        \A o \in live : n \in Pool(selector[o]) =>
            \/ o \in queue[n]
            \/ Busy(n, o) /\ worker[n].pc = "tolerations"

\* As long as there is no DaemonSet, everyone has his work before him.
AbsentInv ==
    ~silent /\ ds = None =>
        \A n \in Nodes, o \in live : n \in Pool(selector[o]) => o \in queue[n] \/ Busy(n, o)

\* Node n takes the DaemonSet for right, or will look at it for its owner.
Vouches(n) ==
    \/ ds.owner \in queue[n]
    \/ Busy(n, ds.owner)
    \/ ds.tolerations = view[n].parent.tolerations /\ selector[ds.owner] \subseteq ds.selector

\* Some node in the owner's pool does.
OwnerInv ==
    ~silent /\ ds # None =>
        (ds.owner \in live /\ Pool(selector[ds.owner]) # {} =>
            \E n \in Pool(selector[ds.owner]) : Vouches(n))

Inv == TypeOK /\ UidInv /\ WorkInv /\ CopyInv /\ OrphanInv /\ AbsentInv /\ OwnerInv

-----------------------------------------------------------------------------
(* Types of the building blocks. *)

\* The idle worker is well typed and works on nothing.
LEMMA IdleType == IdleWorker \in Workers /\ IdleWorker.pc = "idle"
BY DEF IdleWorker, Workers

\* The locals of a reconcile are well typed.
LEMMA WorkerFields ==
    ASSUME TypeOK, NEW n \in Nodes
    PROVE  /\ worker[n] \in Workers
           /\ worker[n].pc \in {"idle", "tolerations", "sync"}
           /\ worker[n].selector \in SUBSET Labels
           /\ worker[n].tolerations \in SUBSET Tolerations
           /\ view[n].parent \in Parents
           /\ view[n].parent.tolerations \in SUBSET Tolerations
           /\ view[n].parent.uid \in Nat
           /\ view[n].ds \in DaemonSets \cup {None}
BY DEF TypeOK, Workers, Parents

\* A reconcile asks for a DaemonSet that its object owns.
LEMMA WantedType ==
    ASSUME TypeOK, WorkInv, NEW n \in Nodes, worker[n].pc # "idle"
    PROVE  /\ Wanted(n) \in DaemonSets
           /\ Wanted(n).owner = worker[n].object
           /\ Wanted(n).selector = worker[n].selector
           /\ Wanted(n).tolerations = worker[n].tolerations
<1>1. worker[n].object \in Objects
  BY DEF WorkInv
<1> QED BY <1>1, WorkerFields DEF Wanted, DaemonSets

-----------------------------------------------------------------------------
(* The first state. *)

\* Everything is queued, nobody works and there is no DaemonSet.
LEMMA InitInv == Init => Inv
<1> SUFFICES ASSUME Init PROVE Inv
  OBVIOUS
<1>1. PICK t \in SUBSET Tolerations : parent = [uid |-> 1, tolerations |-> t]
  BY DEF Init
<1>2. parent \in Parents /\ parent.uid = 1
  BY <1>1 DEF Parents, NoUid
<1>3. TypeOK
  BY <1>2, IdleType DEF Init, TypeOK
<1>4. \A n \in Nodes : /\ worker[n].pc = "idle" /\ queue[n] = live
                       /\ podOwner[n] = 1 /\ view[n].parent.uid = 1
  BY <1>2, IdleType DEF Init
<1>5. UidInv /\ OrphanInv
  BY <1>2, <1>4 DEF UidInv, OrphanInv
<1>6. WorkInv /\ CopyInv
  BY <1>4 DEF WorkInv, CopyInv
<1>7. AbsentInv /\ OwnerInv
  BY <1>4 DEF Init, AbsentInv, OwnerInv
<1> QED BY <1>3, <1>5, <1>6, <1>7 DEF Inv

-----------------------------------------------------------------------------
(* The reconcile.  Workers and queues of the other nodes are not touched. *)

\* A node turns to the next object of its queue.
LEMMA StartInv == ASSUME Inv, NEW n \in Nodes, Start(n) PROVE Inv'
<1> USE DEF Inv
<1>1. PICK o \in queue[n] :
        /\ queue' = [queue EXCEPT ![n] = @ \ {o}]
        /\ worker' = IF o \in live /\ n \in Pool(selector[o])
                       THEN [worker EXCEPT ![n] = [pc |-> "tolerations", object |-> o,
                                                   selector |-> selector[o], tolerations |-> {}]]
                       ELSE worker
  BY DEF Start
<1>2. /\ UNCHANGED <<live, selector, parent, podOwner, ds, view, current, silent, spent>>
      /\ worker[n].pc = "idle"
  BY DEF Start
<1> DEFINE w == [pc |-> "tolerations", object |-> o, selector |-> selector[o], tolerations |-> {}]
<1>3. o \in Objects /\ selector[o] \in SUBSET Labels
  BY DEF TypeOK
<1>4. w \in Workers
  BY <1>3 DEF Workers
<1>5. TypeOK'
  BY <1>1, <1>2, <1>4 DEF TypeOK
<1>6. /\ \A m \in Nodes \ {n} : worker'[m] = worker[m] /\ queue'[m] = queue[m]
      /\ queue'[n] = queue[n] \ {o}
      /\ worker'[n] = IF o \in live /\ n \in Pool(selector[o]) THEN w ELSE worker[n]
  BY <1>1 DEF TypeOK
<1>7. UidInv'
  BY <1>2 DEF UidInv
<1>8. WorkInv' /\ CopyInv'
  BY <1>2, <1>3, <1>6 DEF WorkInv, CopyInv, Pool
<1>9. \A m \in Nodes, p \in live : m \in Pool(selector[p]) =>
         /\ p \in queue[m] => p \in queue'[m] \/ (Busy(m, p)' /\ worker'[m].pc = "tolerations")
         /\ Busy(m, p) => Busy(m, p)' /\ worker'[m] = worker[m]
  BY <1>2, <1>6 DEF Busy
<1>10. OrphanInv'
  BY <1>2, <1>9 DEF OrphanInv, Pool
<1>11. AbsentInv'
  BY <1>2, <1>9 DEF AbsentInv, Pool
<1>12. OwnerInv'
  BY <1>2, <1>9 DEF OwnerInv, Vouches, Pool
<1> QED BY <1>5, <1>7, <1>8, <1>10, <1>11, <1>12

\* A reconcile ends with an error: the object is queued again.
LEMMA FailInv ==
    ASSUME Inv, NEW n \in Nodes, worker[n].pc # "idle", Fail(n),
           UNCHANGED <<live, selector, parent, podOwner, ds, view, current>>,
           silent' \in BOOLEAN, silent => silent',
           spent' \in [changes : Nat, faults : Nat]
    PROVE  Inv'
<1> USE DEF Inv
<1>1. worker[n].object \in Objects
  BY DEF WorkInv
<1>2. TypeOK'
  BY <1>1, IdleType DEF TypeOK, Fail
<1>3. /\ \A m \in Nodes \ {n} : worker'[m] = worker[m] /\ queue'[m] = queue[m]
      /\ queue'[n] = queue[n] \cup {worker[n].object}
      /\ worker'[n].pc = "idle"
  BY IdleType DEF TypeOK, Fail
<1>4. UidInv'
  BY DEF UidInv
<1>5. WorkInv' /\ CopyInv'
  BY <1>3 DEF WorkInv, CopyInv, Pool
<1>6. \A m \in Nodes, p \in Objects :
         /\ p \in queue[m] => p \in queue'[m]
         /\ Busy(m, p) => p \in queue'[m] \/ (Busy(m, p)' /\ worker'[m] = worker[m])
  BY <1>3 DEF Busy
<1> live \subseteq Objects
  BY DEF TypeOK
<1>7. OrphanInv'
  BY <1>6 DEF OrphanInv, Pool
<1>8. AbsentInv'
  BY <1>6 DEF AbsentInv, Pool
<1>9. OwnerInv'
  BY <1>6 DEF OwnerInv, Vouches, Pool
<1> QED BY <1>2, <1>4, <1>5, <1>7, <1>8, <1>9

\* A reconcile reads the tolerations.
LEMMA ReadTolerationsInv == ASSUME Inv, NEW n \in Nodes, ReadTolerations(n) PROVE Inv'
<1> USE DEF Inv
<1>1. /\ UNCHANGED <<live, selector, parent, podOwner, ds, view, current, silent, spent>>
      /\ worker[n].pc = "tolerations"
  BY DEF ReadTolerations
<1>2. CASE view[n].parent.uid # podOwner[n]
  BY <1>1, <1>2, FailInv DEF ReadTolerations, TypeOK
<1>3. CASE view[n].parent.uid = podOwner[n]
  <2> DEFINE w == [worker[n] EXCEPT !.pc = "sync", !.tolerations = view[n].parent.tolerations]
  <2>1. /\ w \in Workers /\ w.pc = "sync" /\ w.object = worker[n].object
        /\ w.selector = worker[n].selector /\ w.tolerations = view[n].parent.tolerations
    BY WorkerFields DEF Workers
  <2>2. worker' = [worker EXCEPT ![n] = w] /\ queue' = queue
    BY <1>3 DEF ReadTolerations, TypeOK
  <2> HIDE DEF w
  <2>3. worker'[n] = w /\ \A m \in Nodes \ {n} : worker'[m] = worker[m]
    BY <2>2 DEF TypeOK
  <2>4. TypeOK'
    BY <1>1, <2>1, <2>2 DEF TypeOK
  <2>5. UidInv'
    BY <1>1 DEF UidInv
  <2>6. WorkInv'
    BY <1>1, <2>1, <2>3 DEF WorkInv, Pool
  <2>7. CopyInv'
    BY <1>1, <2>1, <2>2, <2>3 DEF CopyInv
  <2>8. \A m \in Nodes, p \in Objects : Busy(m, p) => Busy(m, p)'
    BY <1>1, <2>1, <2>3 DEF Busy
  <2> live \subseteq Objects
    BY DEF TypeOK
  <2>9. OrphanInv'
    <3>1. ~(podOwner[n] < view[n].parent.uid)
      BY <1>3, WorkerFields DEF TypeOK
    <3> QED BY <1>1, <2>2, <2>3, <3>1 DEF OrphanInv, Pool, Busy
  <2>10. AbsentInv'
    BY <1>1, <2>2, <2>8 DEF AbsentInv, Pool
  <2>11. OwnerInv'
    BY <1>1, <2>2, <2>8 DEF OwnerInv, Vouches, Pool
  <2> QED BY <2>4, <2>5, <2>6, <2>7, <2>9, <2>10, <2>11
<1> QED BY <1>2, <1>3

\* A write is accepted.  Its author is in the pool, or the write is noted as
\* silent; it wrote what it believes in, or its object is queued again.
LEMMA StoreInv ==
    ASSUME Inv, NEW n \in Nodes, worker[n].pc = "sync", Store(Wanted(n)),
           worker' = [worker EXCEPT ![n] = IdleWorker],
           queue' \in {queue, [queue EXCEPT ![n] = @ \cup {worker[n].object}]},
           silent' = (silent \/ n \notin Pool(selector[worker[n].object])),
           UNCHANGED <<live, selector, parent, podOwner, view>>,
           spent' \in [changes : Nat, faults : Nat]
    PROVE  Inv'
<1> USE DEF Inv
<1> DEFINE o == worker[n].object
<1>1. o \in Objects /\ n \in Pool(worker[n].selector)
  BY DEF WorkInv
<1>2. /\ ds' \in DaemonSets /\ ds' # None /\ current' = {}
      /\ ds'.owner = o /\ ds'.selector = worker[n].selector
      /\ ds'.tolerations = worker[n].tolerations
  BY WantedType, NoneAssumption DEF Store
<1>3. silent' \in BOOLEAN
  BY DEF TypeOK
<1>4. TypeOK'
  BY <1>1, <1>2, <1>3, IdleType DEF TypeOK
<1>5. /\ \A m \in Nodes \ {n} : worker'[m] = worker[m] /\ queue'[m] = queue[m]
      /\ queue[n] \subseteq queue'[n]
      /\ worker'[n].pc = "idle"
  BY IdleType DEF TypeOK
<1>6. UidInv'
  BY DEF UidInv
<1>7. WorkInv' /\ CopyInv'
  BY <1>3, <1>5 DEF WorkInv, CopyInv, Pool, TypeOK
<1>8. OrphanInv'
  BY <1>5 DEF OrphanInv, Busy, Pool
<1>9. AbsentInv'
  BY <1>2 DEF AbsentInv
<1>10. OwnerInv'
  <2> SUFFICES ASSUME ~silent', o \in live PROVE n \in Pool(selector[o]) /\ Vouches(n)'
    BY <1>2 DEF OwnerInv, Pool
  <2>1. n \in Pool(selector[o])
    OBVIOUS
  <2>2. o \in queue[n] \/ (worker[n].selector = selector[o]
                            /\ worker[n].tolerations = view[n].parent.tolerations)
    BY DEF CopyInv
  <2> QED BY <1>2, <1>5, <2>1, <2>2 DEF Vouches
<1> QED BY <1>4, <1>6, <1>7, <1>8, <1>9, <1>10

\* The DaemonSet is taken for right as it is.
LEMMA SatisfiedInv ==
    ASSUME Inv, NEW n \in Nodes, worker[n].pc = "sync",
           worker' = [worker EXCEPT ![n] = IdleWorker],
           silent' = (silent \/ ~Satisfied(n, ds)),
           UNCHANGED <<live, selector, parent, podOwner, ds, view, current, queue, spent>>
    PROVE  Inv'
<1> USE DEF Inv
<1> DEFINE o == worker[n].object
<1>1. o \in Objects
  BY DEF WorkInv
<1>2. silent' \in BOOLEAN
  BY DEF TypeOK
<1>3. TypeOK'
  BY <1>2, IdleType DEF TypeOK
<1>4. worker'[n].pc = "idle" /\ \A m \in Nodes \ {n} : worker'[m] = worker[m]
  BY IdleType DEF TypeOK
<1>5. UidInv'
  BY DEF UidInv
<1>6. WorkInv' /\ CopyInv'
  BY <1>4 DEF WorkInv, CopyInv, Pool
<1>7. OrphanInv'
  BY <1>4 DEF OrphanInv, Busy, Pool
<1>8. ASSUME ~silent'
      PROVE  /\ ~silent /\ ds # None /\ ds.owner = o
             /\ ds.tolerations = worker[n].tolerations /\ worker[n].selector \subseteq ds.selector
  BY <1>8, WantedType DEF Satisfied, UpToDate
<1>9. AbsentInv'
  BY <1>8 DEF AbsentInv
<1>10. OwnerInv'
  <2> SUFFICES ASSUME ~silent', o \in live, Pool(selector[o]) # {}
               PROVE  \E m \in Pool(selector[o]) : Vouches(m)'
    BY <1>8 DEF OwnerInv, Pool
  <2>1. PICK m \in Pool(selector[o]) : Vouches(m)
    BY <1>8 DEF OwnerInv
  <2>2. CASE m # n
    BY <1>4, <2>1, <2>2 DEF Vouches, Busy, Pool
  <2>3. CASE m = n
    <3>1. o \in queue[n] \/ (worker[n].selector = selector[o]
                             /\ worker[n].tolerations = view[n].parent.tolerations)
      BY DEF CopyInv
    <3> QED BY <1>8, <2>1, <2>3, <3>1 DEF Vouches
  <2> QED BY <2>2, <2>3
<1> QED BY <1>3, <1>5, <1>6, <1>7, <1>9, <1>10

\* A reconcile compares and writes.
LEMMA SyncInv == ASSUME Inv, NEW n \in Nodes, Sync(n) PROVE Inv'
<1>1. worker[n].pc = "sync" /\ UNCHANGED <<live, selector, parent, podOwner, view, spent>>
  BY DEF Sync
<1>2. silent \in BOOLEAN /\ spent' \in [changes : Nat, faults : Nat]
  BY <1>1 DEF Inv, TypeOK
<1>3. CASE Satisfied(n, view[n].ds)
  BY <1>1, <1>3, SatisfiedInv DEF Sync
<1>4. CASE ~Satisfied(n, view[n].ds) /\ Accepted(n)
  BY <1>1, <1>2, <1>4, StoreInv DEF Sync
<1>5. CASE ~Satisfied(n, view[n].ds) /\ ~Accepted(n)
  <2>1. silent' \in BOOLEAN /\ (silent => silent') /\ Fail(n) /\ UNCHANGED <<ds, current>>
    BY <1>2, <1>5 DEF Sync
  <2> QED BY <1>1, <1>2, <2>1, FailInv
<1> QED BY <1>3, <1>4, <1>5

\* A call of a reconcile is answered with an error.
LEMMA DeployFailsInv == ASSUME Inv, NEW n \in Nodes, DeployFails(n) PROVE Inv'
<1>1. /\ worker[n].pc # "idle" /\ Fail(n)
      /\ UNCHANGED <<live, selector, parent, podOwner, view>>
      /\ silent' = (silent \/ n \notin Pool(selector[worker[n].object]))
  BY DEF DeployFails
<1>2. silent' \in BOOLEAN /\ (silent => silent') /\ spent' \in [changes : Nat, faults : Nat]
  BY <1>1 DEF Inv, TypeOK, DeployFails
<1>3. CASE UNCHANGED <<ds, current>>
  BY <1>1, <1>2, <1>3, FailInv
<1>4. CASE worker[n].pc = "sync" /\ Store(Wanted(n))
  BY <1>1, <1>2, <1>4, StoreInv DEF Fail
<1> QED BY <1>3, <1>4 DEF DeployFails

-----------------------------------------------------------------------------
(* Events. *)

\* An informer catches up.  If the parent it knew was another one, everything is
\* queued, or the Pod is an orphan that has everything queued already, or has no
\* controller: then nothing of importance has changed, or this is noted as silent.
LEMMA ViewSyncInv == ASSUME Inv, NEW n \in Nodes, ViewSync(n) PROVE Inv'
<1> USE DEF Inv
<1>1. /\ view' = [view EXCEPT ![n] = [parent |-> parent, ds |-> ds]]
      /\ current' = current \cup {n}
      /\ queue' = IF ParentQueues(n) THEN [queue EXCEPT ![n] = @ \cup live] ELSE queue
      /\ silent' = (silent \/ Missed(n))
      /\ UNCHANGED <<live, selector, parent, podOwner, ds, worker, spent>>
  BY DEF ViewSync
<1>2. TypeOK'
  <2>1. silent' \in BOOLEAN
    BY <1>1 DEF TypeOK, Missed
  <2> QED BY <1>1, <2>1 DEF TypeOK
<1>3. /\ view'[n].parent = parent
      /\ \A m \in Nodes \ {n} : view'[m] = view[m] /\ queue'[m] = queue[m]
      /\ queue[n] \subseteq queue'[n]
  BY <1>1 DEF TypeOK
<1>4. UidInv'
  BY <1>1, <1>3 DEF UidInv, TypeOK, Parents
<1>5. WorkInv'
  BY <1>1 DEF WorkInv, Pool
<1>s. ~silent' => ~silent /\ ~Missed(n)
  BY <1>1
<1>b. \A m \in Nodes, o \in Objects : Busy(m, o)' <=> Busy(m, o)
  BY <1>1 DEF Busy
<1>p. \A o \in Objects : Pool(selector'[o]) = Pool(selector[o])
  BY <1>1 DEF Pool
<1>6. \/ live \subseteq queue'[n]
      \/ podOwner[n] # NoUid /\ podOwner[n] < view[n].parent.uid
      \/ view[n].parent = parent
      \/ podOwner[n] = NoUid /\ (view[n].parent.tolerations = parent.tolerations \/ silent')
  <2>1. podOwner[n] \in Nat /\ view[n].parent.uid \in Nat /\ parent.uid \in Nat
    BY WorkerFields DEF TypeOK, Parents
  <2>2. CASE ParentQueues(n)
    BY <1>1, <2>2 DEF TypeOK
  <2>3. CASE ~ParentQueues(n) /\ podOwner[n] # NoUid
    BY <2>1, <2>3 DEF ParentQueues, UidInv
  <2>4. CASE podOwner[n] = NoUid
    BY <1>1, <2>4 DEF Missed
  <2> QED BY <2>2, <2>3, <2>4
<1>7. \/ live \subseteq queue'[n]
      \/ silent'
      \/ view[n].parent.tolerations = parent.tolerations
      \/ \A o \in live : n \in Pool(selector[o]) => o \in queue[n] \/ (Busy(n, o) /\ worker[n].pc = "tolerations")
  BY <1>6 DEF OrphanInv
<1>8. CopyInv'
  <2> SUFFICES ASSUME ~silent', worker[n].pc # "idle", worker[n].object \in live \ queue'[n]
               PROVE  /\ worker[n].selector = selector[worker[n].object]
                      /\ worker[n].pc = "sync" => worker[n].tolerations = parent.tolerations
    BY <1>1, <1>3, <1>s DEF CopyInv
  <2>1. /\ worker[n].selector = selector[worker[n].object]
        /\ worker[n].pc = "sync" => worker[n].tolerations = view[n].parent.tolerations
    BY <1>3, <1>s DEF CopyInv
  <2>2. n \in Pool(selector[worker[n].object])
    BY <2>1 DEF WorkInv
  <2> QED BY <1>3, <1>7, <2>1, <2>2
<1>9. OrphanInv'
  <2> SUFFICES ASSUME podOwner[n] # NoUid, podOwner[n] < parent.uid, NEW o \in live, n \in Pool(selector[o])
               PROVE  o \in queue'[n] \/ (Busy(n, o) /\ worker[n].pc = "tolerations")
    BY <1>1, <1>3 DEF OrphanInv, Busy, Pool
  <2>1. CASE view[n].parent = parent
    BY <2>1, <1>3 DEF OrphanInv
  <2> QED BY <2>1, <1>3, <1>6 DEF OrphanInv
<1>10. AbsentInv'
  BY <1>1, <1>3, <1>s DEF AbsentInv, Busy, Pool
<1>11. OwnerInv'
  <2> SUFFICES ASSUME ~silent', ds # None, ds.owner \in live,
                      NEW m \in Pool(selector[ds.owner]), Vouches(m)
               PROVE  Vouches(m)'
    BY <1>1, <1>s DEF OwnerInv, Pool
  <2>1. m \in Nodes
    BY DEF Pool
  <2>2. CASE m # n
    BY <1>1, <1>3, <2>1, <2>2 DEF Vouches, Busy
  <2>3. CASE m = n
    BY <1>1, <1>3, <1>7, <2>3 DEF Vouches, Busy
  <2> QED BY <2>2, <2>3
<1> QED BY <1>2, <1>4, <1>5, <1>8, <1>9, <1>10, <1>11

\* More is queued, on one node or on all.
LEMMA QueueInv ==
    ASSUME Inv, queue' \in [Nodes -> SUBSET Objects], \A n \in Nodes : queue[n] \subseteq queue'[n],
           UNCHANGED <<live, selector, parent, podOwner, ds, view, current, worker, silent, spent>>
    PROVE  Inv'
<1> USE DEF Inv
<1>1. TypeOK'
  BY DEF TypeOK
<1>2. UidInv' /\ WorkInv' /\ CopyInv'
  BY DEF UidInv, WorkInv, CopyInv, Pool
<1>3. OrphanInv' /\ AbsentInv'
  BY DEF OrphanInv, AbsentInv, Busy, Pool
<1>4. OwnerInv'
  BY DEF OwnerInv, Vouches, Busy, Pool
<1> QED BY <1>1, <1>2, <1>3, <1>4

\* The periodic resync.
LEMMA ResyncInv == ASSUME Inv, NEW n \in Nodes, Resync(n) PROVE Inv'
<1>1. queue' \in [Nodes -> SUBSET Objects] /\ \A m \in Nodes : queue[m] \subseteq queue'[m]
  BY DEF Resync, Inv, TypeOK
<1> QED BY <1>1, QueueInv DEF Resync

\* The garbage collector removes the DaemonSet: from now on a resync is needed.
LEMMA CollectInv == ASSUME Inv, Collect PROVE Inv'
<1> USE DEF Inv
<1>1. /\ ds' = None /\ current' = {} /\ silent' = TRUE
      /\ UNCHANGED <<live, selector, parent, podOwner, view, queue, worker, spent>>
  BY DEF Collect, Store
<1>2. TypeOK'
  BY <1>1 DEF TypeOK
<1>3. UidInv' /\ WorkInv' /\ CopyInv' /\ OrphanInv'
  BY <1>1 DEF UidInv, WorkInv, CopyInv, OrphanInv, Busy, Pool
<1>4. AbsentInv' /\ OwnerInv'
  BY <1>1 DEF AbsentInv, OwnerInv
<1> QED BY <1>2, <1>3, <1>4

-----------------------------------------------------------------------------
(* Users and Kubernetes. *)

\* A change is counted.
LEMMA ChangeType ==
    ASSUME TypeOK, Change PROVE spent' \in [changes : Nat, faults : Nat]
BY DEF TypeOK, Change

\* An object's nodeSelector is edited: every node is told.
LEMMA EditSelectorInv == ASSUME Inv, EditSelector PROVE Inv'
<1> USE DEF Inv
<1>1. PICK o \in live, s \in SUBSET Labels :
        /\ selector' = [selector EXCEPT ![o] = s]
        /\ queue' = [n \in Nodes |-> queue[n] \cup {o}]
  BY DEF EditSelector
<1>2. UNCHANGED <<live, parent, podOwner, ds, view, current, worker, silent>>
  BY DEF EditSelector
<1>3. o \in Objects /\ live \subseteq Objects
  BY DEF TypeOK
<1>4. TypeOK'
  BY <1>1, <1>2, <1>3, ChangeType DEF EditSelector, TypeOK
<1>5. /\ \A n \in Nodes : o \in queue'[n] /\ queue[n] \subseteq queue'[n]
      /\ \A p \in Objects \ {o} : selector'[p] = selector[p]
  BY <1>1 DEF TypeOK
<1>6. UidInv' /\ WorkInv'
  BY <1>2 DEF UidInv, WorkInv, Pool
<1>7. CopyInv'
  BY <1>2, <1>3, <1>5 DEF CopyInv
<1>8. OrphanInv'
  BY <1>2, <1>3, <1>5 DEF OrphanInv, Busy, Pool
<1>9. AbsentInv'
  BY <1>2, <1>3, <1>5 DEF AbsentInv, Busy, Pool
<1>10. OwnerInv'
  <2> SUFFICES ASSUME ~silent, ds # None, ds.owner \in live, Pool(selector'[ds.owner]) # {}
               PROVE  \E n \in Pool(selector'[ds.owner]) : Vouches(n)'
    BY <1>2 DEF OwnerInv, Pool
  <2>1. CASE ds.owner = o
    BY <1>2, <1>5, <2>1 DEF Vouches, Pool
  <2>2. CASE ds.owner # o
    <3>1. selector'[ds.owner] = selector[ds.owner]
      BY <1>3, <1>5, <2>2
    <3>2. PICK n \in Pool(selector[ds.owner]) : Vouches(n)
      BY <3>1 DEF OwnerInv
    <3>3. n \in Nodes
      BY DEF Pool
    <3> QED BY <1>2, <1>5, <3>1, <3>2, <3>3 DEF Vouches, Busy
  <2> QED BY <2>1, <2>2
<1> QED BY <1>4, <1>6, <1>7, <1>8, <1>9, <1>10

\* An object is deleted.
LEMMA DeleteObjectInv == ASSUME Inv, DeleteObject PROVE Inv'
<1> USE DEF Inv
<1>1. live' \subseteq live
      /\ UNCHANGED <<selector, parent, podOwner, ds, view, current, queue, worker, silent>>
  BY DEF DeleteObject
<1>2. TypeOK'
  BY <1>1, ChangeType DEF DeleteObject, TypeOK
<1>3. UidInv' /\ WorkInv' /\ CopyInv'
  BY <1>1 DEF UidInv, WorkInv, CopyInv, Pool
<1>4. OrphanInv' /\ AbsentInv'
  BY <1>1 DEF OrphanInv, AbsentInv, Busy, Pool
<1>5. OwnerInv'
  BY <1>1 DEF OwnerInv, Vouches, Busy, Pool
<1> QED BY <1>2, <1>3, <1>4, <1>5

\* The parent is edited or replaced, or adopts a Pod: no node knows it yet.
LEMMA ParentInv ==
    ASSUME Inv, EditParent \/ ReplaceParent \/ \E n \in Nodes : Adopt(n)
    PROVE  Inv'
<1> USE DEF Inv
<1>1. UNCHANGED <<live, selector, ds, view, current, queue, worker, silent>>
  BY DEF EditParent, ReplaceParent, Adopt
<1>2. parent \in Parents /\ parent.uid \in Nat
  BY DEF TypeOK, Parents
<1>3. parent' \in Parents /\ parent'.uid >= parent.uid
  <2>1. CASE EditParent
    BY <1>2, <2>1 DEF EditParent, Parents
  <2>2. CASE ReplaceParent
    BY <1>2, <2>2 DEF ReplaceParent, Parents, NoUid
  <2>3. CASE \E n \in Nodes : Adopt(n)
    BY <1>2, <2>3 DEF Adopt
  <2> QED BY <2>1, <2>2, <2>3
<1>4. /\ podOwner' \in [Nodes -> Nat]
      /\ \A n \in Nodes : podOwner'[n] \in {podOwner[n], parent.uid}
  BY <1>2 DEF EditParent, ReplaceParent, Adopt, TypeOK
<1>5. TypeOK'
  BY <1>1, <1>3, <1>4, ChangeType DEF EditParent, ReplaceParent, Adopt, TypeOK
<1>6. \A n \in Nodes : podOwner[n] \in Nat /\ view[n].parent.uid \in Nat
  BY WorkerFields DEF TypeOK
<1>7. UidInv'
  BY <1>1, <1>2, <1>3, <1>4, <1>5, <1>6 DEF UidInv, TypeOK, Parents
<1>8. WorkInv' /\ CopyInv' /\ AbsentInv'
  BY <1>1 DEF WorkInv, CopyInv, AbsentInv, Busy, Pool
<1>9. OrphanInv'
  BY <1>1, <1>2, <1>4, <1>6 DEF OrphanInv, UidInv, Busy, Pool
<1>10. OwnerInv'
  BY <1>1 DEF OwnerInv, Vouches, Busy, Pool
<1> QED BY <1>5, <1>7, <1>8, <1>9, <1>10

\* A flowcontroller starts anew and has everything before it.
LEMMA FreshInv ==
    ASSUME Inv, NEW n \in Nodes, FreshPod(n), UNCHANGED <<live, selector, parent, ds, silent>>,
           spent' \in [changes : Nat, faults : Nat]
    PROVE  Inv'
<1> USE DEF Inv
<1>1. /\ podOwner' = [podOwner EXCEPT ![n] = parent.uid]
      /\ view' = [view EXCEPT ![n] = [parent |-> parent, ds |-> ds]]
      /\ current' = current \cup {n}
      /\ queue' = [queue EXCEPT ![n] = live]
      /\ worker' = [worker EXCEPT ![n] = IdleWorker]
  BY DEF FreshPod
<1>2. parent \in Parents /\ parent.uid \in Nat
  BY DEF TypeOK, Parents
<1>3. TypeOK'
  BY <1>1, <1>2, IdleType DEF TypeOK
<1>4. /\ podOwner'[n] = parent.uid /\ view'[n].parent = parent /\ queue'[n] = live
      /\ worker'[n].pc = "idle"
      /\ \A m \in Nodes \ {n} : /\ podOwner'[m] = podOwner[m] /\ view'[m] = view[m]
                               /\ queue'[m] = queue[m] /\ worker'[m] = worker[m]
  BY <1>1, IdleType DEF TypeOK
<1>5. UidInv'
  BY <1>1, <1>2, <1>4 DEF UidInv
<1>6. WorkInv' /\ CopyInv'
  BY <1>1, <1>4 DEF WorkInv, CopyInv, Pool
<1>7. OrphanInv' /\ AbsentInv'
  BY <1>1, <1>4 DEF OrphanInv, AbsentInv, Busy, Pool
<1>8. OwnerInv'
  BY <1>1, <1>4 DEF OwnerInv, Vouches, Busy, Pool
<1> QED BY <1>3, <1>5, <1>6, <1>7, <1>8

\* So it is when a Pod is replaced.
LEMMA RestartPodInv == ASSUME Inv, NEW n \in Nodes, RestartPod(n) PROVE Inv'
BY FreshInv, ChangeType DEF RestartPod, Inv

\* A Pod goes with its parent, or stays without one: it does nothing until it
\* is adopted.
LEMMA LoseParentInv == ASSUME Inv, NEW n \in Nodes, LoseParent(n) PROVE Inv'
<1> USE DEF Inv
<1>1. UNCHANGED <<live, selector, parent, ds, silent, spent>>
  BY DEF LoseParent
<1>2. CASE FreshPod(n)
  BY <1>1, <1>2, FreshInv DEF TypeOK
<1>3. CASE podOwner' = [podOwner EXCEPT ![n] = NoUid] /\ UNCHANGED <<view, current, queue, worker>>
  <2>1. /\ podOwner' \in [Nodes -> Nat]
        /\ \A m \in Nodes : podOwner'[m] \in {podOwner[m], NoUid}
    BY <1>3 DEF TypeOK, NoUid
  <2>2. TypeOK'
    BY <1>1, <1>3, <2>1 DEF TypeOK
  <2>3. UidInv'
    BY <1>1, <1>3, <2>1 DEF UidInv, TypeOK, Parents, NoUid
  <2>4. WorkInv' /\ CopyInv' /\ AbsentInv'
    BY <1>1, <1>3 DEF WorkInv, CopyInv, AbsentInv, Busy, Pool
  <2>5. OrphanInv'
    BY <1>1, <1>3, <2>1 DEF OrphanInv, Busy, Pool
  <2>6. OwnerInv'
    BY <1>1, <1>3 DEF OwnerInv, Vouches, Busy, Pool
  <2> QED BY <2>2, <2>3, <2>4, <2>5, <2>6
<1> QED BY <1>2, <1>3 DEF LoseParent

-----------------------------------------------------------------------------
(* The theorems. *)

\* Every step keeps the invariant.
LEMMA NextInv == Inv /\ [Next]_vars => Inv'
<1> SUFFICES ASSUME Inv, [Next]_vars PROVE Inv'
  OBVIOUS
<1>1. ASSUME NEW n \in Nodes, Work(n) \/ DeployFails(n) PROVE Inv'
  BY <1>1, StartInv, ReadTolerationsInv, SyncInv, DeployFailsInv DEF Work
<1>2. ASSUME NEW n \in Nodes, ViewSync(n) \/ Resync(n) \/ LoseParent(n) \/ Adopt(n) \/ RestartPod(n)
      PROVE  Inv'
  BY <1>2, ViewSyncInv, ResyncInv, LoseParentInv, ParentInv, RestartPodInv
<1>3. CASE Collect \/ EditSelector \/ DeleteObject \/ EditParent \/ ReplaceParent
  BY <1>3, CollectInv, EditSelectorInv, DeleteObjectInv, ParentInv
<1>4. CASE UNCHANGED vars
  BY <1>4, QueueInv DEF vars, Inv, TypeOK
<1> QED BY <1>1, <1>2, <1>3, <1>4 DEF Next

\* The invariant holds throughout.
LEMMA SpecInv == Spec => []Inv
BY InitInv, NextInv, PTL DEF Spec

\* Type correctness, with the optimistic lock: a node that is let to write has the
\* stored DaemonSet in its cache.
THEOREM TypeCorrect == Spec => []TypeOK
<1>1. Inv => TypeOK
  BY DEF Inv
<1> QED BY <1>1, SpecInv, PTL

\* When every node is content the DaemonSet is right: no wake-up is lost, but for
\* that of a node whose Pod has no controller when it hears of tolerations.
THEOREM RestIsRight == Spec => []RestsRight
<1>1. ASSUME Inv PROVE RestsRight
  <2> SUFFICES ASSUME AtRest PROVE RestsRight!2
    BY DEF RestsRight
  <2>1. \A n \in Nodes : \A o : o \notin queue[n] /\ ~Busy(n, o)
    BY DEF AtRest, Busy
  <2>2. Served => ds # None
    BY <1>1, <2>1 DEF AtRest, Served, Inv, AbsentInv, Pool
  <2>3. ASSUME ds # None, ds.owner \in live, Pool(selector[ds.owner]) # {}
        PROVE  ds.tolerations = parent.tolerations /\ selector[ds.owner] \subseteq ds.selector
    <3>1. PICK n \in Pool(selector[ds.owner]) : Vouches(n)
      BY <1>1, <2>3 DEF AtRest, Inv, OwnerInv
    <3>2. n \in Nodes
      BY DEF Pool
    <3> QED BY <2>1, <3>1, <3>2 DEF Vouches, AtRest
  <2> QED BY <2>2, <2>3
<1> QED BY <1>1, SpecInv, PTL
=============================================================================
