-------------------------- MODULE RailPoolDeletion --------------------------
(***************************************************************************)
(* A deletion leaves nothing of the last spec behind, on any number of     *)
(* nodes (proved about RailPool).                                          *)
(***************************************************************************)
EXTENDS RailPoolProofs

-----------------------------------------------------------------------------
(* The invariant. *)

\* As long as the object has no finalizer no reconcile has started.
Untouched ==
    rpc.phase = "live" /\ ~rpc.fin =>
        /\ ~pool
        /\ \A r \in Rails : api[r] = NoObjects
        /\ \A n \in Nodes : worker[n].pc = "idle" /\ ~cache[n].fin

\* Whoever has heard of the deletion knows the last spec.
HeardLast ==
    \A n \in Nodes :
        cache[n].phase = "deleting" => rpc.phase # "live" /\ cache[n].rails = rpc.rails

\* Of rail r there is no primary policy, no secondary policy, or no OVSNetwork
\* in the cluster but what was applied late.
NoPrimary(r)   == api[r].primary = "none" \/ r \in late.rails
NoSecondary(r) == ~api[r].secondary \/ r \in late.rails
NoNetwork(r)   == ~api[r].network \/ r \in late.rails

Spotless(r) == NoPrimary(r) /\ NoSecondary(r) /\ NoNetwork(r)

\* What a deletion with rail r has behind it at reconcile w: the bridges, the
\* primary and the secondary policy, or everything.
Behind(w, r, pcs) == r \in w.todo => w.rail = r /\ w.pc \in pcs

BridgesBehind(w, r)   == Behind(w, r, Dropping)
PrimaryBehind(w, r)   == Behind(w, r, {"dropSecondary", "dropNetwork"})
SecondaryBehind(w, r) == Behind(w, r, {"dropNetwork"})

\* What is behind a deletion is gone.
GoneBehind(w) ==
    \A r \in Present(rpc.rails) :
        /\ PrimaryBehind(w, r) => NoPrimary(r)
        /\ SecondaryBehind(w, r) => NoSecondary(r)
        /\ r \notin w.todo => NoNetwork(r)

BridgesGone(w, h) == \A r \in Multi(rpc.rails) : BridgesBehind(w, r) => r \notin h.bridges

\* How far the deletion on node n has come.
Progress(n) ==
    /\ worker[n].pc = "finalizer" => worker[n].deleting
    /\ worker[n].deleting =>
         /\ rpc.phase # "live" /\ cache[n].phase # "live"
         /\ worker[n].pc \in {"clean", "finalizer"} \cup Dropping
         /\ Multi(rpc.rails) \subseteq worker[n].xp
         /\ GoneBehind(worker[n])
         /\ spent.faults = 0 => BridgesGone(worker[n], host[n])
         /\ worker[n].pc = "finalizer" => worker[n].todo = {} /\ (pool => late.pool)

\* Node n has no bridge of the last spec, and will not create one any more.
Settled(n) ==
    /\ ~(cache[n].phase = "live" /\ cache[n].fin)
    /\ worker[n].pc \notin Applying \cup {"rails"}
    /\ host[n].bridges \cap Multi(rpc.rails) = {}

\* What a deletion leaves.
Left ==
    /\ closed # {} => rpc.phase = "gone"
    /\ rpc.phase = "gone" =>
         /\ pool => late.pool
         /\ \A r \in Present(rpc.rails) : Spotless(r)
         /\ spent.faults = 0 => \A n \in closed : Settled(n)

DeletionInv == Untouched /\ HeardLast /\ (\A n \in Nodes : Progress(n)) /\ Left

-----------------------------------------------------------------------------
(* What steps do to the object. *)

\* Removing the finalizer of an object keeps its spec.
LEMMA RemovedFields ==
    ASSUME NEW o \in Object
    PROVE  Removed(o).phase = "gone" /\ Removed(o).rails = o.rails /\ ~Removed(o).fin
BY DEF Removed, Object

\* An object that is deleted stays deleted, keeps its spec, and never gets its
\* finalizer back; the finalizer of a live object is not taken away.
LEMMA ObjectStep ==
    ASSUME TypeInv, \A n \in Nodes : Progress(n), [Next]_vars
    PROVE  /\ rpc.phase # "live" => rpc'.phase # "live" /\ rpc'.rails = rpc.rails
           /\ rpc.phase = "gone" => rpc'.phase = "gone"
           /\ rpc'.phase = "live" => rpc.phase = "live" /\ (rpc.fin => rpc'.fin)
<1>t. rpc \in Object
  BY DEF TypeInv, TypeOK
<1>1. CASE rpc' = rpc
  BY <1>1
<1>2. CASE rpc' = Removed(rpc) /\ rpc.phase # "live"
  BY <1>2, <1>t, RemovedFields
<1>3. CASE EditSpec
  <2>1. PICK r \in Rails, k \in Kinds : rpc' = [rpc EXCEPT !.gen = @ + 1, !.rails[r] = k]
    BY <1>3 DEF EditSpec
  <2>2. rpc'.phase = rpc.phase /\ rpc'.fin = rpc.fin /\ rpc.phase = "live"
    BY <2>1, <1>3, <1>t DEF EditSpec, Object
  <2> QED BY <2>2
<1>4. CASE DeleteObject
  <2>1. rpc.phase = "live" /\ (rpc' = [rpc EXCEPT !.phase = "deleting", !.gen = @ + 1] \/ rpc' = Removed(rpc))
    BY <1>4 DEF DeleteObject
  <2>2. rpc'.phase # "live"
    BY <2>1, <1>t, RemovedFields DEF Object
  <2> QED BY <2>1, <2>2
<1>5. ASSUME NEW n \in Nodes, AddFinalizer(n)
      PROVE  rpc.phase = "live" /\ rpc'.phase = "live" /\ rpc'.fin
  BY <1>5, <1>t DEF AddFinalizer, Object
<1>6. ASSUME NEW n \in Nodes, Step(n) \/ Failure(n), ~AddFinalizer(n)
      PROVE  rpc' = rpc \/ (rpc' = Removed(rpc) /\ rpc.phase # "live")
  <2>1. Progress(n)
    OBVIOUS
  <2>2. CASE RemoveFinalizer(n)
    BY <2>1, <2>2 DEF RemoveFinalizer, Progress
  <2>3. CASE DeletionFails(n)
    <3>1. rpc' = rpc \/ (worker[n].pc = "finalizer" /\ rpc' = Removed(rpc))
      BY <2>3, Zenon DEF DeletionFails
    <3> QED BY <2>1, <3>1 DEF Progress
  <2>4. CASE Step(n) /\ ~RemoveFinalizer(n)
    BY <1>6, <2>4 DEF Step, Start, ApplyPrimary, ApplySecondary, ApplyNetwork, WireRail, ListRemoved,
         CleanBridges, DropPrimary, DropSecondary, DropNetwork, Finish, DeletePool
  <2>5. CASE Failure(n) /\ ~DeletionFails(n)
    BY <2>5 DEF Failure, ApplyFails, WireFails, ListFails, CleanBridgesFails, DropFails, Reboot
  <2> QED BY <1>6, <2>2, <2>3, <2>4, <2>5
<1>7. ASSUME NEW n \in Nodes, Delivery(n) \/ SwitchMode(n) PROVE rpc' = rpc
  BY <1>7 DEF Delivery, CacheSync, ViewSync, Publish, SwitchMode
<1>8. CASE UNCHANGED vars
  BY <1>8, <1>1 DEF vars
<1> QED BY <1>1, <1>2, <1>3, <1>4, <1>5, <1>6, <1>7, <1>8 DEF Next

\* A step applies something of one rail, and records it, or it applies nothing.
LEMMA ApiStep ==
    ASSUME TypeInv, [Next]_vars
    PROVE  \/ \E q \in Rails : late' = Late(q) /\ \A r \in Rails \ {q} : api'[r] = api[r]
           \/ /\ late'.rails = late.rails
              /\ \A r \in Rails : /\ api[r].primary = "none" => api'[r].primary = "none"
                                  /\ ~api[r].secondary => ~api'[r].secondary
                                  /\ ~api[r].network => ~api'[r].network
<1> DEFINE Applies == \E q \in Rails : late' = Late(q) /\ \A r \in Rails \ {q} : api'[r] = api[r]
           Less == \A r \in Rails : /\ api[r].primary = "none" => api'[r].primary = "none"
                                    /\ ~api[r].secondary => ~api'[r].secondary
                                    /\ ~api[r].network => ~api'[r].network
<1>t. api \in [Rails -> RailObjects] /\ late \in [pool : BOOLEAN, rails : SUBSET Rails]
  BY DEF TypeInv, TypeOK
<1>1. ASSUME NEW q \in Rails, NEW kind, late' = Late(q),
             api' \in {api, PatchPrimary(q, kind), PatchSecondary(q), PatchNetwork(q)}
      PROVE  Applies
  BY <1>1, <1>t DEF PatchPrimary, PatchSecondary, PatchNetwork
<1>2. ASSUME NEW q \in Rails, api' \in {api, DeletePrimary(q), DeleteSecondary(q), DeleteNetwork(q)}
      PROVE  Less
  <2>1. CASE api' = api
    BY <2>1
  <2>2. CASE api' = DeletePrimary(q)
    BY <2>2, <1>t DEF DeletePrimary, RailObjects
  <2>3. CASE api' = DeleteSecondary(q)
    BY <2>3, <1>t DEF DeleteSecondary, RailObjects
  <2>4. CASE api' = DeleteNetwork(q)
    BY <2>4, <1>t DEF DeleteNetwork, RailObjects
  <2> QED BY <1>2, <2>1, <2>2, <2>3, <2>4
<1>3. CASE api' = api /\ late' \in {late, [late EXCEPT !.pool = TRUE]}
  <2>1. late'.rails = late.rails
    BY <1>3, <1>t
  <2> QED BY <1>3, <2>1
<1>4. ASSUME NEW n \in Nodes, Step(n) \/ Failure(n) PROVE Applies \/ (late'.rails = late.rails /\ Less)
  <2>1. CASE ApplyPrimary(n) \/ ApplySecondary(n) \/ ApplyNetwork(n) \/ ApplyFails(n)
    <3>1. CASE worker[n].pc = "rails"
      <4>1. PICK r \in worker[n].todo :
              late' = Late(r) /\ api' \in {api, PatchPrimary(r, worker[n].rails[r])}
        BY <2>1, <3>1 DEF ApplyPrimary, ApplySecondary, ApplyNetwork, ApplyFails
      <4>2. r \in Rails
        BY AllWorking
      <4> QED BY <4>1, <4>2, <1>1
    <3>2. CASE worker[n].pc # "rails"
      <4>1. /\ worker[n].pc \in Applying /\ late' = Late(worker[n].rail)
            /\ api' \in {api, PatchSecondary(worker[n].rail), PatchNetwork(worker[n].rail)}
        BY <2>1, <3>2 DEF ApplyPrimary, ApplySecondary, ApplyNetwork, ApplyFails, Applying
      <4>2. worker[n].rail \in Rails
        BY <4>1, AllWorking
      <4> QED BY <4>1, <4>2, <1>1
    <3> QED BY <3>1, <3>2
  <2>2. CASE DropPrimary(n) \/ DropSecondary(n) \/ DropNetwork(n) \/ DropFails(n)
    <3> DEFINE r == worker[n].rail
    <3>1. worker[n].pc \in Dropping /\ late' = late /\ api' \in {api, DeletePrimary(r), DeleteSecondary(r), DeleteNetwork(r)}
      BY <2>2 DEF DropPrimary, DropSecondary, DropNetwork, DropFails, Dropping
    <3>2. r \in Rails
      BY <3>1, AllWorking
    <3> HIDE DEF r
    <3> QED BY <3>1, <3>2, <1>2
  <2>3. CASE AddFinalizer(n) \/ Start(n) \/ WireRail(n) \/ ListRemoved(n) \/ CleanBridges(n)
    BY <2>3, <1>3 DEF AddFinalizer, Start, WireRail, ListRemoved, CleanBridges
  <2>4. CASE Finish(n) \/ DeletePool(n) \/ RemoveFinalizer(n)
    BY <2>4, <1>3 DEF Finish, DeletePool, RemoveFinalizer
  <2>5. CASE WireFails(n) \/ ListFails(n) \/ CleanBridgesFails(n) \/ DeletionFails(n) \/ Reboot(n)
    BY <2>5, <1>3 DEF WireFails, ListFails, CleanBridgesFails, DeletionFails, Reboot
  <2> QED BY <1>4, <2>1, <2>2, <2>3, <2>4, <2>5 DEF Step, Failure
<1>5. ASSUME NEW n \in Nodes, Delivery(n) \/ SwitchMode(n) PROVE late'.rails = late.rails /\ Less
  BY <1>5, <1>3 DEF Delivery, CacheSync, ViewSync, Publish, SwitchMode
<1>6. CASE EditSpec \/ DeleteObject \/ UNCHANGED vars
  BY <1>6, <1>3 DEF EditSpec, DeleteObject, vars
<1> QED BY <1>4, <1>5, <1>6 DEF Next

\* Once the object is not live any more, what is gone of a rail remains gone:
\* what is applied from now on is recorded as late.
LEMMA PartsStep ==
    ASSUME TypeInv, [Next]_vars, rpc.phase # "live", NEW r \in Rails
    PROVE  /\ NoPrimary(r) => NoPrimary(r)'
           /\ NoSecondary(r) => NoSecondary(r)'
           /\ NoNetwork(r) => NoNetwork(r)'
<1>t. late \in [pool : BOOLEAN, rails : SUBSET Rails]
  BY DEF TypeInv, TypeOK
<1>1. ASSUME NEW q \in Rails, late' = Late(q), \A p \in Rails \ {q} : api'[p] = api[p]
      PROVE  r \in late'.rails \/ (api'[r] = api[r] /\ (r \in late.rails => r \in late'.rails))
  <2>1. late' = [late EXCEPT !.rails = @ \cup {q}]
    BY <1>1 DEF Late
  <2>2. late'.rails = late.rails \cup {q}
    BY <2>1, <1>t
  <2> QED BY <1>1, <2>2
<1> QED BY <1>1, ApiStep DEF NoPrimary, NoSecondary, NoNetwork

\* The spec of an object that is being deleted, and what is gone of it.
LEMMA BehindStep ==
    ASSUME TypeInv, \A n \in Nodes : Progress(n), [Next]_vars, rpc.phase # "live", NEW w, GoneBehind(w)
    PROVE  GoneBehind(w)'
<1>1. rpc'.rails = rpc.rails
  BY ObjectStep
<1> SUFFICES ASSUME NEW r \in Present(rpc.rails)
             PROVE  /\ PrimaryBehind(w, r) => NoPrimary(r)'
                    /\ SecondaryBehind(w, r) => NoSecondary(r)'
                    /\ r \notin w.todo => NoNetwork(r)'
  BY <1>1 DEF GoneBehind, Present
<1>2. r \in Rails
  BY DEF Present
<1> QED BY <1>2, PartsStep DEF GoneBehind

-----------------------------------------------------------------------------
(* What steps do to nodes. *)

\* A step of one node leaves the others alone.
LEMMA OtherNode ==
    ASSUME TypeInv, NEW n \in Nodes, NEW m \in Nodes, m # n,
           Step(n) \/ Failure(n) \/ Delivery(n) \/ SwitchMode(n)
    PROVE  worker'[m] = worker[m] /\ host'[m] = host[m] /\ cache'[m] = cache[m]
<1>t. worker \in [Nodes -> Worker] /\ host \in [Nodes -> Host] /\ cache \in [Nodes -> Object]
  BY DEF TypeInv, TypeOK
<1>1. worker' = worker \/ \E w : SetWorker(n, w)
  BY DEF TakeRail, GoOn, RailDone,
         Step, AddFinalizer, Start, ApplyPrimary, ApplySecondary, ApplyNetwork, WireRail, ListRemoved,
         CleanBridges, DropPrimary, DropSecondary, DropNetwork, Finish, DeletePool, RemoveFinalizer,
         Failure, ApplyFails, WireFails, ListFails, CleanBridgesFails, DropFails, DeletionFails, Reboot,
         Delivery, CacheSync, ViewSync, Publish, SwitchMode
<1>2. host' = host \/ \E h : SetHost(n, h)
  BY DEF Step, AddFinalizer, Start, ApplyPrimary, ApplySecondary, ApplyNetwork, WireRail, ListRemoved,
         CleanBridges, DropPrimary, DropSecondary, DropNetwork, Finish, DeletePool, RemoveFinalizer,
         Failure, ApplyFails, WireFails, ListFails, CleanBridgesFails, DropFails, DeletionFails, Reboot,
         Delivery, CacheSync, ViewSync, Publish, SwitchMode
<1>3. cache' = cache \/ \E c : cache' = [cache EXCEPT ![n] = c]
  BY DEF Step, AddFinalizer, Start, ApplyPrimary, ApplySecondary, ApplyNetwork, WireRail, ListRemoved,
         CleanBridges, DropPrimary, DropSecondary, DropNetwork, Finish, DeletePool, RemoveFinalizer,
         Failure, ApplyFails, WireFails, ListFails, CleanBridgesFails, DropFails, DeletionFails, Reboot,
         Delivery, CacheSync, ViewSync, Publish, SwitchMode
<1> QED BY <1>1, <1>2, <1>3, <1>t DEF SetWorker, SetHost

\* A failure ends the reconcile.
LEMMA FailureIdles ==
    ASSUME TypeInv, NEW n \in Nodes, Failure(n)
    PROVE  worker'[n] = IdleWorker
<1>1. SetWorker(n, IdleWorker)
  BY DEF Failure, ApplyFails, WireFails, ListFails, CleanBridgesFails, DropFails, DeletionFails, Reboot
<1> QED BY <1>1 DEF TypeInv, TypeOK, SetWorker

\* Cleaning up only takes bridges away, and all of the rail's if it succeeds.
LEMMA CleanupShrinks ==
    ASSUME NEW h \in Host, NEW r
    PROVE  /\ Cleanup(h, r).bridges = h.bridges \ {r}
           /\ \A g \in CleanupLogged(h, r) : g.bridges \subseteq h.bridges
<1>1. \A g \in Host : /\ DelXplane(g).bridges = g.bridges
                      /\ DelRail(g, r).bridges = g.bridges \ {r}
                      /\ DelRail(g, r) \in Host
  BY DEF DelXplane, DelRail, Host
<1> QED BY <1>1 DEF Cleanup, CleanupLogged

LEMMA SafeStartKeeps == ASSUME NEW h \in Host PROVE SafeStart(h).bridges = h.bridges
BY DEF SafeStart, Host

-----------------------------------------------------------------------------
(* The parts of the invariant. *)

\* Without the finalizer only caches, modes and the spec change.
LEMMA UntouchedStep ==
    ASSUME TypeInv, \A n \in Nodes : Progress(n), Untouched, [Next]_vars
    PROVE  Untouched'
<1> SUFFICES ASSUME rpc'.phase = "live", ~rpc'.fin
             PROVE  /\ ~pool'
                    /\ \A r \in Rails : api'[r] = NoObjects
                    /\ \A n \in Nodes : worker'[n].pc = "idle" /\ ~cache'[n].fin
  BY DEF Untouched
<1>0. rpc.phase = "live" /\ ~rpc.fin
  BY ObjectStep
<1>1. /\ ~pool
      /\ \A r \in Rails : api[r] = NoObjects
      /\ \A n \in Nodes : worker[n].pc = "idle" /\ ~cache[n].fin
  BY <1>0 DEF Untouched
<1>t. worker \in [Nodes -> Worker] /\ host \in [Nodes -> Host] /\ cache \in [Nodes -> Object] /\ rpc \in Object
  BY DEF TypeInv, TypeOK
<1>2. ASSUME NEW n \in Nodes, Step(n) PROVE FALSE
  <2>1. ~AddFinalizer(n)
    BY <1>t DEF AddFinalizer, Object
  <2> QED BY <1>1, <1>2, <2>1 DEF Step, Start, ApplyPrimary, ApplySecondary, ApplyNetwork, WireRail, ListRemoved,
         CleanBridges, DropPrimary, DropSecondary, DropNetwork, Finish, DeletePool, RemoveFinalizer
<1>3. ASSUME NEW n \in Nodes, Failure(n) PROVE Reboot(n)
  BY <1>1, <1>3 DEF Failure, ApplyFails, WireFails, ListFails, CleanBridgesFails, DropFails, DeletionFails
<1>4. ASSUME NEW n \in Nodes, Reboot(n)
      PROVE  /\ pool' = pool /\ api' = api
             /\ \A m \in Nodes : worker'[m].pc = "idle" /\ ~cache'[m].fin
  <2>1. IdleWorker.pc = "idle"
    BY DEF IdleWorker
  <2>2. cache'[n] = rpc /\ worker'[n] = IdleWorker
    BY <1>4, <1>t DEF Reboot, SetWorker
  <2>3. \A m \in Nodes \ {n} : worker'[m] = worker[m] /\ cache'[m] = cache[m]
    BY <1>4, OtherNode DEF Failure
  <2>4. pool' = pool /\ api' = api
    BY <1>4 DEF Reboot
  <2> QED BY <1>0, <1>1, <2>1, <2>2, <2>3, <2>4
<1>5. ASSUME NEW n \in Nodes, Delivery(n) \/ SwitchMode(n)
      PROVE  /\ pool' = pool /\ api' = api /\ worker' = worker
             /\ cache' = cache \/ cache' = [cache EXCEPT ![n] = rpc]
  BY <1>5 DEF Delivery, CacheSync, ViewSync, Publish, SwitchMode
<1>6. ASSUME EditSpec \/ DeleteObject \/ UNCHANGED vars
      PROVE  pool' = pool /\ api' = api /\ worker' = worker /\ cache' = cache
  BY <1>6 DEF EditSpec, DeleteObject, vars
<1>7. ASSUME NEW n \in Nodes, pool' = pool, api' = api, worker' = worker,
             cache' = cache \/ cache' = [cache EXCEPT ![n] = rpc]
      PROVE  /\ ~pool'
             /\ \A r \in Rails : api'[r] = NoObjects
             /\ \A m \in Nodes : worker'[m].pc = "idle" /\ ~cache'[m].fin
  BY <1>0, <1>1, <1>7, <1>t
<1>9. CASE EditSpec \/ DeleteObject \/ UNCHANGED vars
  BY <1>1, <1>6, <1>9
<1>10. CASE \E n1 \in Nodes : Delivery(n1) \/ SwitchMode(n1)
  BY <1>5, <1>7, <1>10
<1>11. CASE \E n1 \in Nodes : Step(n1) \/ Failure(n1)
  BY <1>1, <1>2, <1>3, <1>4, <1>11
<1> QED BY <1>9, <1>10, <1>11 DEF Next

\* Caches only ever take over the stored object.
LEMMA HeardLastStep ==
    ASSUME TypeInv, \A n \in Nodes : Progress(n), HeardLast, [Next]_vars
    PROVE  HeardLast'
<1>t. cache \in [Nodes -> Object] /\ rpc \in Object
  BY DEF TypeInv, TypeOK
<1> SUFFICES ASSUME NEW m \in Nodes, cache'[m].phase = "deleting"
             PROVE  rpc'.phase # "live" /\ cache'[m].rails = rpc'.rails
  BY DEF HeardLast
<1>1. CASE cache'[m] = cache[m]
  BY <1>1, ObjectStep DEF HeardLast
<1>2. ASSUME NEW n \in Nodes, CacheSync(n) \/ Reboot(n)
      PROVE  rpc' = rpc /\ cache' = [cache EXCEPT ![n] = rpc]
  BY <1>2 DEF CacheSync, Reboot
<1>3. CASE rpc' = rpc /\ cache'[m] = rpc
  BY <1>3
<1>4. ASSUME NEW n \in Nodes, Step(n) \/ (Failure(n) /\ ~Reboot(n)) \/ (Delivery(n) /\ ~CacheSync(n)) \/ SwitchMode(n)
      PROVE  cache' = cache
  BY <1>4 DEF Step, AddFinalizer, Start, ApplyPrimary, ApplySecondary, ApplyNetwork, WireRail, ListRemoved,
         CleanBridges, DropPrimary, DropSecondary, DropNetwork, Finish, DeletePool, RemoveFinalizer,
         Failure, ApplyFails, WireFails, ListFails, CleanBridgesFails, DropFails, DeletionFails,
         Delivery, ViewSync, Publish, SwitchMode
<1>5. ASSUME EditSpec \/ DeleteObject \/ UNCHANGED vars PROVE cache' = cache
  BY <1>5 DEF EditSpec, DeleteObject, vars
<1>6. ASSUME NEW n \in Nodes, Step(n) \/ Failure(n) \/ Delivery(n) \/ SwitchMode(n)
      PROVE  cache'[m] = cache[m] \/ (rpc' = rpc /\ cache'[m] = rpc)
  BY <1>2, <1>4, <1>6, <1>t
<1>7. CASE \E n \in Nodes : Step(n) \/ Failure(n) \/ Delivery(n) \/ SwitchMode(n)
  BY <1>1, <1>3, <1>6, <1>7
<1>8. CASE EditSpec \/ DeleteObject \/ UNCHANGED vars
  BY <1>1, <1>5, <1>8
<1> QED BY <1>7, <1>8 DEF Next

\* Faults are counted.
LEMMA FaultsStep ==
    ASSUME TypeInv, [Next]_vars, spent'.faults = 0
    PROVE  spent.faults = 0
<1>t. TypeOK /\ spent \in [faults : Nat, reboots : Nat]
  BY DEF TypeInv, TypeOK
<1>1. ~Fault
  BY <1>t, FaultType
<1>2. CASE spent' = spent
  BY <1>2
<1>3. ASSUME NEW n \in Nodes, Reboot(n) PROVE spent'.faults = spent.faults
  BY <1>3, <1>t DEF Reboot
<1>4. ASSUME NEW n \in Nodes, Step(n) PROVE spent' = spent
  BY <1>1, <1>4 DEF Step, AddFinalizer, Start, ApplyPrimary, ApplySecondary, ApplyNetwork, WireRail, ListRemoved,
         CleanBridges, DropPrimary, DropSecondary, DropNetwork, Finish, DeletePool, RemoveFinalizer
<1>5. ASSUME NEW n \in Nodes, Failure(n) PROVE Reboot(n)
  BY <1>1, <1>5 DEF Failure, ApplyFails, WireFails, ListFails, CleanBridgesFails, DropFails, DeletionFails
<1>6. ASSUME NEW n \in Nodes, Delivery(n) \/ SwitchMode(n) PROVE spent' = spent
  BY <1>6 DEF Delivery, CacheSync, ViewSync, Publish, SwitchMode
<1>7. CASE EditSpec \/ DeleteObject \/ UNCHANGED vars
  BY <1>7 DEF EditSpec, DeleteObject, vars
<1> QED BY <1>2, <1>3, <1>4, <1>5, <1>6, <1>7 DEF Next

\* A pool config that comes back after the deletion was applied late.
LEMMA PoolStep ==
    ASSUME TypeInv, [Next]_vars, rpc.phase # "live", pool => late.pool
    PROVE  pool' => late'.pool
<1>t. late \in [pool : BOOLEAN, rails : SUBSET Rails]
  BY DEF TypeInv, TypeOK
<1>1. CASE (pool' => pool) /\ (late' = late \/ \E r : late' = Late(r))
  <2>1. late'.pool = late.pool
    BY <1>1, <1>t DEF Late
  <2> QED BY <1>1, <2>1
<1>2. ASSUME NEW n \in Nodes, Start(n) PROVE pool' => late'.pool
  <2>1. CASE cache[n].phase = "deleting"
    BY <1>2, <2>1, <1>1 DEF Start
  <2>2. CASE cache[n].phase # "deleting"
    <3>1. late' = [late EXCEPT !.pool = TRUE]
      BY <1>2, <2>2 DEF Start
    <3> QED BY <3>1, <1>t
  <2> QED BY <2>1, <2>2
<1>3. ASSUME NEW n \in Nodes, Step(n) PROVE pool' => late'.pool
  <2>1. CASE ApplyPrimary(n) \/ ApplySecondary(n) \/ ApplyNetwork(n)
    BY <2>1, <1>1 DEF ApplyPrimary, ApplySecondary, ApplyNetwork
  <2>2. CASE \/ AddFinalizer(n) \/ WireRail(n) \/ ListRemoved(n) \/ CleanBridges(n) \/ DropPrimary(n)
             \/ DropSecondary(n) \/ DropNetwork(n) \/ Finish(n) \/ DeletePool(n) \/ RemoveFinalizer(n)
    BY <2>2, <1>1 DEF AddFinalizer, WireRail, ListRemoved, CleanBridges, DropPrimary,
                      DropSecondary, DropNetwork, Finish, DeletePool, RemoveFinalizer
  <2> QED BY <1>2, <1>3, <2>1, <2>2 DEF Step
<1>4. ASSUME NEW n \in Nodes, Failure(n) PROVE pool' => late'.pool
  <2>1. CASE ApplyFails(n)
    BY <2>1, <1>1 DEF ApplyFails
  <2>2. CASE DeletionFails(n)
    BY <2>2, <1>1 DEF DeletionFails
  <2>3. CASE WireFails(n) \/ ListFails(n) \/ CleanBridgesFails(n) \/ DropFails(n) \/ Reboot(n)
    BY <2>3, <1>1 DEF WireFails, ListFails, CleanBridgesFails, DropFails, Reboot
  <2> QED BY <1>4, <2>1, <2>2, <2>3 DEF Failure
<1>5. ASSUME NEW n \in Nodes, Delivery(n) \/ SwitchMode(n) PROVE pool' => late'.pool
  BY <1>5, <1>1 DEF Delivery, CacheSync, ViewSync, Publish, SwitchMode
<1>6. CASE EditSpec \/ DeleteObject \/ UNCHANGED vars
  BY <1>6, <1>1 DEF EditSpec, DeleteObject, vars
<1> QED BY <1>3, <1>4, <1>5, <1>6 DEF Next

\* What other nodes do does not set a deletion back.
LEMMA ProgressKept ==
    ASSUME TypeInv, \A n \in Nodes : Progress(n), [Next]_vars, NEW m \in Nodes,
           worker'[m] = worker[m], host'[m] = host[m],
           cache'[m] = cache[m] \/ (rpc' = rpc /\ cache'[m] = rpc)
    PROVE  Progress(m)'
<1>0. PICK w : w = worker[m]
  OBVIOUS
<1>h. PICK h : h = host[m]
  OBVIOUS
<1>1. w.pc = "finalizer" => w.deleting
  BY <1>0 DEF Progress
<1> SUFFICES ASSUME w.deleting
             PROVE  /\ rpc'.phase # "live" /\ cache'[m].phase # "live"
                    /\ w.pc \in {"clean", "finalizer"} \cup Dropping
                    /\ Multi(rpc'.rails) \subseteq w.xp
                    /\ GoneBehind(w)'
                    /\ spent'.faults = 0 => BridgesGone(w, h)'
                    /\ w.pc = "finalizer" => w.todo = {} /\ (pool' => late'.pool)
  BY <1>0, <1>h, <1>1 DEF Progress, GoneBehind, BridgesGone, Present, Multi, NoPrimary, NoSecondary, NoNetwork
<1>2. /\ rpc.phase # "live" /\ cache[m].phase # "live"
      /\ w.pc \in {"clean", "finalizer"} \cup Dropping
      /\ Multi(rpc.rails) \subseteq w.xp
      /\ GoneBehind(w)
      /\ spent.faults = 0 => BridgesGone(w, h)
      /\ w.pc = "finalizer" => w.todo = {} /\ (pool => late.pool)
  BY <1>0, <1>h DEF Progress
<1>3. rpc'.phase # "live" /\ rpc'.rails = rpc.rails
  BY <1>2, ObjectStep
<1>4. cache'[m].phase # "live"
  BY <1>2
<1>5. w.pc = "finalizer" => (pool' => late'.pool)
  BY <1>2, PoolStep
<1>6. GoneBehind(w)'
  BY <1>2, BehindStep
<1>7. spent'.faults = 0 => BridgesGone(w, h)'
  BY <1>2, <1>3, FaultsStep DEF BridgesGone, Multi
<1> QED BY <1>2, <1>3, <1>4, <1>5, <1>6, <1>7

\* A reconcile that is not deleting, or is over, has nothing to show.
LEMMA NotDeleting == ASSUME NEW n, ~worker'[n].deleting, worker'[n].pc # "finalizer" PROVE Progress(n)'
BY DEF Progress

\* What the calls of a reconcile change in it.
LEMMA TakeFields ==
    ASSUME TypeInv, NEW n \in Nodes, NEW r, NEW pc, TakeRail(n, r, pc)
    PROVE  /\ worker'[n].pc = pc /\ worker'[n].rail = r /\ worker'[n].todo = worker[n].todo
           /\ worker'[n].xp = worker[n].xp /\ worker'[n].deleting = worker[n].deleting
<1>1. worker \in [Nodes -> Worker] /\ worker[n] \in Worker
  BY DEF TypeInv, TypeOK
<1>2. worker'[n] = [worker[n] EXCEPT !.pc = pc, !.rail = r]
  BY <1>1 DEF TakeRail, SetWorker
<1> QED BY <1>1, <1>2 DEF Worker

LEMMA GoOnFields ==
    ASSUME TypeInv, NEW n \in Nodes, NEW pc, GoOn(n, pc)
    PROVE  /\ worker'[n].pc = pc /\ worker'[n].rail = worker[n].rail /\ worker'[n].todo = worker[n].todo
           /\ worker'[n].xp = worker[n].xp /\ worker'[n].deleting = worker[n].deleting
BY DEF TypeInv, TypeOK, GoOn, SetWorker, Worker

LEMMA DoneFields ==
    ASSUME TypeInv, NEW n \in Nodes, NEW pc, RailDone(n, pc)
    PROVE  /\ worker'[n].pc = pc /\ worker'[n].todo = worker[n].todo \ {worker[n].rail}
           /\ worker'[n].xp = worker[n].xp /\ worker'[n].deleting = worker[n].deleting
BY DEF TypeInv, TypeOK, RailDone, SetWorker, Worker

\* A reconcile of a live object goes on as one.
LEMMA LiveStep ==
    ASSUME TypeInv, NEW n \in Nodes, Progress(n),
           ApplyPrimary(n) \/ ApplySecondary(n) \/ ApplyNetwork(n) \/ WireRail(n) \/ ListRemoved(n)
    PROVE  ~worker'[n].deleting /\ worker'[n].pc # "finalizer"
<1>1. ~worker[n].deleting
  BY DEF Progress, Dropping, ApplyPrimary, ApplySecondary, ApplyNetwork, WireRail, ListRemoved
<1>2. CASE ApplyPrimary(n)
  <2>1. PICK r \in worker[n].todo, pc \in {"secondary", "network"} : TakeRail(n, r, pc)
    BY <1>2 DEF ApplyPrimary
  <2> QED BY <1>1, <2>1, TakeFields
<1>3. CASE ApplySecondary(n)
  BY <1>1, <1>3, GoOnFields DEF ApplySecondary
<1>4. CASE ApplyNetwork(n)
  <2>1. GoOn(n, "wire") \/ RailDone(n, "rails")
    BY <1>4 DEF ApplyNetwork
  <2> QED BY <1>1, <2>1, GoOnFields, DoneFields
<1>5. CASE WireRail(n)
  BY <1>1, <1>5, DoneFields DEF WireRail
<1>6. CASE ListRemoved(n)
  <2>1. PICK T, X : SetWorker(n, [worker[n] EXCEPT !.pc = "clean", !.todo = T, !.xp = X])
    BY <1>6 DEF ListRemoved
  <2>2. worker'[n].deleting = worker[n].deleting /\ worker'[n].pc = "clean"
    BY <2>1 DEF TypeInv, TypeOK, SetWorker, Worker
  <2> QED BY <1>1, <2>2
<1> QED BY <1>2, <1>3, <1>4, <1>5, <1>6

\* A deletion starts with everything left to do ...
LEMMA StartStep ==
    ASSUME TypeInv, HeardLast, NEW n \in Nodes, Start(n)
    PROVE  Progress(n)'
<1>t. worker \in [Nodes -> Worker]
  BY DEF TypeInv, TypeOK
<1> DEFINE o == cache[n]
           del == o.phase = "deleting"
           w == [pc |-> IF del THEN "clean" ELSE "rails", deleting |-> del,
                 rails |-> o.rails, todo |-> Present(o.rails), rail |-> None,
                 xp |-> IF del THEN Multi(o.rails) ELSE {}]
<1>1. worker'[n] = w
  BY <1>t DEF Start, SetWorker
<1>2. worker'[n].pc \in {"clean", "rails"}
  BY <1>1
<1> SUFFICES ASSUME worker'[n].deleting PROVE Progress(n)'
  BY <1>2, NotDeleting
<1>3. /\ del /\ worker'[n].pc = "clean"
      /\ worker'[n].todo = Present(o.rails) /\ worker'[n].xp = Multi(o.rails)
  <2>1. w.deleting = del
    OBVIOUS
  <2>2. del
    BY <1>1, <2>1, Zenon
  <2> QED BY <1>1, <2>2
<1>4. rpc.phase # "live" /\ o.rails = rpc.rails
  BY <1>3 DEF HeardLast
<1>5. rpc' = rpc /\ cache' = cache
  BY DEF Start
<1>6. Multi(rpc.rails) \subseteq Present(rpc.rails)
  BY DEF Multi, Present
<1> HIDE DEF w, o
<1>7. worker'[n].todo = Present(rpc.rails) /\ worker'[n].xp = Multi(rpc.rails) /\ cache[n].phase = "deleting"
  BY <1>3, <1>4 DEF o
<1>8. /\ \A r \in Present(rpc.rails) : \A pcs : "clean" \notin pcs => ~Behind(worker'[n], r, pcs)
      /\ "clean" \notin Dropping
  BY <1>3, <1>7 DEF Behind, Dropping
<1>9. GoneBehind(worker[n])' /\ BridgesGone(worker[n], host[n])'
  BY <1>5, <1>6, <1>7, <1>8
  DEF GoneBehind, BridgesGone, PrimaryBehind, SecondaryBehind, BridgesBehind, Present, Multi
<1> QED BY <1>3, <1>4, <1>5, <1>7, <1>9 DEF Progress, Multi

\* ... and does it rail by rail, component by component.
LEMMA DeletionStep ==
    ASSUME TypeInv, \A n \in Nodes : Progress(n), NEW n \in Nodes, worker[n].deleting,
           CleanBridges(n) \/ DropPrimary(n) \/ DropSecondary(n) \/ DropNetwork(n) \/ DeletePool(n)
    PROVE  Progress(n)'
<1>t. /\ worker \in [Nodes -> Worker] /\ host \in [Nodes -> Host] /\ api \in [Rails -> RailObjects]
      /\ worker[n] \in Worker /\ host[n] \in Host /\ TypeOK
  BY DEF TypeInv, TypeOK
<1>n. [Next]_vars
  BY DEF Next, Step
<1>0. PICK w : w = worker'[n]
  OBVIOUS
<1>p. /\ rpc.phase # "live" /\ cache[n].phase # "live"
      /\ worker[n].pc \in {"clean", "finalizer"} \cup Dropping
      /\ Multi(rpc.rails) \subseteq worker[n].xp
      /\ GoneBehind(worker[n])
      /\ spent.faults = 0 => BridgesGone(worker[n], host[n])
  BY DEF Progress
<1>u. rpc' = rpc /\ cache' = cache
  BY DEF CleanBridges, DropPrimary, DropSecondary, DropNetwork, DeletePool
<1>k. \A r \in Rails : /\ NoPrimary(r) => NoPrimary(r)'
                       /\ NoSecondary(r) => NoSecondary(r)'
                       /\ NoNetwork(r) => NoNetwork(r)'
  BY <1>p, <1>n, PartsStep
<1>r. \A r \in Present(rpc.rails) : r \in Rails
  BY DEF Present
<1>g. ASSUME w.pc \in {"clean", "finalizer"} \cup Dropping, w.xp = worker[n].xp, w.deleting = worker[n].deleting,
             \A r \in Present(rpc.rails) : /\ PrimaryBehind(w, r) => NoPrimary(r)'
                                           /\ SecondaryBehind(w, r) => NoSecondary(r)'
                                           /\ r \notin w.todo => NoNetwork(r)',
             spent'.faults = 0 => \A r \in Multi(rpc.rails) : BridgesBehind(w, r) => r \notin host'[n].bridges,
             w.pc = "finalizer" => w.todo = {} /\ ~pool'
      PROVE  Progress(n)'
  <2>1. GoneBehind(worker[n])'
    BY <1>0, <1>g, <1>u DEF GoneBehind, Present
  <2>2. spent'.faults = 0 => BridgesGone(worker[n], host[n])'
    BY <1>0, <1>g, <1>u DEF BridgesGone, Multi
  <2>3. Multi(rpc.rails)' = Multi(rpc.rails)
    BY <1>u DEF Multi
  <2> QED BY <1>0, <1>p, <1>u, <1>g, <2>1, <2>2, <2>3 DEF Progress
<1>b. ASSUME host' = host, \A r \in Multi(rpc.rails) : BridgesBehind(w, r) => BridgesBehind(worker[n], r)
      PROVE  spent'.faults = 0 => \A r \in Multi(rpc.rails) : BridgesBehind(w, r) => r \notin host'[n].bridges
  BY <1>b, <1>p, <1>n, FaultsStep DEF BridgesGone
<1>1. CASE CleanBridges(n)
  <2>1. PICK q \in worker[n].todo :
          /\ TakeRail(n, q, "dropPrimary")
          /\ SetHost(n, IF q \in worker[n].xp THEN Cleanup(host[n], q) ELSE host[n]) \/ Fault
    BY <1>1 DEF CleanBridges
  <2>2. /\ w.pc = "dropPrimary" /\ w.rail = q /\ w.todo = worker[n].todo
        /\ w.xp = worker[n].xp /\ w.deleting = worker[n].deleting
    BY <2>1, <1>0, TakeFields
  <2>3. \A r \in Present(rpc.rails) : /\ PrimaryBehind(w, r) => NoPrimary(r)'
                                      /\ SecondaryBehind(w, r) => NoSecondary(r)'
                                      /\ r \notin w.todo => NoNetwork(r)'
    <3>1. \A r : /\ PrimaryBehind(w, r) => PrimaryBehind(worker[n], r)
                 /\ SecondaryBehind(w, r) => SecondaryBehind(worker[n], r)
      BY <2>2 DEF PrimaryBehind, SecondaryBehind, Behind
    <3> QED BY <3>1, <2>2, <1>p, <1>k, <1>r DEF GoneBehind
  <2>4. ASSUME spent'.faults = 0, NEW r \in Multi(rpc.rails), BridgesBehind(w, r)
        PROVE  r \notin host'[n].bridges
    <3>1. host'[n] = IF q \in worker[n].xp THEN Cleanup(host[n], q) ELSE host[n]
      BY <2>1, <2>4, <1>t, FaultType DEF SetHost
    <3>2. Cleanup(host[n], q).bridges = host[n].bridges \ {q}
      BY <1>t, CleanupShrinks
    <3>3. BridgesGone(worker[n], host[n])
      BY <2>4, <1>p, <1>n, FaultsStep
    <3>4. r = q \/ BridgesBehind(worker[n], r)
      BY <2>2, <2>4 DEF BridgesBehind, Behind
    <3> QED BY <3>1, <3>2, <3>3, <3>4, <1>p DEF BridgesGone
  <2>5. w.pc \in Dropping /\ w.pc # "finalizer"
    BY <2>2 DEF Dropping
  <2> QED BY <2>2, <2>3, <2>4, <2>5, <1>g
<1>2. CASE DropPrimary(n)
  <2>0. PICK q : q = worker[n].rail
    OBVIOUS
  <2>1. /\ w.pc = "dropSecondary" /\ w.rail = q /\ w.todo = worker[n].todo
        /\ w.xp = worker[n].xp /\ w.deleting = worker[n].deleting
        /\ worker[n].pc = "dropPrimary" /\ host' = host /\ q \in Rails
    BY <1>0, <2>0, <1>2, GoOnFields, AllWorking DEF DropPrimary, Dropping
  <2>2. NoPrimary(q)'
    <3>1. api'[q].primary = "none"
      BY <1>2, <2>0, <2>1, <1>t DEF DropPrimary, DeletePrimary, RailObjects
    <3> QED BY <3>1, <1>2 DEF NoPrimary, DropPrimary
  <2>3. \A r : /\ PrimaryBehind(w, r) => r = q \/ PrimaryBehind(worker[n], r)
               /\ SecondaryBehind(w, r) => SecondaryBehind(worker[n], r)
               /\ BridgesBehind(w, r) => BridgesBehind(worker[n], r)
    BY <2>0, <2>1 DEF PrimaryBehind, SecondaryBehind, BridgesBehind, Behind, Dropping
  <2>4. \A r \in Present(rpc.rails) : /\ PrimaryBehind(w, r) => NoPrimary(r)'
                                      /\ SecondaryBehind(w, r) => NoSecondary(r)'
                                      /\ r \notin w.todo => NoNetwork(r)'
    <3> SUFFICES ASSUME NEW r \in Present(rpc.rails)
                 PROVE  /\ PrimaryBehind(w, r) => NoPrimary(r)'
                        /\ SecondaryBehind(w, r) => NoSecondary(r)'
                        /\ r \notin w.todo => NoNetwork(r)'
      OBVIOUS
    <3>1. CASE r = q
      BY <3>1, <2>1, <2>2, <2>3, <1>p, <1>k, <1>r DEF GoneBehind
    <3>2. CASE r # q
      BY <3>2, <2>1, <2>3, <1>p, <1>k, <1>r DEF GoneBehind
    <3> QED BY <3>1, <3>2
  <2>5. w.pc \in Dropping /\ w.pc # "finalizer"
    BY <2>1 DEF Dropping
  <2> QED BY <2>1, <2>3, <2>4, <2>5, <1>b, <1>g
<1>3. CASE DropSecondary(n)
  <2>0. PICK q : q = worker[n].rail
    OBVIOUS
  <2>1. /\ w.pc = "dropNetwork" /\ w.rail = q /\ w.todo = worker[n].todo
        /\ w.xp = worker[n].xp /\ w.deleting = worker[n].deleting
        /\ worker[n].pc = "dropSecondary" /\ host' = host /\ q \in Rails
    BY <1>0, <2>0, <1>3, GoOnFields, AllWorking DEF DropSecondary, Dropping
  <2>2. NoSecondary(q)'
    <3>1. ~api'[q].secondary
      BY <1>3, <2>0, <2>1, <1>t DEF DropSecondary, DeleteSecondary, RailObjects
    <3> QED BY <3>1, <1>3 DEF NoSecondary, DropSecondary
  <2>3. \A r : /\ PrimaryBehind(w, r) => PrimaryBehind(worker[n], r)
               /\ SecondaryBehind(w, r) => r = q \/ SecondaryBehind(worker[n], r)
               /\ BridgesBehind(w, r) => BridgesBehind(worker[n], r)
    BY <2>0, <2>1 DEF PrimaryBehind, SecondaryBehind, BridgesBehind, Behind, Dropping
  <2>4. \A r \in Present(rpc.rails) : /\ PrimaryBehind(w, r) => NoPrimary(r)'
                                      /\ SecondaryBehind(w, r) => NoSecondary(r)'
                                      /\ r \notin w.todo => NoNetwork(r)'
    <3> SUFFICES ASSUME NEW r \in Present(rpc.rails)
                 PROVE  /\ PrimaryBehind(w, r) => NoPrimary(r)'
                        /\ SecondaryBehind(w, r) => NoSecondary(r)'
                        /\ r \notin w.todo => NoNetwork(r)'
      OBVIOUS
    <3>1. CASE r = q
      BY <3>1, <2>1, <2>2, <2>3, <1>p, <1>k, <1>r DEF GoneBehind
    <3>2. CASE r # q
      BY <3>2, <2>1, <2>3, <1>p, <1>k, <1>r DEF GoneBehind
    <3> QED BY <3>1, <3>2
  <2>5. w.pc \in Dropping /\ w.pc # "finalizer"
    BY <2>1 DEF Dropping
  <2> QED BY <2>1, <2>3, <2>4, <2>5, <1>b, <1>g
<1>4. CASE DropNetwork(n)
  <2>0. PICK q : q = worker[n].rail
    OBVIOUS
  <2>1. /\ w.pc = "clean" /\ w.todo = worker[n].todo \ {q}
        /\ w.xp = worker[n].xp /\ w.deleting = worker[n].deleting
        /\ worker[n].pc = "dropNetwork" /\ host' = host /\ q \in Rails
    BY <1>0, <2>0, <1>4, DoneFields, AllWorking DEF DropNetwork, Dropping
  <2>2. NoNetwork(q)'
    <3>1. ~api'[q].network
      BY <1>4, <2>0, <2>1, <1>t DEF DropNetwork, DeleteNetwork, RailObjects
    <3> QED BY <3>1, <1>4 DEF NoNetwork, DropNetwork
  <2>3. \A r : /\ PrimaryBehind(w, r) => PrimaryBehind(worker[n], r)
               /\ SecondaryBehind(w, r) => SecondaryBehind(worker[n], r)
               /\ BridgesBehind(w, r) => BridgesBehind(worker[n], r)
    BY <2>0, <2>1 DEF PrimaryBehind, SecondaryBehind, BridgesBehind, Behind, Dropping
  <2>4. \A r \in Present(rpc.rails) : /\ PrimaryBehind(w, r) => NoPrimary(r)'
                                      /\ SecondaryBehind(w, r) => NoSecondary(r)'
                                      /\ r \notin w.todo => NoNetwork(r)'
    <3> SUFFICES ASSUME NEW r \in Present(rpc.rails)
                 PROVE  /\ PrimaryBehind(w, r) => NoPrimary(r)'
                        /\ SecondaryBehind(w, r) => NoSecondary(r)'
                        /\ r \notin w.todo => NoNetwork(r)'
      OBVIOUS
    <3>1. CASE r = q
      BY <3>1, <2>2, <2>3, <1>p, <1>k, <1>r DEF GoneBehind
    <3>2. CASE r # q
      BY <3>2, <2>1, <2>3, <1>p, <1>k, <1>r DEF GoneBehind
    <3> QED BY <3>1, <3>2
  <2> QED BY <2>1, <2>3, <2>4, <1>b, <1>g
<1>5. CASE DeletePool(n)
  <2>1. /\ w.pc = "finalizer" /\ w.todo = worker[n].todo
        /\ w.xp = worker[n].xp /\ w.deleting = worker[n].deleting
        /\ worker[n].todo = {} /\ host' = host /\ ~pool'
    BY <1>0, <1>5, GoOnFields DEF DeletePool
  <2>3. \A r : /\ PrimaryBehind(worker[n], r) /\ SecondaryBehind(worker[n], r)
               /\ BridgesBehind(worker[n], r)
    BY <2>1 DEF PrimaryBehind, SecondaryBehind, BridgesBehind, Behind
  <2>4. \A r \in Present(rpc.rails) : NoPrimary(r)' /\ NoSecondary(r)' /\ NoNetwork(r)'
    BY <2>1, <2>3, <1>p, <1>k, <1>r DEF GoneBehind
  <2> QED BY <2>1, <2>3, <2>4, <1>b, <1>g
<1> QED BY <1>1, <1>2, <1>3, <1>4, <1>5

\* So for every step and every node.
LEMMA ProgressNext ==
    ASSUME TypeInv, HeardLast, \A n \in Nodes : Progress(n), [Next]_vars
    PROVE  \A n \in Nodes : Progress(n)'
<1> TAKE m \in Nodes
<1>t. worker \in [Nodes -> Worker] /\ cache \in [Nodes -> Object]
  BY DEF TypeInv, TypeOK
<1>p. Progress(m)
  OBVIOUS
<1>i. ASSUME worker'[m] = IdleWorker PROVE Progress(m)'
  BY <1>i, NotDeleting DEF IdleWorker
<1>1. ASSUME NEW n \in Nodes, n # m, Step(n) \/ Failure(n) \/ Delivery(n) \/ SwitchMode(n)
      PROVE  Progress(m)'
  <2>1. worker'[m] = worker[m] /\ host'[m] = host[m] /\ cache'[m] = cache[m]
    BY <1>1, OtherNode
  <2> QED BY <2>1, ProgressKept
<1>2. CASE Step(m)
  <2>1. CASE AddFinalizer(m)
    <3>1. worker' = worker /\ host' = host /\ cache' = cache
      BY <2>1 DEF AddFinalizer
    <3> QED BY <3>1, ProgressKept
  <2>2. CASE Start(m)
    BY <2>2, StartStep
  <2>3. CASE ApplyPrimary(m) \/ ApplySecondary(m) \/ ApplyNetwork(m) \/ WireRail(m) \/ ListRemoved(m)
    BY <2>3, <1>p, LiveStep, NotDeleting
  <2>4. CASE CleanBridges(m) \/ DropPrimary(m) \/ DropSecondary(m) \/ DropNetwork(m) \/ DeletePool(m)
    <3>1. CASE worker[m].deleting
      BY <2>4, <3>1, DeletionStep
    <3>2. CASE ~worker[m].deleting
      <4>1. worker'[m].deleting = worker[m].deleting /\ worker'[m].pc # "finalizer"
        <5>1. CASE CleanBridges(m)
          <6>1. PICK r \in worker[m].todo : TakeRail(m, r, "dropPrimary")
            BY <5>1 DEF CleanBridges
          <6> QED BY <6>1, TakeFields
        <5>2. CASE DropPrimary(m)
          BY <5>2, GoOnFields DEF DropPrimary
        <5>3. CASE DropSecondary(m)
          BY <5>3, GoOnFields DEF DropSecondary
        <5>4. CASE DropNetwork(m)
          BY <5>4, DoneFields DEF DropNetwork
        <5>5. ~DeletePool(m)
          BY <3>2 DEF DeletePool
        <5> QED BY <2>4, <5>1, <5>2, <5>3, <5>4, <5>5
      <4> QED BY <3>2, <4>1, NotDeleting
    <3> QED BY <3>1, <3>2
  <2>5. CASE Finish(m) \/ RemoveFinalizer(m)
    <3>1. SetWorker(m, IdleWorker)
      BY <2>5 DEF Finish, RemoveFinalizer
    <3> QED BY <3>1, <1>t, <1>i DEF SetWorker
  <2> QED BY <1>2, <2>1, <2>2, <2>3, <2>4, <2>5 DEF Step
<1>3. CASE Failure(m)
  BY <1>3, <1>i, FailureIdles
<1>4. CASE Delivery(m) \/ SwitchMode(m)
  <2>1. /\ worker' = worker /\ host' = host /\ rpc' = rpc
        /\ cache' = cache \/ cache' = [cache EXCEPT ![m] = rpc]
    BY <1>4 DEF Delivery, CacheSync, ViewSync, Publish, SwitchMode
  <2> QED BY <2>1, <1>t, ProgressKept
<1>5. CASE EditSpec \/ DeleteObject \/ UNCHANGED vars
  <2>1. worker' = worker /\ host' = host /\ cache' = cache
    BY <1>5 DEF EditSpec, DeleteObject, vars
  <2> QED BY <2>1, ProgressKept
<1> QED BY <1>1, <1>2, <1>3, <1>4, <1>5 DEF Next

\* A node that is settled when the object is gone stays settled: it starts from
\* a cache that has heard of the deletion, and deletes.
LEMMA SettledStep ==
    ASSUME TypeInv, \A n \in Nodes : Progress(n), [Next]_vars, rpc.phase = "gone",
           NEW m \in Nodes, Settled(m)
    PROVE  Settled(m)'
<1>t. /\ TypeOK /\ worker \in [Nodes -> Worker] /\ host \in [Nodes -> Host] /\ cache \in [Nodes -> Object]
      /\ worker[m] \in Worker /\ host[m] \in Host /\ cache[m] \in Object
  BY DEF TypeInv, TypeOK
<1>s. /\ ~(cache[m].phase = "live" /\ cache[m].fin)
      /\ worker[m].pc \notin Applying \cup {"rails"}
      /\ host[m].bridges \cap Multi(rpc.rails) = {}
  BY DEF Settled
<1>r. rpc'.phase = "gone" /\ Multi(rpc'.rails) = Multi(rpc.rails)
  BY ObjectStep
<1>k. ASSUME worker'[m].pc \notin Applying \cup {"rails"}, host'[m].bridges \subseteq host[m].bridges,
             cache'[m] = cache[m] \/ cache'[m] = rpc
      PROVE  Settled(m)'
  <2>1. ~(cache'[m].phase = "live" /\ cache'[m].fin)
    BY <1>k, <1>s
  <2>2. host'[m].bridges \cap Multi(rpc'.rails) = {}
    BY <1>k, <1>s, <1>r
  <2> QED BY <1>k, <2>1, <2>2 DEF Settled
<1>p. \A pc \in {"idle", "clean", "finalizer"} \cup Dropping : pc \notin Applying \cup {"rails"}
  BY DEF Applying, Dropping
<1>1. ASSUME NEW n \in Nodes, n # m, Step(n) \/ Failure(n) \/ Delivery(n) \/ SwitchMode(n)
      PROVE  Settled(m)'
  <2>1. worker'[m] = worker[m] /\ host'[m] = host[m] /\ cache'[m] = cache[m]
    BY <1>1, OtherNode
  <2> QED BY <2>1, <1>s, <1>k
<1>2. CASE Step(m)
  <2>1. CASE AddFinalizer(m)
    BY <2>1, <1>s, <1>k DEF AddFinalizer
  <2>2. CASE Start(m)
    <3>1. cache[m].phase = "deleting"
      BY <2>2, <1>s, <1>t DEF Start, Object
    <3>2. worker'[m].pc = "clean"
      BY <2>2, <3>1, <1>t DEF Start, SetWorker
    <3>3. host' = host /\ cache' = cache
      BY <2>2 DEF Start
    <3> QED BY <3>2, <3>3, <1>k, <1>p
  <2>3. CASE CleanBridges(m)
    <3>1. PICK r \in worker[m].todo :
            /\ TakeRail(m, r, "dropPrimary")
            /\ \E h \in {host[m], Cleanup(host[m], r)} \cup CleanupLogged(host[m], r) : SetHost(m, h)
      BY <2>3 DEF CleanBridges
    <3>2. worker'[m].pc \in Dropping
      BY <3>1, TakeFields DEF Dropping
    <3>3. host'[m] \in {host[m], Cleanup(host[m], r)} \cup CleanupLogged(host[m], r)
      BY <3>1, <1>t DEF SetHost
    <3>4. host'[m].bridges \subseteq host[m].bridges
      BY <3>3, <1>t, CleanupShrinks
    <3>5. cache' = cache
      BY <2>3 DEF CleanBridges
    <3> QED BY <3>2, <3>4, <3>5, <1>k, <1>p
  <2>4. CASE DropPrimary(m) \/ DropSecondary(m) \/ DropNetwork(m) \/ DeletePool(m)
    <3>1. PICK pc \in {"clean", "finalizer"} \cup Dropping : GoOn(m, pc) \/ RailDone(m, pc)
      BY <2>4 DEF DropPrimary, DropSecondary, DropNetwork, DeletePool, Dropping
    <3>2. worker'[m].pc = pc
      BY <3>1, GoOnFields, DoneFields
    <3>3. host' = host /\ cache' = cache
      BY <2>4 DEF DropPrimary, DropSecondary, DropNetwork, DeletePool
    <3> QED BY <3>2, <3>3, <1>k, <1>p
  <2>5. CASE Finish(m) \/ RemoveFinalizer(m)
    <3>1. SetWorker(m, IdleWorker) /\ host' = host /\ cache' = cache
      BY <2>5 DEF Finish, RemoveFinalizer
    <3>2. worker'[m].pc = "idle"
      BY <3>1, <1>t DEF SetWorker, IdleWorker
    <3> QED BY <3>1, <3>2, <1>k, <1>p
  <2>6. ~(ApplyPrimary(m) \/ ApplySecondary(m) \/ ApplyNetwork(m) \/ WireRail(m) \/ ListRemoved(m))
    BY <1>s DEF ApplyPrimary, ApplySecondary, ApplyNetwork, WireRail, ListRemoved, Applying
  <2> QED BY <1>2, <2>1, <2>2, <2>3, <2>4, <2>5, <2>6 DEF Step
<1>3. CASE Failure(m)
  <2>1. worker'[m].pc = "idle"
    BY <1>3, FailureIdles DEF IdleWorker
  <2>2. CASE CleanBridgesFails(m)
    <3>1. PICK r \in worker[m].todo :
            \E h \in {host[m], Cleanup(host[m], r)} \cup CleanupLogged(host[m], r) : SetHost(m, h)
      BY <2>2 DEF CleanBridgesFails
    <3>2. host'[m] \in {host[m], Cleanup(host[m], r)} \cup CleanupLogged(host[m], r)
      BY <3>1, <1>t DEF SetHost
    <3>3. host'[m].bridges \subseteq host[m].bridges
      BY <3>2, <1>t, CleanupShrinks
    <3>4. cache' = cache
      BY <2>2 DEF CleanBridgesFails
    <3> QED BY <2>1, <3>3, <3>4, <1>k, <1>p
  <2>3. CASE DropFails(m) \/ DeletionFails(m)
    <3>1. host' = host /\ cache' = cache
      BY <2>3 DEF DropFails, DeletionFails
    <3> QED BY <2>1, <3>1, <1>k, <1>p
  <2>4. CASE Reboot(m)
    <3>1. host'[m] = SafeStart(host[m]) /\ cache'[m] = rpc
      BY <2>4, <1>t DEF Reboot, SetHost
    <3> QED BY <2>1, <3>1, <1>t, <1>k, <1>p, SafeStartKeeps
  <2>5. ~(ApplyFails(m) \/ WireFails(m) \/ ListFails(m))
    BY <1>s DEF ApplyFails, WireFails, ListFails, Applying
  <2> QED BY <1>3, <2>2, <2>3, <2>4, <2>5 DEF Failure
<1>4. CASE Delivery(m) \/ SwitchMode(m)
  <2>1. /\ worker' = worker /\ host' = host
        /\ cache' = cache \/ cache' = [cache EXCEPT ![m] = rpc]
    BY <1>4 DEF Delivery, CacheSync, ViewSync, Publish, SwitchMode
  <2> QED BY <2>1, <1>s, <1>t, <1>k
<1>5. CASE EditSpec \/ DeleteObject \/ UNCHANGED vars
  BY <1>5, <1>s, <1>k DEF EditSpec, DeleteObject, vars
<1> QED BY <1>1, <1>2, <1>3, <1>4, <1>5 DEF Next

\* A reconcile that is about to remove the finalizer has everything behind it.
LEMMA AllBehind ==
    ASSUME NEW n \in Nodes, Progress(n), worker[n].pc = "finalizer"
    PROVE  /\ cache[n].phase # "live"
           /\ pool => late.pool
           /\ \A r \in Present(rpc.rails) : Spotless(r)
           /\ spent.faults = 0 => host[n].bridges \cap Multi(rpc.rails) = {}
<1>1. /\ cache[n].phase # "live" /\ worker[n].todo = {} /\ (pool => late.pool)
      /\ GoneBehind(worker[n])
      /\ spent.faults = 0 => BridgesGone(worker[n], host[n])
  BY DEF Progress
<1>2. \A r : PrimaryBehind(worker[n], r) /\ SecondaryBehind(worker[n], r) /\ BridgesBehind(worker[n], r)
  BY <1>1 DEF PrimaryBehind, SecondaryBehind, BridgesBehind, Behind
<1> QED BY <1>1, <1>2 DEF GoneBehind, BridgesGone, Spotless

\* The object goes when a deletion has finished, or was never touched.
LEMMA GoesCleanly ==
    ASSUME TypeInv, DeletionInv, [Next]_vars, rpc.phase # "gone", rpc'.phase = "gone"
    PROVE  (pool' => late'.pool) /\ \A r \in Present(rpc'.rails) : Spotless(r)'
<1>t. TypeOK /\ rpc \in Object
  BY DEF TypeInv, TypeOK
<1>d. Untouched /\ \A n \in Nodes : Progress(n)
  BY DEF DeletionInv
<1>1. CASE DeleteObject
  <2>1. rpc.phase = "live" /\ ~rpc.fin /\ rpc' = Removed(rpc)
    <3>1. [rpc EXCEPT !.phase = "deleting", !.gen = @ + 1].phase = "deleting"
      BY <1>t DEF Object
    <3> QED BY <1>1, <3>1 DEF DeleteObject
  <2>2. ~pool /\ \A r \in Rails : api[r] = NoObjects
    BY <2>1, <1>d DEF Untouched
  <2>3. pool' = pool /\ api' = api
    BY <1>1 DEF DeleteObject
  <2> QED BY <2>2, <2>3 DEF Spotless, NoPrimary, NoSecondary, NoNetwork, NoObjects, Present
<1>2. ASSUME NEW n \in Nodes, RemoveFinalizer(n) \/ DeletionFails(n)
      PROVE  (pool' => late'.pool) /\ \A r \in Present(rpc'.rails) : Spotless(r)'
  <2>1. worker[n].pc = "finalizer" /\ rpc' = Removed(rpc) /\ UNCHANGED <<pool, api, late>>
    BY <1>2 DEF RemoveFinalizer, DeletionFails
  <2>2. rpc'.rails = rpc.rails
    BY <2>1, <1>t, RemovedFields
  <2>3. (pool => late.pool) /\ \A r \in Present(rpc.rails) : Spotless(r)
    BY <2>1, <1>d, AllBehind
  <2> QED BY <2>1, <2>2, <2>3 DEF Spotless, NoPrimary, NoSecondary, NoNetwork, Present
<1>3. ASSUME NEW n \in Nodes, Step(n) \/ Failure(n) \/ Delivery(n) \/ SwitchMode(n)
      PROVE  RemoveFinalizer(n) \/ DeletionFails(n)
  <2>1. ~AddFinalizer(n)
    BY <1>t DEF AddFinalizer, Object
  <2>2. rpc' # rpc
    OBVIOUS
  <2>3. CASE Step(n)
    BY <2>1, <2>2, <2>3 DEF Step, Start, ApplyPrimary, ApplySecondary, ApplyNetwork, WireRail, ListRemoved,
       CleanBridges, DropPrimary, DropSecondary, DropNetwork, Finish, DeletePool
  <2>4. CASE Failure(n)
    BY <2>2, <2>4 DEF Failure, ApplyFails, WireFails, ListFails, CleanBridgesFails, DropFails, Reboot
  <2>5. ~(Delivery(n) \/ SwitchMode(n))
    BY <2>2 DEF Delivery, CacheSync, ViewSync, Publish, SwitchMode
  <2> QED BY <1>3, <2>3, <2>4, <2>5
<1>4. ~EditSpec
  <2> SUFFICES ASSUME EditSpec PROVE FALSE
    OBVIOUS
  <2>1. PICK r \in Rails, k \in Kinds : rpc' = [rpc EXCEPT !.gen = @ + 1, !.rails[r] = k]
    BY DEF EditSpec
  <2>2. rpc'.phase = rpc.phase
    BY <2>1, <1>t DEF Object
  <2> QED BY <2>2
<1>5. ~UNCHANGED vars
  BY DEF vars
<1> QED BY <1>1, <1>2, <1>3, <1>4, <1>5 DEF Next

\* A node that removes the finalizer is settled, if there was no failure ...
LEMMA FinalizerSettles ==
    ASSUME TypeInv, DeletionInv, NEW n \in Nodes, RemoveFinalizer(n), spent.faults = 0
    PROVE  Settled(n)'
<1>t. rpc \in Object /\ worker \in [Nodes -> Worker]
  BY DEF TypeInv, TypeOK
<1>1. cache[n].phase # "live" /\ host[n].bridges \cap Multi(rpc.rails) = {}
  BY AllBehind DEF DeletionInv, RemoveFinalizer
<1>2. rpc'.rails = rpc.rails /\ host' = host /\ cache' = cache
  BY <1>t, RemovedFields DEF RemoveFinalizer
<1>3. worker'[n].pc = "idle"
  BY <1>t DEF RemoveFinalizer, SetWorker, IdleWorker
<1> QED BY <1>1, <1>2, <1>3 DEF Settled, Multi, Applying

\* ... and the object is gone.
LEMMA ClosedStep ==
    ASSUME TypeInv, [Next]_vars
    PROVE  closed' = closed \/ \E n \in Nodes : RemoveFinalizer(n) /\ closed' = closed \cup {n} /\ rpc'.phase = "gone"
<1>t. rpc \in Object
  BY DEF TypeInv, TypeOK
<1>1. ASSUME NEW n \in Nodes, RemoveFinalizer(n) PROVE closed' = closed \cup {n} /\ rpc'.phase = "gone"
  BY <1>1, <1>t, RemovedFields DEF RemoveFinalizer
<1>2. ASSUME NEW n \in Nodes, Step(n), ~RemoveFinalizer(n) PROVE closed' = closed
  BY <1>2 DEF Step, AddFinalizer, Start, ApplyPrimary, ApplySecondary, ApplyNetwork, WireRail, ListRemoved,
     CleanBridges, DropPrimary, DropSecondary, DropNetwork, Finish, DeletePool
<1>3. ASSUME NEW n \in Nodes, Failure(n) PROVE closed' = closed
  BY <1>3 DEF Failure, ApplyFails, WireFails, ListFails, CleanBridgesFails, DropFails, DeletionFails, Reboot
<1>4. ASSUME NEW n \in Nodes, Delivery(n) \/ SwitchMode(n) PROVE closed' = closed
  BY <1>4 DEF Delivery, CacheSync, ViewSync, Publish, SwitchMode
<1>5. CASE EditSpec \/ DeleteObject \/ UNCHANGED vars
  BY <1>5 DEF EditSpec, DeleteObject, vars
<1> QED BY <1>1, <1>2, <1>3, <1>4, <1>5 DEF Next

\* What is left is settled.
LEMMA LeftStep ==
    ASSUME TypeInv, DeletionInv, [Next]_vars
    PROVE  Left'
<1>d. Left /\ \A n \in Nodes : Progress(n)
  BY DEF DeletionInv
<1>t. closed \subseteq Nodes
  BY DEF TypeInv, TypeOK
<1>1. closed' # {} => rpc'.phase = "gone"
  BY <1>d, ClosedStep, ObjectStep DEF Left
<1>2. ASSUME rpc'.phase = "gone"
      PROVE  (pool' => late'.pool) /\ \A r \in Present(rpc'.rails) : Spotless(r)'
  <2>1. CASE rpc.phase # "gone"
    BY <1>2, <2>1, GoesCleanly
  <2>2. CASE rpc.phase = "gone"
    <3>1. (pool => late.pool) /\ \A r \in Present(rpc.rails) : Spotless(r)
      BY <2>2, <1>d DEF Left
    <3>2. rpc'.rails = rpc.rails
      BY <2>2, <1>d, ObjectStep
    <3>3. pool' => late'.pool
      BY <2>2, <3>1, PoolStep
    <3>4. ASSUME NEW r \in Present(rpc.rails) PROVE Spotless(r)'
      <4>1. r \in Rails
        BY DEF Present
      <4> QED BY <2>2, <3>1, <4>1, PartsStep DEF Spotless
    <3> QED BY <3>2, <3>3, <3>4
  <2> QED BY <2>1, <2>2
<1>3. ASSUME spent'.faults = 0, NEW n \in closed' PROVE Settled(n)'
  <2>1. spent.faults = 0
    BY <1>3, FaultsStep
  <2>2. CASE n \in closed
    <3>1. rpc.phase = "gone" /\ Settled(n)
      BY <2>1, <2>2, <1>d DEF Left
    <3> QED BY <3>1, <2>2, <1>t, <1>d, SettledStep
  <2>3. CASE n \notin closed
    <3>1. n \in Nodes /\ RemoveFinalizer(n)
      BY <1>3, <2>3, ClosedStep
    <3> QED BY <3>1, <2>1, FinalizerSettles
  <2> QED BY <2>2, <2>3
<1> QED BY <1>1, <1>2, <1>3 DEF Left, Present, Spotless, NoPrimary, NoSecondary, NoNetwork

-----------------------------------------------------------------------------

\* Nothing has been deleted initially, or applied.
LEMMA DeletionInit == Init => DeletionInv
<1> SUFFICES ASSUME Init PROVE DeletionInv
  OBVIOUS
<1>1. rpc.phase = "live" /\ ~rpc.fin /\ closed = {}
  BY DEF Init
<1>2. Untouched
  BY DEF Init, Untouched, IdleWorker, Gone
<1>3. HeardLast
  BY DEF Init, HeardLast, Gone
<1>4. \A n \in Nodes : Progress(n)
  BY DEF Init, Progress, IdleWorker
<1>5. Left
  BY <1>1 DEF Left
<1> QED BY <1>2, <1>3, <1>4, <1>5 DEF DeletionInv

\* Every step keeps the invariant.
LEMMA DeletionNext == TypeInv /\ DeletionInv /\ [Next]_vars => DeletionInv'
<1> SUFFICES ASSUME TypeInv, DeletionInv, [Next]_vars PROVE DeletionInv'
  OBVIOUS
<1>1. Untouched /\ HeardLast /\ (\A n \in Nodes : Progress(n)) /\ Left
  BY DEF DeletionInv
<1>2. Untouched' /\ HeardLast'
  BY <1>1, UntouchedStep, HeardLastStep
<1>3. \A n \in Nodes : Progress(n)'
  BY <1>1, ProgressNext
<1>4. Left'
  BY LeftStep
<1> QED BY <1>2, <1>3, <1>4 DEF DeletionInv

\* A deletion leaves nothing of the last spec behind, for any number of nodes,
\* rails and PFs and any edits, failures and reboots: no policy, OVSNetwork or
\* pool config but what a reconcile that had not heard of the deletion applied
\* meanwhile, and, unless a failure was only logged, no bridge of the rails on
\* any node that tore everything down and removed the finalizer (handleDeletion).
THEOREM DeletionCleans == Spec => []DeletionCleansSpec
<1>1. Init => TypeInv /\ Inv /\ DeletionInv
  BY InvInit, TypeInit, DeletionInit
<1>2. (TypeInv /\ Inv /\ DeletionInv) /\ [Next]_vars => (TypeInv /\ Inv /\ DeletionInv)'
  BY InvNext, TypeNext, DeletionNext
<1>3. TypeInv /\ DeletionInv => DeletionCleansSpec
  <2> SUFFICES ASSUME TypeInv, Left, rpc.phase = "gone" PROVE DeletionCleansSpec
    BY DEF DeletionInv, DeletionCleansSpec
  <2>1. ASSUME NEW r \in Present(rpc.rails) PROVE api[r] = NoObjects \/ r \in late.rails
    <3>1. Spotless(r)
      BY <2>1 DEF Left
    <3>2. r \in Rails /\ api[r] \in RailObjects
      BY DEF Present, TypeInv, TypeOK
    <3> QED BY <3>1, <3>2 DEF Spotless, NoPrimary, NoSecondary, NoNetwork, NoObjects, RailObjects
  <2> QED BY <2>1 DEF Left, DeletionCleansSpec, Settled
<1> QED BY <1>1, <1>2, <1>3, PTL DEF Spec
=============================================================================
