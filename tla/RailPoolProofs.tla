--------------------------- MODULE RailPoolProofs ---------------------------
(***************************************************************************)
(* Open vSwitch starts safely on every host, for any nodes, rails, PFs,    *)
(* edits and bounds (proved about RailPool).                               *)
(***************************************************************************)
EXTENDS RailPool, TLAPS

-----------------------------------------------------------------------------
(* Commands on one host. *)

\* A host on which a start of ovs-vswitchd is protected if it needs to be.
Safe(h) == h \in Host /\ (h.uplinks # {} => h.hook = "installed")

\* Installing the hook protects any host.
LEMMA HookedSafe == ASSUME NEW h \in Host PROVE Safe(Hooked(h)) /\ Hooked(h).hook = "installed"
BY DEF Safe, Hooked, Host, Hooks

\* An installation cut short does not take protection away.
LEMMA HookErrorSafe == ASSUME NEW h, Safe(h), NEW g \in HookError(h) PROVE Safe(g)
BY DEF Safe, HookError, Host, Hooks

\* Bridges are created under the protection of the hook, in part or whole.
LEMMA WireSafe ==
    ASSUME NEW h, Safe(h), h.hook = "installed", NEW r \in Rails,
           NEW U \in SUBSET (Rails \X PFs), NEW P \in SUBSET Rails
    PROVE  Safe(Wire(h, r, U, P))
BY DEF Safe, Wire, Host, Hooks

\* The uplinks of a rail are uplinks.
LEMMA UplinksType == ASSUME NEW r \in Rails PROVE Uplinks(r) \in SUBSET (Rails \X PFs)
BY DEF Uplinks

\* So are bridges some of whose ports could not be added ...
LEMMA WireLoggedSafe ==
    ASSUME NEW h, Safe(h), h.hook = "installed", NEW r \in Rails, NEW g \in WireLogged(h, r)
    PROVE  Safe(g)
<1>1. PICK U \in SUBSET Uplinks(r), P \in SUBSET {r} : g = Wire(h, r, U, P)
  BY DEF WireLogged
<1> QED BY <1>1, UplinksType, WireSafe

\* ... and bridges whose creation ended with an error.
LEMMA WireErrorSafe ==
    ASSUME NEW h, Safe(h), h.hook = "installed", NEW r \in Rails, NEW g \in WireError(h, r)
    PROVE  Safe(g)
<1>1. CASE g = h
  BY <1>1
<1>2. CASE g = [h EXCEPT !.xplane = TRUE]
  BY <1>2 DEF Safe, Host
<1>3. CASE g \in WireLogged(h, r)
  BY <1>3, WireLoggedSafe
<1> QED BY <1>1, <1>2, <1>3 DEF WireError

\* Deleting bridges takes uplinks away and leaves the hook.
LEMMA CleanupSafe ==
    ASSUME NEW h, Safe(h), NEW r \in Rails
    PROVE  Safe(DelRail(h, r)) /\ Safe(DelXplane(h)) /\ Safe(Cleanup(h, r))
<1>1. ASSUME NEW g, Safe(g) PROVE Safe(DelRail(g, r)) /\ Safe(DelXplane(g))
  BY <1>1 DEF Safe, DelRail, DelXplane, Host, Hooks
<1> QED BY <1>1 DEF Cleanup

\* The safe-start script leaves no uplink, and nothing is lost without it.
LEMMA SafeStartSafe ==
    ASSUME NEW h, Safe(h) PROVE Safe(SafeStart(h)) /\ SafeStart(h).uplinks = {}
BY DEF Safe, SafeStart, Host, Hooks

-----------------------------------------------------------------------------
(* configureXPlane on a protected host. *)

\* Whatever way configureXPlane ends, the host is protected.
LEMMA ConfigureSafe ==
    ASSUME NEW n \in Nodes, NEW r \in Rails, Safe(host[n]),
           NEW h \in ConfigureXPlane(n, r) \cup ConfigureXPlaneLogged(n, r) \cup ConfigureXPlaneError(n, r)
    PROVE  Safe(h)
<1> DEFINE g == Hooked(host[n])
<1>1. Safe(g) /\ g.hook = "installed"
  BY HookedSafe DEF Safe
<1>2. CASE h \in ConfigureXPlane(n, r)
  <2>1. {r} \in SUBSET Rails
    OBVIOUS
  <2> QED BY <2>1, <1>1, <1>2, UplinksType, WireSafe DEF ConfigureXPlane
<1>3. CASE h \in ConfigureXPlaneLogged(n, r)
  BY <1>1, <1>3, WireLoggedSafe DEF ConfigureXPlaneLogged
<1>4. CASE h \in ConfigureXPlaneError(n, r)
  BY <1>1, <1>4, HookErrorSafe, WireErrorSafe DEF ConfigureXPlaneError
<1> QED BY <1>2, <1>3, <1>4

-----------------------------------------------------------------------------
(* Reconciles. *)

\* The calls at which a reconcile has a rail in hand that it applies, or cleans up.
Applying == {"secondary", "network", "wire"}
Dropping == {"dropPrimary", "dropSecondary", "dropNetwork"}

\* The rail in hand is one of those left, and these, as long as rails are
\* applied, are in the snapshot.
InHand(w) ==
    /\ w.pc \in Applying \cup Dropping => w.rail \in w.todo
    /\ w.pc \in Applying \cup {"rails"} => w.todo \subseteq Present(w.rails)

Working(w) == w \in Worker /\ InHand(w)

\* Everything has its type, and reconciles work on rails.
TypeInv == TypeOK /\ \A n \in Nodes : InHand(worker[n])

LEMMA IdleWorking == Working(IdleWorker)
BY DEF Working, InHand, Applying, Dropping, IdleWorker, Worker, Calls, Gone, Kinds

\* A step that replaces one reconcile by one that works on rails.
LEMMA WorkerType ==
    ASSUME TypeInv, NEW n \in Nodes, NEW w, Working(w), SetWorker(n, w)
    PROVE  worker' \in [Nodes -> Worker] /\ \A m \in Nodes : InHand(worker'[m])
BY DEF TypeInv, TypeOK, SetWorker, Working

\* Every reconcile works on rails.
LEMMA AllWorking ==
    ASSUME TypeInv, NEW n \in Nodes
    PROVE  /\ Working(worker[n])
           /\ \A r \in worker[n].todo : r \in Rails
           /\ worker[n].pc \in Applying \cup Dropping => worker[n].rail \in Rails /\ worker[n].rail \in worker[n].todo
BY DEF TypeInv, TypeOK, Working, InHand, Worker

\* A rail is taken in hand ...
LEMMA TakeStep ==
    ASSUME TypeInv, NEW n \in Nodes, NEW r \in worker[n].todo, NEW pc, TakeRail(n, r, pc),
           (worker[n].pc = "rails" /\ pc \in Applying) \/ (worker[n].pc = "clean" /\ pc \in Dropping)
    PROVE  worker' \in [Nodes -> Worker] /\ \A m \in Nodes : InHand(worker'[m])
<1> DEFINE w == worker[n]
           v == [w EXCEPT !.pc = pc, !.rail = r]
<1>1. Working(w)
  BY AllWorking
<1>2. w \in Worker /\ r \in Rails /\ pc \in Calls
  BY <1>1 DEF Working, Worker, Applying, Dropping, Calls
<1>3. v \in Worker /\ v.pc = pc /\ v.rail = r /\ v.todo = w.todo /\ v.rails = w.rails
  BY <1>2 DEF Worker
<1>4. SetWorker(n, v)
  BY DEF TakeRail
<1> HIDE DEF v
<1>5. InHand(v)
  BY <1>1, <1>3 DEF Working, InHand, Applying, Dropping
<1>6. Working(v)
  BY <1>3, <1>5 DEF Working
<1> QED BY <1>4, <1>6, WorkerType

\* ... the next call is made for it, or all rails are done ...
LEMMA GoOnStep ==
    ASSUME TypeInv, NEW n \in Nodes, NEW pc, GoOn(n, pc),
           \/ worker[n].pc \in Applying /\ pc \in Applying
           \/ worker[n].pc \in Dropping /\ pc \in Dropping
           \/ pc = "finalizer"
    PROVE  worker' \in [Nodes -> Worker] /\ \A m \in Nodes : InHand(worker'[m])
<1> DEFINE w == worker[n]
           v == [w EXCEPT !.pc = pc]
<1>1. Working(w)
  BY AllWorking
<1>2. w \in Worker /\ pc \in Calls
  BY <1>1 DEF Working, Worker, Applying, Dropping, Calls
<1>3. v \in Worker /\ v.pc = pc /\ v.rail = w.rail /\ v.todo = w.todo /\ v.rails = w.rails
  BY <1>2 DEF Worker
<1>4. SetWorker(n, v)
  BY DEF GoOn
<1> HIDE DEF v
<1>5. InHand(v)
  BY <1>1, <1>3 DEF Working, InHand, Applying, Dropping
<1>6. Working(v)
  BY <1>3, <1>5 DEF Working
<1> QED BY <1>4, <1>6, WorkerType

\* ... and the rail is done.
LEMMA DoneStep ==
    ASSUME TypeInv, NEW n \in Nodes, NEW pc, RailDone(n, pc),
           (worker[n].pc \in Applying /\ pc = "rails") \/ (worker[n].pc \in Dropping /\ pc = "clean")
    PROVE  worker' \in [Nodes -> Worker] /\ \A m \in Nodes : InHand(worker'[m])
<1> DEFINE w == worker[n]
           v == [w EXCEPT !.pc = pc, !.todo = @ \ {w.rail}, !.rail = None]
<1>1. Working(w)
  BY AllWorking
<1>2. w \in Worker /\ pc \in Calls
  BY <1>1 DEF Working, Worker, Applying, Dropping, Calls
<1>3. v \in Worker /\ v.pc = pc /\ v.todo \subseteq w.todo /\ v.rails = w.rails
  BY <1>2 DEF Worker
<1>4. SetWorker(n, v)
  BY DEF RailDone
<1> HIDE DEF v
<1>5. InHand(v)
  BY <1>1, <1>3 DEF Working, InHand, Applying, Dropping
<1>6. Working(v)
  BY <1>3, <1>5 DEF Working
<1> QED BY <1>4, <1>6, WorkerType

\* What a step of node n does to its reconcile.
LEMMA WorkStep ==
    ASSUME TypeInv, NEW n \in Nodes, Step(n) \/ Failure(n)
    PROVE  worker' \in [Nodes -> Worker] /\ \A m \in Nodes : InHand(worker'[m])
<1>w. Working(worker[n])
  BY AllWorking
<1>a. ASSUME NEW w, Working(w), SetWorker(n, w)
      PROVE  worker' \in [Nodes -> Worker] /\ \A m \in Nodes : InHand(worker'[m])
  BY <1>a, WorkerType
<1>1. CASE AddFinalizer(n)
  BY <1>1 DEF AddFinalizer, TypeInv, TypeOK
<1>2. CASE Start(n)
  <2> DEFINE o == cache[n]
             del == o.phase = "deleting"
             w == [pc |-> IF del THEN "clean" ELSE "rails", deleting |-> del,
                   rails |-> o.rails, todo |-> Present(o.rails), rail |-> None,
                   xp |-> IF del THEN Multi(o.rails) ELSE {}]
  <2>1. SetWorker(n, w)
    BY <1>2 DEF Start
  <2>2. Present(o.rails) \in SUBSET Rails /\ Multi(o.rails) \in SUBSET Rails /\ o.rails \in [Rails -> Kinds]
    BY DEF TypeInv, TypeOK, Object, Present, Multi
  <2>3. w \in Worker /\ w.todo = Present(w.rails) /\ w.pc \in {"clean", "rails"}
    BY <2>2 DEF Worker, Calls
  <2> HIDE DEF w
  <2>4. Working(w)
    BY <2>3 DEF Working, InHand, Applying, Dropping
  <2> QED BY <2>1, <2>4, <1>a
<1>3. CASE ApplyPrimary(n)
  <2>1. PICK r \in worker[n].todo, pc \in {"secondary", "network"} : TakeRail(n, r, pc)
    BY <1>3 DEF ApplyPrimary
  <2>2. worker[n].pc = "rails" /\ pc \in Applying
    BY <1>3 DEF ApplyPrimary, Applying
  <2> QED BY <2>1, <2>2, TakeStep
<1>4. CASE ApplySecondary(n)
  BY <1>4, GoOnStep DEF ApplySecondary, Applying
<1>5. CASE ApplyNetwork(n)
  <2>1. worker[n].pc \in Applying /\ "wire" \in Applying
    BY <1>5 DEF ApplyNetwork, Applying
  <2>2. GoOn(n, "wire") \/ RailDone(n, "rails")
    BY <1>5 DEF ApplyNetwork
  <2> QED BY <2>1, <2>2, GoOnStep, DoneStep
<1>6. CASE WireRail(n)
  BY <1>6, DoneStep DEF WireRail, Applying
<1>7. CASE ListRemoved(n)
  <2>1. PICK T \in SUBSET Rails, X \in SUBSET Rails : SetWorker(n, [worker[n] EXCEPT !.pc = "clean", !.todo = T, !.xp = X])
    BY <1>7 DEF ListRemoved
  <2> DEFINE w == [worker[n] EXCEPT !.pc = "clean", !.todo = T, !.xp = X]
  <2>2. w \in Worker /\ w.pc = "clean"
    BY <1>w DEF Working, Worker, Calls
  <2>3. SetWorker(n, w)
    BY <2>1
  <2> HIDE DEF w
  <2>4. Working(w)
    BY <2>2 DEF Working, InHand, Applying, Dropping
  <2> QED BY <2>3, <2>4, <1>a
<1>8. CASE CleanBridges(n)
  <2>1. PICK r \in worker[n].todo : TakeRail(n, r, "dropPrimary")
    BY <1>8 DEF CleanBridges
  <2> QED BY <2>1, <1>8, TakeStep DEF CleanBridges, Dropping
<1>9. CASE DropPrimary(n) \/ DropSecondary(n)
  <2>1. PICK pc \in Dropping : worker[n].pc \in Dropping /\ GoOn(n, pc)
    BY <1>9 DEF DropPrimary, DropSecondary, Dropping
  <2> QED BY <2>1, GoOnStep
<1>10. CASE DropNetwork(n)
  BY <1>10, DoneStep DEF DropNetwork, Dropping
<1>11. CASE DeletePool(n)
  BY <1>11, GoOnStep DEF DeletePool
<1>12. CASE SetWorker(n, IdleWorker)
  BY <1>12, <1>a, IdleWorking
<1>13. CASE Finish(n) \/ RemoveFinalizer(n) \/ Failure(n)
  BY <1>12, <1>13 DEF Finish, RemoveFinalizer, Failure, ApplyFails, WireFails, ListFails,
                      CleanBridgesFails, DropFails, DeletionFails, Reboot
<1> QED BY <1>1, <1>2, <1>3, <1>4, <1>5, <1>6, <1>7, <1>8, <1>9, <1>10, <1>11, <1>13 DEF Step

-----------------------------------------------------------------------------
(* Hosts. *)

\* Hosts are protected, and nothing has happened.
Inv ==
    /\ host \in [Nodes -> Host]
    /\ \A n \in Nodes : Safe(host[n])
    /\ unsafe = {}

\* A step that leaves one host protected, and the others alone, is safe.
LEMMA HostStep ==
    ASSUME Inv, NEW n \in Nodes, NEW h, Safe(h), SetHost(n, h), unsafe' = unsafe
    PROVE  Inv'
BY DEF Inv, Safe, SetHost

\* Initially there is nothing on the hosts.
LEMMA InvInit == Init => Inv
<1> SUFFICES ASSUME Init PROVE Inv
  OBVIOUS
<1>1. Safe(BareHost)
  BY DEF Safe, BareHost, Host, Hooks
<1> QED BY <1>1 DEF Init, Inv, Safe

\* Every step of a reconcile keeps the hosts protected, every failure does, and
\* a reboot starts ovs-vswitchd without uplinks.
LEMMA InvStep == ASSUME TypeInv, Inv, NEW n \in Nodes, Step(n) \/ Failure(n) PROVE Inv'
<1>s. Safe(host[n])
  BY DEF Inv
<1>a. CASE UNCHANGED <<host, unsafe>>
  BY <1>a DEF Inv
<1>b. ASSUME NEW r \in Rails, unsafe' = unsafe,
             NEW h \in {host[n], Cleanup(host[n], r)} \cup CleanupLogged(host[n], r), SetHost(n, h)
      PROVE  Inv'
  <2>1. Safe(h)
    BY <1>b, <1>s, CleanupSafe DEF CleanupLogged
  <2> QED BY <1>b, <2>1, HostStep
<1>1. CASE WireRail(n) \/ WireFails(n)
  <2> DEFINE r == worker[n].rail
  <2>1. r \in Rails
    BY <1>1, AllWorking DEF WireRail, WireFails, Applying
  <2>2. PICK h \in ConfigureXPlane(n, r) \cup ConfigureXPlaneLogged(n, r) \cup ConfigureXPlaneError(n, r) :
          SetHost(n, h)
    BY <1>1 DEF WireRail, WireFails
  <2>3. Safe(h)
    BY <2>1, <1>s, ConfigureSafe
  <2> QED BY <2>2, <2>3, <1>1, HostStep DEF WireRail, WireFails
<1>2. CASE CleanBridges(n)
  <2>1. PICK r \in worker[n].todo :
          \E h \in {host[n], Cleanup(host[n], r)} \cup CleanupLogged(host[n], r) : SetHost(n, h)
    BY <1>2 DEF CleanBridges
  <2>2. r \in Rails /\ unsafe' = unsafe
    BY <1>2, AllWorking DEF CleanBridges
  <2> QED BY <2>1, <2>2, <1>b
<1>3. CASE CleanBridgesFails(n)
  <2>1. PICK r \in worker[n].todo :
          \E h \in {host[n], Cleanup(host[n], r)} \cup CleanupLogged(host[n], r) : SetHost(n, h)
    BY <1>3 DEF CleanBridgesFails
  <2>2. r \in Rails /\ unsafe' = unsafe
    BY <1>3, AllWorking DEF CleanBridgesFails
  <2> QED BY <2>1, <2>2, <1>b
<1>4. CASE Reboot(n)
  <2>1. Safe(SafeStart(host[n])) /\ unsafe' = unsafe
    BY <1>s, <1>4, SafeStartSafe DEF Reboot
  <2> QED BY <2>1, <1>4, HostStep DEF Reboot
<1>5. CASE AddFinalizer(n) \/ Start(n) \/ ApplyPrimary(n) \/ ApplySecondary(n) \/ ApplyNetwork(n)
  BY <1>5, <1>a DEF AddFinalizer, Start, ApplyPrimary, ApplySecondary, ApplyNetwork
<1>6. CASE \/ ListRemoved(n) \/ DropPrimary(n) \/ DropSecondary(n) \/ DropNetwork(n)
           \/ Finish(n) \/ DeletePool(n) \/ RemoveFinalizer(n)
  BY <1>6, <1>a DEF ListRemoved, DropPrimary, DropSecondary, DropNetwork, Finish, DeletePool, RemoveFinalizer
<1>7. CASE ApplyFails(n) \/ ListFails(n) \/ DropFails(n) \/ DeletionFails(n)
  BY <1>7, <1>a DEF ApplyFails, ListFails, DropFails, DeletionFails
<1> QED BY <1>1, <1>2, <1>3, <1>4, <1>5, <1>6, <1>7 DEF Step, Failure

\* No other step touches a host.
LEMMA InvNext == TypeInv /\ Inv /\ [Next]_vars => Inv'
<1> SUFFICES ASSUME TypeInv, Inv, [Next]_vars PROVE Inv'
  OBVIOUS
<1>1. ASSUME NEW n \in Nodes, Delivery(n) \/ SwitchMode(n) PROVE Inv'
  BY <1>1 DEF Delivery, CacheSync, ViewSync, Publish, SwitchMode, Inv
<1>2. CASE EditSpec \/ DeleteObject \/ UNCHANGED vars
  BY <1>2 DEF EditSpec, DeleteObject, vars, Inv
<1> QED BY <1>1, <1>2, InvStep DEF Next

-----------------------------------------------------------------------------
(* Types. *)

\* A counted fault.
LEMMA FaultType ==
    TypeOK /\ Fault => spent' \in [faults : Nat, reboots : Nat] /\ spent'.faults # 0
<1> SUFFICES ASSUME TypeOK, Fault PROVE spent' \in [faults : Nat, reboots : Nat] /\ spent'.faults # 0
  OBVIOUS
<1>1. spent.faults \in Nat /\ spent.reboots \in Nat /\ spent \in [faults : Nat, reboots : Nat]
  BY DEF TypeOK
<1>2. spent' = [spent EXCEPT !.faults = spent.faults + 1]
  BY DEF Fault
<1>3. spent.faults + 1 \in Nat /\ spent.faults + 1 # 0
  BY <1>1
<1> QED BY <1>1, <1>2, <1>3

\* The kind of rail a reconcile applies.
LEMMA KindType ==
    ASSUME TypeInv, NEW n \in Nodes, worker[n].pc = "rails", NEW r \in worker[n].todo
    PROVE  r \in Rails /\ worker[n].rails[r] \in {"single", "multi"}
<1>1. worker[n] \in Worker /\ InHand(worker[n])
  BY DEF TypeInv, TypeOK
<1> QED BY <1>1 DEF InHand, Present, Worker, Kinds

\* The calls that change the objects of a rail.
LEMMA PatchTypes ==
    ASSUME TypeOK, NEW r \in Rails, NEW kind \in {"none", "single", "multi"}
    PROVE  /\ PatchPrimary(r, kind) \in [Rails -> RailObjects]
           /\ PatchSecondary(r) \in [Rails -> RailObjects]
           /\ PatchNetwork(r) \in [Rails -> RailObjects]
           /\ DeletePrimary(r) \in [Rails -> RailObjects]
           /\ DeleteSecondary(r) \in [Rails -> RailObjects]
           /\ DeleteNetwork(r) \in [Rails -> RailObjects]
<1>1. api \in [Rails -> RailObjects] /\ api[r] \in RailObjects
  BY DEF TypeOK
<1>2. /\ [api[r] EXCEPT !.primary = kind] \in RailObjects
      /\ [api[r] EXCEPT !.primary = "none"] \in RailObjects
      /\ [api[r] EXCEPT !.secondary = TRUE] \in RailObjects
      /\ [api[r] EXCEPT !.secondary = FALSE] \in RailObjects
      /\ [api[r] EXCEPT !.network = TRUE] \in RailObjects
      /\ [api[r] EXCEPT !.network = FALSE] \in RailObjects
  BY <1>1 DEF RailObjects
<1>3. /\ PatchPrimary(r, kind) = [api EXCEPT ![r] = [api[r] EXCEPT !.primary = kind]]
      /\ PatchSecondary(r) = [api EXCEPT ![r] = [api[r] EXCEPT !.secondary = TRUE]]
      /\ PatchNetwork(r) = [api EXCEPT ![r] = [api[r] EXCEPT !.network = TRUE]]
      /\ DeletePrimary(r) = [api EXCEPT ![r] = [api[r] EXCEPT !.primary = "none"]]
      /\ DeleteSecondary(r) = [api EXCEPT ![r] = [api[r] EXCEPT !.secondary = FALSE]]
      /\ DeleteNetwork(r) = [api EXCEPT ![r] = [api[r] EXCEPT !.network = FALSE]]
  BY DEF PatchPrimary, PatchSecondary, PatchNetwork, DeletePrimary, DeleteSecondary, DeleteNetwork
<1> QED BY <1>1, <1>2, <1>3

\* Nothing in a cache, and an object that went, are objects.
LEMMA ObjectTypes ==
    /\ Gone \in Object
    /\ \A o \in Object : Removed(o) \in Object
BY DEF Gone, Removed, Object, Kinds

\* A rail that is applied late is a rail.
LEMMA LateType ==
    ASSUME TypeOK, NEW r \in Rails PROVE Late(r) \in [pool : BOOLEAN, rails : SUBSET Rails]
<1>1. late \in [pool : BOOLEAN, rails : SUBSET Rails]
  BY DEF TypeOK
<1>2. [late EXCEPT !.rails = @ \cup {r}] \in [pool : BOOLEAN, rails : SUBSET Rails]
  BY <1>1
<1> QED BY <1>1, <1>2 DEF Late

\* Initially everything has its type.
LEMMA TypeInit == Init => TypeInv
<1> SUFFICES ASSUME Init PROVE TypeInv
  OBVIOUS
<1>1. BareHost \in Host /\ NoObjects \in RailObjects
  BY DEF BareHost, Host, Hooks, NoObjects, RailObjects
<1>2. rpc \in Object
  BY DEF Init, Object, Kinds
<1>3. IdleWorker \in Worker /\ InHand(IdleWorker)
  BY IdleWorking DEF Working
<1>4. mode \in [Nodes -> Modes]
  BY DEF Init, Modes
<1>5. late \in [pool : BOOLEAN, rails : SUBSET Rails] /\ spent \in [faults : Nat, reboots : Nat]
  BY DEF Init
<1> QED BY <1>1, <1>2, <1>3, <1>4, <1>5, ObjectTypes DEF Init, TypeInv, TypeOK

\* What the steps of a reconcile, and its failures, do to the shared objects,
\* to what is recorded, and to the counts.
LEMMA SharedTypes ==
    ASSUME TypeInv, NEW n \in Nodes, Step(n) \/ Failure(n)
    PROVE  /\ rpc' \in Object /\ pool' \in BOOLEAN
           /\ api' \in [Rails -> RailObjects]
           /\ late' \in [pool : BOOLEAN, rails : SUBSET Rails]
           /\ spent' \in [faults : Nat, reboots : Nat]
<1>t. /\ TypeOK /\ rpc \in Object /\ pool \in BOOLEAN /\ api \in [Rails -> RailObjects]
      /\ late \in [pool : BOOLEAN, rails : SUBSET Rails]
      /\ spent \in [faults : Nat, reboots : Nat]
  BY DEF TypeInv, TypeOK
<1>f. Fault => spent' \in [faults : Nat, reboots : Nat]
  BY <1>t, FaultType
<1>r. worker[n].pc \in Applying \cup Dropping => worker[n].rail \in Rails
  BY AllWorking
<1>1. CASE AddFinalizer(n)
  <2>1. rpc' \in Object
    BY <1>t, <1>1 DEF AddFinalizer, Object
  <2> QED BY <1>1, <1>t, <2>1 DEF AddFinalizer
<1>2. CASE Start(n)
  <2>1. pool' \in BOOLEAN
    <3>1. pool' = (pool \/ ~(cache[n].phase = "deleting"))
      BY <1>2 DEF Start
    <3> QED BY <3>1
  <2>2. late' \in {late, [late EXCEPT !.pool = TRUE]}
    BY <1>2 DEF Start
  <2>3. late' \in [pool : BOOLEAN, rails : SUBSET Rails]
    BY <2>2, <1>t
  <2> QED BY <1>2, <1>t, <2>1, <2>3 DEF Start
<1>3. ASSUME NEW r \in Rails, NEW kind \in {"none", "single", "multi"}, late' \in {late, Late(r)},
             api' \in {api, PatchPrimary(r, kind), PatchSecondary(r), PatchNetwork(r),
                       DeletePrimary(r), DeleteSecondary(r), DeleteNetwork(r)}
      PROVE  api' \in [Rails -> RailObjects] /\ late' \in [pool : BOOLEAN, rails : SUBSET Rails]
  BY <1>3, <1>t, PatchTypes, LateType
<1>4. CASE ApplyPrimary(n) \/ (ApplyFails(n) /\ worker[n].pc = "rails")
  <2>1. worker[n].pc = "rails" /\ UNCHANGED <<rpc, pool>> /\ (Fault \/ UNCHANGED spent)
    BY <1>4 DEF ApplyPrimary, ApplyFails
  <2>2. PICK r \in worker[n].todo :
          late' = Late(r) /\ api' \in {api, PatchPrimary(r, worker[n].rails[r])}
    BY <1>4 DEF ApplyPrimary, ApplyFails
  <2>3. r \in Rails /\ worker[n].rails[r] \in {"none", "single", "multi"}
    BY <2>1, KindType
  <2> QED BY <2>1, <2>2, <2>3, <1>3, <1>f, <1>t
<1>5. CASE ApplySecondary(n) \/ ApplyNetwork(n) \/ (ApplyFails(n) /\ worker[n].pc # "rails")
  <2> DEFINE r == worker[n].rail
  <2>1. worker[n].pc \in Applying /\ UNCHANGED <<rpc, pool>> /\ (Fault \/ UNCHANGED spent)
    BY <1>5 DEF ApplySecondary, ApplyNetwork, ApplyFails, Applying
  <2>2. late' = Late(r) /\ api' \in {api, PatchSecondary(r), PatchNetwork(r)}
    BY <1>5 DEF ApplySecondary, ApplyNetwork, ApplyFails
  <2>3. r \in Rails
    BY <2>1, <1>r
  <2> QED BY <2>1, <2>2, <2>3, <1>3, <1>f, <1>t
<1>6. CASE DropPrimary(n) \/ DropSecondary(n) \/ DropNetwork(n) \/ DropFails(n)
  <2> DEFINE r == worker[n].rail
  <2>1. worker[n].pc \in Dropping /\ UNCHANGED <<rpc, pool>> /\ (Fault \/ UNCHANGED spent)
    BY <1>6 DEF DropPrimary, DropSecondary, DropNetwork, DropFails, Dropping
  <2>2. late' = late /\ api' \in {api, DeletePrimary(r), DeleteSecondary(r), DeleteNetwork(r)}
    BY <1>6 DEF DropPrimary, DropSecondary, DropNetwork, DropFails
  <2>3. r \in Rails
    BY <2>1, <1>r
  <2> QED BY <2>1, <2>2, <2>3, <1>3, <1>f, <1>t
<1>7. CASE /\ UNCHANGED <<api, late>> /\ rpc' \in {rpc, Removed(rpc)} /\ pool' \in {pool, FALSE}
           /\ Fault \/ UNCHANGED spent
  BY <1>7, <1>t, <1>f, ObjectTypes
<1>8. CASE WireRail(n) \/ ListRemoved(n) \/ CleanBridges(n) \/ Finish(n) \/ DeletePool(n) \/ RemoveFinalizer(n)
  BY <1>7, <1>8 DEF WireRail, ListRemoved, CleanBridges, Finish, DeletePool, RemoveFinalizer
<1>9. CASE WireFails(n) \/ ListFails(n) \/ CleanBridgesFails(n)
  BY <1>7, <1>9 DEF WireFails, ListFails, CleanBridgesFails
<1>10. CASE DeletionFails(n)
  <2>1. Fault /\ UNCHANGED <<api, late>>
    BY <1>10 DEF DeletionFails
  <2>2. rpc' \in {rpc, Removed(rpc)} /\ pool' \in {pool, FALSE}
    BY <1>10, Zenon DEF DeletionFails
  <2> QED BY <2>1, <2>2, <1>7
<1>11. CASE Reboot(n)
  <2>1. spent' = [spent EXCEPT !.reboots = spent.reboots + 1]
    BY <1>11 DEF Reboot
  <2>2. spent' \in [faults : Nat, reboots : Nat]
    <3>1. spent.reboots + 1 \in Nat
      BY <1>t
    <3> QED BY <2>1, <3>1, <1>t
  <2> QED BY <1>11, <2>2, <1>t DEF Reboot
<1> QED BY <1>1, <1>2, <1>4, <1>5, <1>6, <1>8, <1>9, <1>10, <1>11 DEF Step, Failure

\* The histories.
LEMMA HistoryTypes ==
    ASSUME TypeInv, NEW n \in Nodes, Step(n) \/ Failure(n)
    PROVE  /\ stuck' \in [Nodes -> SUBSET Rails]
           /\ unsafe' \subseteq Nodes /\ orphaned' \subseteq Rails /\ closed' \subseteq Nodes
<1>t. stuck \in [Nodes -> SUBSET Rails] /\ unsafe \subseteq Nodes /\ orphaned \subseteq Rails /\ closed \subseteq Nodes
  BY DEF TypeInv, TypeOK
<1>r. /\ worker[n].pc \in Applying \cup Dropping => worker[n].rail \in Rails
      /\ \A r \in worker[n].todo : r \in Rails
  BY AllWorking
<1>1. CASE UNCHANGED <<stuck, unsafe, orphaned, closed>>
  BY <1>1, <1>t
<1>2. CASE ApplyNetwork(n)
  <2>1. worker[n].rail \in Rails
    BY <1>2, <1>r DEF ApplyNetwork, Applying
  <2>2. orphaned' \in {orphaned, orphaned \cup {worker[n].rail}} /\ UNCHANGED <<stuck, unsafe, closed>>
    BY <1>2 DEF ApplyNetwork
  <2> QED BY <2>1, <2>2, <1>t
<1>3. CASE DropNetwork(n) \/ RemoveFinalizer(n)
  BY <1>3, <1>t DEF DropNetwork, RemoveFinalizer
<1>4. CASE CleanBridges(n)
  <2>1. PICK r \in worker[n].todo : stuck' \in {stuck, [stuck EXCEPT ![n] = @ \ {r}]}
    BY <1>4 DEF CleanBridges
  <2>2. stuck' \in [Nodes -> SUBSET Rails]
    BY <2>1, <1>t
  <2> QED BY <2>2, <1>4, <1>t DEF CleanBridges
<1>5. CASE CleanBridgesFails(n)
  <2>1. PICK r \in worker[n].todo : stuck' \in {[stuck EXCEPT ![n] = @ \cup {r}], [stuck EXCEPT ![n] = @ \ {r}]}
    BY <1>5 DEF CleanBridgesFails
  <2>2. stuck' \in [Nodes -> SUBSET Rails]
    BY <2>1, <1>r, <1>t
  <2> QED BY <2>2, <1>5, <1>t DEF CleanBridgesFails
<1>6. CASE Reboot(n)
  BY <1>6, <1>t DEF Reboot
<1>7. CASE \/ AddFinalizer(n) \/ Start(n) \/ ApplyPrimary(n) \/ ApplySecondary(n) \/ WireRail(n)
           \/ ListRemoved(n) \/ DropPrimary(n) \/ DropSecondary(n) \/ Finish(n) \/ DeletePool(n)
  BY <1>1, <1>7 DEF AddFinalizer, Start, ApplyPrimary, ApplySecondary, WireRail,
                    ListRemoved, DropPrimary, DropSecondary, Finish, DeletePool
<1>8. CASE ApplyFails(n) \/ WireFails(n) \/ ListFails(n) \/ DropFails(n) \/ DeletionFails(n)
  BY <1>1, <1>8 DEF ApplyFails, WireFails, ListFails, DropFails, DeletionFails
<1> QED BY <1>2, <1>3, <1>4, <1>5, <1>6, <1>7, <1>8 DEF Step, Failure

\* Caches and modes.
LEMMA CacheTypes ==
    ASSUME TypeInv, NEW n \in Nodes, Step(n) \/ Failure(n)
    PROVE  /\ cache' \in [Nodes -> Object] /\ view' \in [Nodes -> [Rails -> RailObjects]]
           /\ mode' \in [Nodes -> Modes] /\ seen' \in [Nodes -> Modes]
<1>t. /\ cache \in [Nodes -> Object] /\ view \in [Nodes -> [Rails -> RailObjects]]
      /\ mode \in [Nodes -> Modes] /\ seen \in [Nodes -> Modes]
      /\ rpc \in Object /\ api \in [Rails -> RailObjects]
  BY DEF TypeInv, TypeOK
<1>1. CASE Reboot(n)
  BY <1>1, <1>t DEF Reboot, Modes
<1>2. CASE ~Reboot(n)
  <2>1. UNCHANGED <<cache, view, mode, seen>>
    BY <1>2 DEF Step, AddFinalizer, Start, ApplyPrimary, ApplySecondary, ApplyNetwork, WireRail,
           ListRemoved, CleanBridges, DropPrimary, DropSecondary, DropNetwork, Finish, DeletePool,
           RemoveFinalizer, Failure, ApplyFails, WireFails, ListFails, CleanBridgesFails, DropFails,
           DeletionFails
  <2> QED BY <2>1, <1>t
<1> QED BY <1>1, <1>2

\* Every step keeps the types; that of hosts is taken from Inv.
LEMMA TypeNext == TypeInv /\ Inv' /\ [Next]_vars => TypeInv'
<1> SUFFICES ASSUME TypeInv, Inv', [Next]_vars PROVE TypeInv'
  OBVIOUS
<1>t. TypeOK /\ \A n \in Nodes : InHand(worker[n])
  BY DEF TypeInv
<1>0. ASSUME NEW n \in Nodes, Step(n) \/ Failure(n) PROVE TypeInv'
  <2>1. host' \in [Nodes -> Host]
    BY DEF Inv
  <2> QED BY <2>1, <1>0, WorkStep, SharedTypes, HistoryTypes, CacheTypes DEF TypeInv, TypeOK
<1>1. ASSUME NEW n \in Nodes, Delivery(n) PROVE TypeInv'
  <2>1. CASE CacheSync(n)
    BY <2>1, <1>t DEF CacheSync, TypeOK, TypeInv
  <2>2. CASE ViewSync(n)
    BY <2>2, <1>t DEF ViewSync, TypeOK, TypeInv
  <2>3. CASE Publish(n)
    BY <2>3, <1>t DEF Publish, TypeOK, TypeInv
  <2> QED BY <1>1, <2>1, <2>2, <2>3 DEF Delivery
<1>2. ASSUME NEW n \in Nodes, SwitchMode(n) PROVE TypeInv'
  BY <1>2, <1>t DEF SwitchMode, TypeOK, TypeInv, Modes
<1>3. CASE EditSpec
  <2>1. PICK r \in Rails, k \in Kinds : rpc' = [rpc EXCEPT !.gen = @ + 1, !.rails[r] = k]
    BY <1>3 DEF EditSpec
  <2>2. rpc' \in Object
    <3>1. rpc \in Object /\ rpc.gen + 1 \in Nat
      BY <1>t DEF TypeOK, Object
    <3>2. [rpc.rails EXCEPT ![r] = k] \in [Rails -> Kinds]
      BY <3>1 DEF Object
    <3> QED BY <3>1, <3>2, <2>1 DEF Object
  <2> QED BY <1>3, <1>t, <2>2 DEF EditSpec, TypeOK, TypeInv
<1>4. CASE DeleteObject
  <2>1. rpc' \in Object
    <3>1. rpc \in Object /\ rpc.gen + 1 \in Nat
      BY <1>t DEF TypeOK, Object
    <3>2. [rpc EXCEPT !.phase = "deleting", !.gen = @ + 1] \in Object
      BY <3>1 DEF Object
    <3> QED BY <1>4, <3>1, <3>2, ObjectTypes DEF DeleteObject
  <2> QED BY <1>4, <1>t, <2>1 DEF DeleteObject, TypeOK, TypeInv
<1>5. CASE UNCHANGED vars
  BY <1>5, <1>t DEF vars, TypeOK, TypeInv
<1> QED BY <1>1, <1>2, <1>3, <1>4, <1>5, <1>0 DEF Next

-----------------------------------------------------------------------------

\* Both invariants, of which neither is preserved without the other.
LEMMA BothInv == Spec => [](TypeInv /\ Inv)
<1>1. Init => TypeInv /\ Inv
  BY TypeInit, InvInit
<1>2. (TypeInv /\ Inv) /\ [Next]_vars => (TypeInv /\ Inv)'
  BY TypeNext, InvNext
<1> QED BY <1>1, <1>2, PTL DEF Spec

\* ovs-vswitchd never starts on an uplink whose PF has fallen back to legacy
\* mode, for any rails, hosts, edits, failures and reboots: configureXPlane
\* installs the safe-start hook before it creates the first bridge.
THEOREM StartsAreSafe == Spec => []SafeStarts
<1>1. Inv => SafeStarts
  BY DEF Inv, Safe, SafeStarts
<1> QED BY <1>1, BothInv, PTL

\* Rail topologies are type correct for any nodes, rails, PFs, edits and bounds:
\* in particular no rail that is absent from a reconcile's snapshot is applied,
\* and every call is made for a rail.
THEOREM TypeCorrect == Spec => []TypeOK
<1>1. TypeInv => TypeOK
  BY DEF TypeInv
<1> QED BY <1>1, BothInv, PTL
=============================================================================
