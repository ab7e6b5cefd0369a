--------------------------- MODULE VFStateFollower ---------------------------
(***************************************************************************)
(* The VF state follower of one node (vfstatefollower.Monitor).            *)
(*                                                                         *)
(* Once a second a goroutine lists the objects that select the node and,   *)
(* for each of their rail topologies, looks at the carrier of the PFs, one *)
(* after the other, then sets the representors of the VFs that are in pods *)
(* down if every PF is without carrier, and up otherwise.  Links, pods and *)
(* objects change between any two of its steps; whatever it cannot look up *)
(* or set is left to the next tick.                                        *)
(***************************************************************************)
EXTENDS Naturals

CONSTANTS
    PFs,          \* physical functions of the node
    VFs,          \* virtual functions, and their representors
    PfOf,         \* PfOf[v]: the PF of v
    Topologies,   \* rail topologies
    PfNames,      \* PfNames[t]: the PFs of topology t
    None,         \* no topology
    MaxChanges,   \* bound: changes of carrier, pods and objects
    MaxFaults     \* bound: failed lookups and settings

ASSUME FollowerAssumption ==
    /\ PfOf \in [VFs -> PFs]
    /\ PfNames \in [Topologies -> (SUBSET PFs) \ {{}}]
    /\ None \notin Topologies
    /\ MaxChanges \in Nat /\ MaxFaults \in Nat

VARIABLES
    carrier,  \* the PFs with carrier
    inPod,    \* the VFs in pods, that is, not in the host's network namespace
    up,       \* the representors that are admin-up
    conf,     \* conf[t]: "absent" if no object that selects the node has t;
              \* else whether vfStateFollow is on
    pc,       \* where the goroutine is
    tick,     \* what it has read in this tick
    dark,     \* history: PFs seen without carrier, by anybody, since the check
              \* of the current topology began
    steady,   \* history: since then no carrier and no pod has changed and no
              \* call has failed
    spent     \* changes and faults so far

vars == <<carrier, inPod, up, conf, pc, tick, dark, steady, spent>>

Confs == {"absent", "on", "off"}

Answers == {"yes", "no"}

\* conf is the list of objects it works through, topos the topologies left,
\* current the one in work; pfs and reps are what is left of it, allDown is
\* the result of allPFsNoCarrier.
Ticks == [conf : [Topologies -> Confs], topos : SUBSET Topologies, current : Topologies \cup {None},
          pfs : SUBSET PFs, reps : SUBSET VFs, allDown : Answers]

Init ==
    /\ carrier \in SUBSET PFs
    /\ inPod \in SUBSET VFs
    /\ up = VFs
    /\ conf \in [Topologies -> Confs]
    /\ pc = "wait"
    /\ tick = [conf |-> conf, topos |-> {}, current |-> None, pfs |-> {}, reps |-> {}, allDown |-> "no"]
    /\ dark = PFs \ carrier
    /\ steady = "no"
    /\ spent = [changes |-> 0, faults |-> 0]

Fault == spent.faults < MaxFaults /\ spent' = [spent EXCEPT !.faults = @ + 1] /\ steady' = "no"

-----------------------------------------------------------------------------
(* The goroutine. *)

\* Variant: objects that do not follow are passed over.
ListOn ==
    /\ pc = "wait"
    /\ tick' = [tick EXCEPT !.conf = conf, !.topos = {t \in Topologies : conf[t] = "on"}]
    /\ pc' = "next"
    /\ UNCHANGED <<carrier, inPod, up, conf, dark, steady, spent>>

\* tick lists the objects whose nodeSelector matches the node.
List ==
    /\ pc = "wait"
    /\ tick' = [tick EXCEPT !.conf = conf, !.topos = {t \in Topologies : conf[t] # "absent"}]
    /\ pc' = "next"
    /\ UNCHANGED <<carrier, inPod, up, conf, dark, steady, spent>>

\* Variant: the topology in work is not kept.
BeginNone ==
    /\ pc = "next"
    /\ \E t \in tick.topos :
         /\ tick' = [tick EXCEPT !.topos = @ \ {t}, !.pfs = PfNames[t], !.allDown = "no"]
         /\ pc' = IF tick.conf[t] = "on" THEN "check" ELSE "pfs"
    /\ dark' = PFs \ carrier
    /\ steady' = "yes"
    /\ UNCHANGED <<carrier, inPod, up, conf, spent>>

\* The next topology: its carrier is looked at only when following is on.
Begin ==
    /\ pc = "next"
    /\ \E t \in tick.topos :
         /\ tick' = [tick EXCEPT !.topos = @ \ {t}, !.current = t, !.pfs = PfNames[t], !.allDown = "no"]
         /\ pc' = IF tick.conf[t] = "on" THEN "check" ELSE "pfs"
    /\ dark' = PFs \ carrier
    /\ steady' = "yes"
    /\ UNCHANGED <<carrier, inPod, up, conf, spent>>

\* Variant: one PF without carrier is enough.
CheckAnyPF ==
    /\ pc = "check"
    /\ \E p \in tick.pfs :
         IF p \in carrier /\ tick.pfs # {p}
         THEN tick' = [tick EXCEPT !.pfs = @ \ {p}] /\ pc' = pc
         ELSE /\ tick' = [tick EXCEPT !.pfs = PfNames[tick.current], !.allDown = IF p \in carrier THEN "no" ELSE "yes"]
              /\ pc' = "pfs"
    /\ UNCHANGED <<carrier, inPod, up, conf, dark, steady, spent>>

\* allPFsNoCarrier looks at one PF: a carrier ends the check.
CheckPF ==
    /\ pc = "check"
    /\ \E p \in tick.pfs :
         IF p \notin carrier /\ tick.pfs # {p}
         THEN tick' = [tick EXCEPT !.pfs = @ \ {p}] /\ pc' = pc
         ELSE /\ tick' = [tick EXCEPT !.pfs = PfNames[tick.current], !.allDown = IF p \in carrier THEN "no" ELSE "yes"]
              /\ pc' = "pfs"
    /\ UNCHANGED <<carrier, inPod, up, conf, dark, steady, spent>>

\* A PF is not found: the topology is passed over in this tick.
CheckFails ==
    /\ pc = "check"
    /\ Fault
    /\ pc' = "next"
    /\ UNCHANGED <<carrier, inPod, up, conf, tick, dark>>

\* activeRepsForPF: the representors of the VFs that the host does not see.  Of a
\* PF or representor that cannot be looked up there is none; a VF whose own lookup
\* failed has no name and is taken for one in a pod.
ListReps ==
    /\ pc = "pfs"
    /\ \E p \in tick.pfs :
         LET vfs    == {v \in VFs : PfOf[v] = p}
             active == vfs \cap inPod
         IN  \/ /\ tick' = [tick EXCEPT !.pfs = @ \ {p}, !.reps = active]
                /\ UNCHANGED <<steady, spent>>
             \/ /\ Fault
                /\ \E found \in SUBSET vfs :
                     tick' = [tick EXCEPT !.pfs = @ \ {p}, !.reps = found]
    /\ pc' = "reps"
    /\ UNCHANGED <<carrier, inPod, up, conf, dark>>

\* Variant: representors are set down, and left to the pod's CNI to come up.
SetRepDown ==
    /\ pc = "reps"
    /\ \E v \in tick.reps :
         /\ tick' = [tick EXCEPT !.reps = @ \ {v}]
         /\ up' = IF tick.allDown = "yes" THEN up \ {v} ELSE up
    /\ UNCHANGED <<carrier, inPod, conf, pc, dark, steady, spent>>

\* One representor is set down or up, unless it is already.
SetRep ==
    /\ pc = "reps"
    /\ \E v \in tick.reps :
         /\ tick' = [tick EXCEPT !.reps = @ \ {v}]
         /\ up' = IF tick.allDown = "yes" THEN up \ {v} ELSE up \cup {v}
    /\ UNCHANGED <<carrier, inPod, conf, pc, dark, steady, spent>>

\* It cannot be looked up or set: on to the next one.
SetRepFails ==
    /\ pc = "reps"
    /\ Fault
    /\ \E v \in tick.reps : tick' = [tick EXCEPT !.reps = @ \ {v}]
    /\ UNCHANGED <<carrier, inPod, up, conf, pc, dark>>

RepsDone ==
    /\ pc = "reps" /\ tick.reps = {}
    /\ pc' = "pfs"
    /\ UNCHANGED <<carrier, inPod, up, conf, tick, dark, steady, spent>>

PFsDone ==
    /\ pc = "pfs" /\ tick.pfs = {}
    /\ pc' = "next"
    /\ UNCHANGED <<carrier, inPod, up, conf, tick, dark, steady, spent>>

TickDone ==
    /\ pc = "next" /\ tick.topos = {}
    /\ pc' = "wait"
    /\ UNCHANGED <<carrier, inPod, up, conf, tick, dark, steady, spent>>

-----------------------------------------------------------------------------
(* Links, pods and users. *)

Change == spent.changes < MaxChanges /\ spent' = [spent EXCEPT !.changes = @ + 1]

CarrierChange ==
    /\ Change
    /\ \E p \in PFs :
         \/ p \in carrier /\ carrier' = carrier \ {p} /\ dark' = dark \cup {p}
         \/ p \notin carrier /\ carrier' = carrier \cup {p} /\ dark' = dark
    /\ steady' = "no"
    /\ UNCHANGED <<inPod, up, conf, pc, tick>>

\* A VF is moved into a pod, or comes back to the host.
PodChange ==
    /\ Change
    /\ \E v \in VFs : inPod' = IF v \in inPod THEN inPod \ {v} ELSE inPod \cup {v}
    /\ steady' = "no"
    /\ UNCHANGED <<carrier, up, conf, pc, tick, dark>>

\* A topology is added or removed, vfStateFollow is edited, or the node enters
\* or leaves the object's pool.
ConfChange ==
    /\ Change
    /\ \E t \in Topologies, c \in Confs : conf' = [conf EXCEPT ![t] = c]
    /\ UNCHANGED <<carrier, inPod, up, pc, tick, dark, steady>>

-----------------------------------------------------------------------------
Work == List \/ Begin \/ CheckPF \/ ListReps \/ SetRep \/ RepsDone \/ PFsDone \/ TickDone

Next ==
    \/ Work \/ CheckFails \/ SetRepFails
    \/ CarrierChange \/ PodChange \/ ConfChange

Spec == Init /\ [][Next]_vars

\* The ticker ticks and a tick ends.
FairSpec == Spec /\ WF_vars(Work)

-----------------------------------------------------------------------------
(* Properties. *)

TypeOK ==
    /\ carrier \subseteq PFs
    /\ inPod \subseteq VFs
    /\ up \subseteq VFs
    /\ conf \in [Topologies -> Confs]
    /\ pc \in {"wait", "next", "check", "pfs", "reps"}
    /\ tick \in Ticks
    /\ pc \in {"check", "pfs", "reps"} => tick.current \in Topologies
    /\ dark \subseteq PFs
    /\ steady \in Answers
    /\ spent \in [changes : Nat, faults : Nat]

\* A representor is set down only if every PF of a topology that has its PF was
\* without carrier at some moment since that topology's check began, although
\* the PFs are looked at one by one and the result is used later.
DownIsEarned ==
    [][\A v \in up \ up' :
          \E t \in Topologies : PfOf[v] \in PfNames[t] /\ PfNames[t] \subseteq dark]_vars

\* Topology t asks for its representors to be down.
WantsDown(c, t) == c[t] = "on" /\ PfNames[t] \cap carrier = {}

\* One pass is enough: a topology whose PFs, pods and calls kept steady during
\* its turn leaves every representor of a VF in a pod as its carrier asks.
OnePassFollows ==
    pc = "pfs" /\ tick.pfs = {} /\ steady = "yes" =>
        \A v \in inPod : PfOf[v] \in PfNames[tick.current] =>
            (v \in up <=> ~WantsDown(tick.conf, tick.current))

\* The representor of v is as its topology asks, if v is in a pod and has one.
Followed(v) ==
    \A t \in Topologies :
        v \in inPod /\ conf[t] # "absent" /\ PfOf[v] \in PfNames[t]
            => (v \in up <=> ~WantsDown(conf, t))

\* Pods end up with the link state of their PFs, whenever links, pods and objects
\* have settled and whatever failed before: nothing is forgotten between ticks.
\* Representors of VFs that are back on the host, or that no object covers any
\* more, keep the state they had.
PodLinksFollow == \A v \in VFs : <>[]Followed(v)
=============================================================================
