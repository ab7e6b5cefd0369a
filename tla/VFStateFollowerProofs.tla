----------------------- MODULE VFStateFollowerProofs ------------------------
(***************************************************************************)
(* What the VF state follower does in one pass, for any PFs, VFs and       *)
(* topologies, and any number of changes and failures.                     *)
(***************************************************************************)
EXTENDS VFStateFollower, TLAPS

LEMMA InitType == Init => TypeOK
BY DEF Init, TypeOK, Ticks, Answers, Confs

LEMMA FaultType ==
    TypeOK /\ Fault => steady' \in Answers /\ spent' \in [changes : Nat, faults : Nat]
BY FollowerAssumption DEF TypeOK, Fault, Answers

LEMMA StepType == TypeOK /\ [Next]_vars => TypeOK'
<1> SUFFICES ASSUME TypeOK, [Next]_vars PROVE TypeOK'
  OBVIOUS
<1> USE FollowerAssumption DEF TypeOK, Ticks, Answers
<1>1. CASE List
  BY <1>1 DEF List
<1>2. CASE Begin
  <2> PICK t \in tick.topos :
        /\ tick' = [tick EXCEPT !.topos = @ \ {t}, !.current = t, !.pfs = PfNames[t], !.allDown = "no"]
        /\ pc' = IF tick.conf[t] = "on" THEN "check" ELSE "pfs"
    BY <1>2 DEF Begin
  <2>1. t \in Topologies /\ PfNames[t] \in SUBSET PFs
    OBVIOUS
  <2>2. tick' \in Ticks /\ tick'.current = t
    BY <2>1
  <2> QED
    BY <1>2, <2>1, <2>2 DEF Begin
<1>3. CASE CheckPF
  <2> PICK p \in tick.pfs :
        IF p \notin carrier /\ tick.pfs # {p}
        THEN tick' = [tick EXCEPT !.pfs = @ \ {p}] /\ pc' = pc
        ELSE /\ tick' = [tick EXCEPT !.pfs = PfNames[tick.current], !.allDown = IF p \in carrier THEN "no" ELSE "yes"]
             /\ pc' = "pfs"
    BY <1>3 DEF CheckPF
  <2>1. PfNames[tick.current] \in SUBSET PFs
    <3>1. pc = "check"
      BY <1>3 DEF CheckPF
    <3>2. tick.current \in Topologies
      BY <3>1
    <3>3. \A t \in Topologies : PfNames[t] \in SUBSET PFs
      BY Zenon
    <3> QED
      BY <3>2, <3>3
  <2>2. PICK pfs \in SUBSET PFs, a \in Answers : tick' = [tick EXCEPT !.pfs = pfs, !.allDown = a]
    <3>1. CASE p \notin carrier /\ tick.pfs # {p}
      <4>1. tick' = [tick EXCEPT !.pfs = tick.pfs \ {p}, !.allDown = tick.allDown]
        BY <3>1
      <4> QED
        BY <4>1
    <3>2. CASE ~(p \notin carrier /\ tick.pfs # {p})
      BY <2>1, <3>2
    <3> QED
      BY <3>1, <3>2
  <2>3. tick' \in Ticks /\ tick'.current = tick.current
    BY <2>2
  <2>4. pc = "check" /\ pc' \in {"check", "pfs"} /\ UNCHANGED <<carrier, inPod, up, conf, dark, steady, spent>>
    BY <1>3 DEF CheckPF
  <2> QED
    BY <2>3, <2>4
<1>4. CASE CheckFails
  BY <1>4 DEF CheckFails, Fault
<1>5. CASE ListReps
  <2> PICK p \in tick.pfs :
        \/ /\ tick' = [tick EXCEPT !.pfs = @ \ {p}, !.reps = {v \in VFs : PfOf[v] = p} \cap inPod]
           /\ UNCHANGED <<steady, spent>>
        \/ /\ Fault
           /\ \E found \in SUBSET {v \in VFs : PfOf[v] = p} :
                tick' = [tick EXCEPT !.pfs = @ \ {p}, !.reps = found]
    BY <1>5 DEF ListReps
  <2>1. PICK reps \in SUBSET VFs : tick' = [tick EXCEPT !.pfs = @ \ {p}, !.reps = reps]
    OBVIOUS
  <2>2. tick' \in Ticks /\ tick'.current = tick.current
    BY <2>1
  <2>3. steady' \in Answers /\ spent' \in [changes : Nat, faults : Nat]
    <3>1. CASE UNCHANGED <<steady, spent>>
      BY <3>1
    <3>2. CASE Fault
      BY <3>2, FaultType
    <3> QED
      BY <3>1, <3>2
  <2> QED
    <3>1. pc = "pfs" /\ pc' = "reps" /\ UNCHANGED <<carrier, inPod, up, conf, dark>>
      BY <1>5 DEF ListReps
    <3> QED
      BY <2>2, <2>3, <3>1
<1>6. CASE SetRep
  BY <1>6 DEF SetRep
<1>7. CASE SetRepFails
  BY <1>7 DEF SetRepFails, Fault
<1>8. CASE RepsDone
  BY <1>8 DEF RepsDone
<1>9. CASE PFsDone
  BY <1>9 DEF PFsDone
<1>10. CASE TickDone
  BY <1>10 DEF TickDone
<1>11. CASE CarrierChange
  BY <1>11 DEF CarrierChange, Change
<1>12. CASE PodChange
  BY <1>12 DEF PodChange, Change
<1>13. CASE ConfChange
  BY <1>13 DEF ConfChange, Change, Confs
<1>14. CASE UNCHANGED vars
  BY <1>14 DEF vars
<1> QED
  BY <1>1, <1>2, <1>3, <1>4, <1>5, <1>6, <1>7, <1>8, <1>9, <1>10, <1>11, <1>12, <1>13, <1>14 DEF Next, Work

\* Every variable keeps its type, and whenever the goroutine is at work on a
\* topology it knows which (tick).
THEOREM TypeCorrect == Spec => []TypeOK
<1>1. Init => TypeOK
  BY InitType
<1>2. TypeOK /\ [Next]_vars => TypeOK'
  BY StepType
<1> QED
  BY <1>1, <1>2, PTL DEF Spec

-----------------------------------------------------------------------------
(* The loops of allPFsNoCarrier and reconcileTopology. *)

\* The PFs checked so far were without carrier, and still are in a steady pass.
CheckInv ==
    pc = "check" =>
        /\ tick.pfs # {} /\ tick.pfs \subseteq PfNames[tick.current]
        /\ tick.conf[tick.current] = "on"
        /\ PfNames[tick.current] \ tick.pfs \subseteq dark
        /\ steady = "yes" => (PfNames[tick.current] \ tick.pfs) \cap carrier = {}

\* The result of the check is backed by the history, and still true in a steady
\* pass; the representors in work are those of the topology.
ResultInv ==
    pc \in {"pfs", "reps"} =>
        /\ tick.pfs \subseteq PfNames[tick.current]
        /\ tick.allDown = "yes" => PfNames[tick.current] \subseteq dark
        /\ steady = "yes" => (tick.allDown = "yes" <=> WantsDown(tick.conf, tick.current))
        /\ pc = "reps" => \A v \in tick.reps : PfOf[v] \in PfNames[tick.current]

\* In a steady pass the representors of the PFs done so far are as they should be,
\* except those of the last one that are still to be set.
DoneInv ==
    pc \in {"pfs", "reps"} /\ steady = "yes" =>
        \A v \in inPod : PfOf[v] \in PfNames[tick.current] \ tick.pfs =>
            \/ v \in up <=> tick.allDown = "no"
            \/ pc = "reps" /\ v \in tick.reps

\* The history knows of every PF that is without carrier.
DarkInv == PFs \ carrier \subseteq dark

PassInv == DarkInv /\ CheckInv /\ ResultInv /\ DoneInv

LEMMA InitPass == Init => PassInv
BY DEF Init, PassInv, DarkInv, CheckInv, ResultInv, DoneInv

LEMMA BeginPass == TypeOK /\ Begin => PassInv'
<1> SUFFICES ASSUME TypeOK, Begin PROVE PassInv'
  OBVIOUS
<1> PICK t \in tick.topos :
      /\ tick' = [tick EXCEPT !.topos = @ \ {t}, !.current = t, !.pfs = PfNames[t], !.allDown = "no"]
      /\ pc' = IF tick.conf[t] = "on" THEN "check" ELSE "pfs"
  BY DEF Begin
<1>1. /\ tick'.current = t /\ tick'.pfs = PfNames[t] /\ tick'.allDown = "no"
      /\ tick'.conf = tick.conf /\ t \in Topologies /\ PfNames[t] # {}
  BY FollowerAssumption DEF TypeOK, Ticks, Answers
<1>2. pc' # "reps"
  OBVIOUS
<1>3. dark' = PFs \ carrier /\ carrier' = carrier
  BY DEF Begin
<1>4. DarkInv' /\ CheckInv'
  BY <1>1, <1>3 DEF DarkInv, CheckInv
<1>5. ResultInv'
  BY <1>1, <1>2 DEF ResultInv, WantsDown
<1>6. DoneInv'
  BY <1>1 DEF DoneInv
<1> QED
  BY <1>4, <1>5, <1>6 DEF PassInv

LEMMA CheckPass == TypeOK /\ PassInv /\ CheckPF => PassInv'
<1> SUFFICES ASSUME TypeOK, PassInv, CheckPF PROVE PassInv'
  OBVIOUS
<1> USE DEF TypeOK, Ticks, Answers
<1> PICK p \in tick.pfs :
      IF p \notin carrier /\ tick.pfs # {p}
      THEN tick' = [tick EXCEPT !.pfs = @ \ {p}] /\ pc' = pc
      ELSE /\ tick' = [tick EXCEPT !.pfs = PfNames[tick.current], !.allDown = IF p \in carrier THEN "no" ELSE "yes"]
           /\ pc' = "pfs"
  BY DEF CheckPF
<1>0. /\ pc = "check" /\ UNCHANGED <<carrier, inPod, up, conf, dark, steady>>
      /\ tick'.current = tick.current /\ tick'.conf = tick.conf
  BY DEF CheckPF
<1>1. CASE p \notin carrier /\ tick.pfs # {p}
  <2>1. tick'.pfs = tick.pfs \ {p} /\ pc' = "check"
    BY <1>0, <1>1
  <2>3. CheckInv /\ DarkInv
    BY DEF PassInv
  <2> QED
    BY <1>0, <1>1, <2>1, <2>3 DEF PassInv, DarkInv, CheckInv, ResultInv, DoneInv
<1>2. CASE ~(p \notin carrier /\ tick.pfs # {p})
  <2>1. tick'.pfs = PfNames[tick.current] /\ tick'.allDown = (IF p \in carrier THEN "no" ELSE "yes") /\ pc' = "pfs"
    BY <1>0, <1>2
  <2>2. CheckInv /\ DarkInv
    BY DEF PassInv
  <2>3. tick'.allDown = "yes" => PfNames[tick.current] \subseteq dark
    BY <1>0, <1>2, <2>1, <2>2 DEF CheckInv, DarkInv
  <2>4. steady = "yes" => (tick'.allDown = "yes" <=> WantsDown(tick.conf, tick.current))
    BY <1>0, <1>2, <2>1, <2>2 DEF CheckInv, DarkInv, WantsDown
  <2> QED
    BY <1>0, <2>1, <2>3, <2>4 DEF PassInv, DarkInv, CheckInv, ResultInv, DoneInv, WantsDown
<1> QED
  BY <1>1, <1>2

LEMMA ListRepsPass == TypeOK /\ PassInv /\ ListReps => PassInv'
<1> SUFFICES ASSUME TypeOK, PassInv, ListReps PROVE PassInv'
  OBVIOUS
<1> USE DEF TypeOK, Ticks, Answers
<1>0. PICK p \in tick.pfs :
      \/ /\ tick' = [tick EXCEPT !.pfs = @ \ {p}, !.reps = {v \in VFs : PfOf[v] = p} \cap inPod]
         /\ UNCHANGED <<steady, spent>>
      \/ /\ Fault
         /\ \E found \in SUBSET {v \in VFs : PfOf[v] = p} :
              tick' = [tick EXCEPT !.pfs = @ \ {p}, !.reps = found]
  BY DEF ListReps
<1>1. PICK reps \in SUBSET {v \in VFs : PfOf[v] = p} :
        /\ tick' = [tick EXCEPT !.pfs = @ \ {p}, !.reps = reps]
        /\ steady' = "yes" => steady = "yes" /\ reps = {v \in inPod : PfOf[v] = p}
  <2>1. {v \in VFs : PfOf[v] = p} \cap inPod = {v \in inPod : PfOf[v] = p}
    OBVIOUS
  <2> QED BY <1>0, <2>1 DEF Fault
<1>2. /\ pc = "pfs" /\ pc' = "reps" /\ UNCHANGED <<carrier, inPod, up, conf, dark>>
      /\ tick'.current = tick.current /\ tick'.conf = tick.conf /\ tick'.allDown = tick.allDown
      /\ tick'.pfs = tick.pfs \ {p} /\ tick'.reps = reps
  BY <1>1 DEF ListReps
<1>3. DarkInv /\ ResultInv /\ DoneInv
  BY DEF PassInv
<1>4. DarkInv' /\ CheckInv'
  BY <1>2, <1>3 DEF DarkInv, CheckInv
<1>5. ResultInv'
  <2>1. tick.pfs \subseteq PfNames[tick.current]
    BY <1>2, <1>3 DEF ResultInv
  <2>2. \A v \in reps : PfOf[v] \in PfNames[tick.current]
    BY <2>1
  <2> QED
    BY <1>1, <1>2, <1>3, <2>1, <2>2 DEF ResultInv, WantsDown
<1>6. DoneInv'
  BY <1>1, <1>2, <1>3 DEF DoneInv
<1> QED
  BY <1>4, <1>5, <1>6 DEF PassInv

LEMMA SetRepPass == TypeOK /\ PassInv /\ SetRep => PassInv'
<1> SUFFICES ASSUME TypeOK, PassInv, SetRep PROVE PassInv'
  OBVIOUS
<1> USE DEF TypeOK, Ticks, Answers
<1>1. PICK v \in tick.reps :
        /\ tick' = [tick EXCEPT !.reps = @ \ {v}]
        /\ up' = IF tick.allDown = "yes" THEN up \ {v} ELSE up \cup {v}
  BY DEF SetRep
<1>2. /\ pc = "reps" /\ UNCHANGED <<carrier, inPod, conf, pc, dark, steady>>
      /\ tick'.current = tick.current /\ tick'.conf = tick.conf /\ tick'.allDown = tick.allDown
      /\ tick'.pfs = tick.pfs /\ tick'.reps = tick.reps \ {v}
  BY <1>1 DEF SetRep
<1>3. DarkInv /\ ResultInv /\ DoneInv
  BY DEF PassInv
<1>4. DarkInv' /\ CheckInv'
  BY <1>2, <1>3 DEF DarkInv, CheckInv
<1>5. ResultInv'
  BY <1>2, <1>3 DEF ResultInv, WantsDown
<1>6. DoneInv'
  BY <1>1, <1>2, <1>3 DEF DoneInv
<1> QED
  BY <1>4, <1>5, <1>6 DEF PassInv

LEMMA StepPass == TypeOK /\ PassInv /\ [Next]_vars => PassInv'
<1> SUFFICES ASSUME TypeOK, PassInv, [Next]_vars PROVE PassInv'
  OBVIOUS
<1> USE DEF PassInv, DarkInv, CheckInv, ResultInv, DoneInv, WantsDown
<1>1. CASE List
  BY <1>1 DEF List
<1>2. CASE Begin
  BY <1>2, BeginPass
<1>3. CASE CheckPF
  BY <1>3, CheckPass
<1>4. CASE CheckFails
  BY <1>4 DEF CheckFails
<1>5. CASE ListReps
  BY <1>5, ListRepsPass
<1>6. CASE SetRep
  BY <1>6, SetRepPass
<1>7. CASE SetRepFails
  <2>1. PICK v \in tick.reps : tick' = [tick EXCEPT !.reps = @ \ {v}]
    BY <1>7 DEF SetRepFails
  <2>2. /\ pc = "reps" /\ steady' = "no" /\ UNCHANGED <<carrier, inPod, conf, pc, dark>>
        /\ tick'.current = tick.current /\ tick'.conf = tick.conf /\ tick'.allDown = tick.allDown
        /\ tick'.pfs = tick.pfs /\ tick'.reps = tick.reps \ {v}
    BY <1>7, <2>1 DEF SetRepFails, Fault, TypeOK, Ticks
  <2> QED
    BY <2>2
<1>8. CASE RepsDone
  BY <1>8 DEF RepsDone
<1>9. CASE PFsDone
  BY <1>9 DEF PFsDone
<1>10. CASE TickDone
  BY <1>10 DEF TickDone
<1>11. CASE CarrierChange
  BY <1>11 DEF CarrierChange
<1>12. CASE PodChange
  BY <1>12 DEF PodChange
<1>13. CASE ConfChange
  BY <1>13 DEF ConfChange
<1>14. CASE UNCHANGED vars
  BY <1>14 DEF vars
<1> QED
  BY <1>1, <1>2, <1>3, <1>4, <1>5, <1>6, <1>7, <1>8, <1>9, <1>10, <1>11, <1>12, <1>13, <1>14 DEF Next, Work

LEMMA PassCorrect == Spec => [](TypeOK /\ PassInv)
<1>1. Init => PassInv
  BY InitPass
<1>2. TypeOK /\ PassInv /\ [Next]_vars => PassInv'
  BY StepPass
<1> QED
  BY <1>1, <1>2, TypeCorrect, PTL DEF Spec

LEMMA PassFollows == TypeOK /\ PassInv => OnePassFollows
BY DEF TypeOK, Ticks, Answers, PassInv, ResultInv, DoneInv, OnePassFollows

\* One undisturbed pass over a topology brings every representor of a VF in a
\* pod to the state that the carrier of the PFs asks for (reconcileTopology).
THEOREM FollowsInOnePass == Spec => []OnePassFollows
BY PassCorrect, PassFollows, PTL

LEMMA DownStep ==
    TypeOK /\ PassInv /\ [Next]_vars =>
        \A v \in up \ up' : \E t \in Topologies : PfOf[v] \in PfNames[t] /\ PfNames[t] \subseteq dark
<1> SUFFICES ASSUME TypeOK, PassInv, [Next]_vars, NEW v \in up \ up'
             PROVE  \E t \in Topologies : PfOf[v] \in PfNames[t] /\ PfNames[t] \subseteq dark
  OBVIOUS
<1>1. SetRep
  BY DEF vars, Next, Work, List, Begin, CheckPF, CheckFails, ListReps, SetRepFails, RepsDone,
         PFsDone, TickDone, CarrierChange, PodChange, ConfChange
<1>2. pc = "reps" /\ v \in tick.reps /\ tick.allDown = "yes"
  BY <1>1 DEF SetRep
<1>3. tick.current \in Topologies
  BY <1>2 DEF TypeOK
<1>4. PfOf[v] \in PfNames[tick.current] /\ PfNames[tick.current] \subseteq dark
  BY <1>2 DEF PassInv, ResultInv
<1> QED
  BY <1>3, <1>4

\* No representor is set down without cause: every PF of its topology had been
\* without carrier since the check began (allPFsNoCarrier, LinkSetDown).
THEOREM DownIsAlwaysEarned == Spec => DownIsEarned
<1>1. TypeOK /\ PassInv /\ [Next]_vars =>
        [\A v \in up \ up' :
            \E t \in Topologies : PfOf[v] \in PfNames[t] /\ PfNames[t] \subseteq dark]_vars
  BY DownStep
<1> QED
  BY <1>1, PassCorrect, PTL DEF Spec, DownIsEarned
=============================================================================
