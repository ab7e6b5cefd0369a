---------------------------- MODULE RestartEvents ----------------------------
(***************************************************************************)
(* What the flow controllers are promised about restarts of Open vSwitch:  *)
(* whoever has not been told of the running instance will be.  The promise *)
(* is made for a start that comes while the watcher is sharp, that is, has *)
(* taken its first look and the clock has moved past the modification time *)
(* it saw last.                                                            *)
(***************************************************************************)
CONSTANT Controllers

VARIABLES
    up,        \* there is an instance of ovs-vswitchd, or its pid file
    pending,   \* controllers that have not been told of it and will be
    sharp      \* a start would be noticed

vars == <<up, pending, sharp>>

Init ==
    /\ up \in BOOLEAN
    /\ pending = IF up THEN Controllers ELSE {}
    /\ sharp = FALSE

Start ==
    /\ up' = TRUE
    /\ pending' \in SUBSET Controllers
    /\ sharp => pending' = Controllers
    /\ sharp' = sharp

Stop ==
    /\ up' = FALSE
    /\ pending' = {}
    /\ sharp' = sharp

Tell(c) ==
    /\ c \in pending
    /\ pending' = pending \ {c}
    /\ UNCHANGED <<up, sharp>>

\* The watcher looks at the file, or time passes.
Adjust ==
    /\ sharp' \in BOOLEAN
    /\ UNCHANGED <<up, pending>>

\* The flowcontroller starts anew: it reconciles everything.
Resume ==
    /\ pending' = IF up THEN Controllers ELSE {}
    /\ sharp' = FALSE
    /\ up' = up

Next == Start \/ Stop \/ Adjust \/ Resume \/ \E c \in Controllers : Tell(c)

Spec == Init /\ [][Next]_vars

\* Nobody waits for ever.
FairSpec == Spec /\ \A c \in Controllers : WF_vars(Tell(c))
=============================================================================
