----------------------------- MODULE FileWatcher -----------------------------
(***************************************************************************)
(* How the flowcontroller learns that ovs-vswitchd was restarted and has   *)
(* lost its flows.                                                         *)
(*                                                                         *)
(* A goroutine (filewatcher.WatchFile) polls the modification time of the  *)
(* pid file.  When the file is newer than the time it remembers, or gone,  *)
(* it hands an event to the two flow controllers in turn, over channels    *)
(* without a buffer (main): while a controller does not receive, the       *)
(* goroutine does not poll.                                                *)
(***************************************************************************)
EXTENDS Naturals

CONSTANTS
    MaxTime,      \* bound: ticks of the host's clock
    MaxStarts,    \* bound: starts of ovs-vswitchd
    MaxRestarts,  \* bound: restarts of the flowcontroller
    MaxSetBacks   \* bound: times the clock is set back

ASSUME WatcherAssumption ==
    MaxTime \in Nat /\ MaxStarts \in Nat /\ MaxRestarts \in Nat /\ MaxSetBacks \in Nat

\* The receivers: FlowReconciler and SpectrumXRailPoolConfigHostFlowsReconciler.
Controllers == {"flows", "host"}

VARIABLES
    clock,      \* the host's clock
    file,       \* modification time of the pid file, 0 when there is none
    last,       \* lastModTime, 0 when it is the zero time
    pc,         \* "boot": before the first look; "poll"; or the receiver of the
                \* send the goroutine is blocked on
    listening,  \* controllers that have been started
    told,       \* history: controllers that reconcile everything after the
                \* last start of ovs-vswitchd
    spent       \* starts, restarts and clock changes so far

vars == <<clock, file, last, pc, listening, told, spent>>

Init ==
    /\ clock = 1
    /\ file \in {0, 1}
    /\ last = 0
    /\ pc = "boot"
    /\ listening = {}
    /\ told = {}
    /\ spent = [starts |-> 0, restarts |-> 0, setbacks |-> 0]

-----------------------------------------------------------------------------
(* The watcher. *)

\* The first look: an event only for what happens from here on.
FirstLook ==
    /\ pc = "boot"
    /\ last' = file
    /\ pc' = "poll"
    /\ UNCHANGED <<clock, file, listening, told, spent>>

\* Variant: any modification is noticed, but not the removal of the file.
PollModified ==
    /\ pc = "poll"
    /\ IF file > last
         THEN last' = file /\ pc' = "flows"
         ELSE UNCHANGED <<last, pc>>
    /\ UNCHANGED <<clock, file, listening, told, spent>>

\* One tick: the file is gone that was there, or it is newer; either is notified.
Poll ==
    /\ pc = "poll"
    /\ (file = 0 /\ last # 0) \/ file > last
    /\ last' = file
    /\ pc' = "flows"
    /\ UNCHANGED <<clock, file, listening, told, spent>>

\* The receivers that are left in the current call of notify.
ToSend == IF pc = "flows" THEN {"flows", "host"} ELSE IF pc = "host" THEN {"host"} ELSE {}

\* Variant: the goroutine ends with its first notification.
SendOnce(c) ==
    /\ pc = c /\ c \in listening
    /\ told' = told \cup {c}
    /\ pc' = IF c = "flows" THEN "host" ELSE "ended"
    /\ UNCHANGED <<clock, file, last, listening, spent>>

\* Variant: the modification time is remembered once everybody was notified.
SendAndLook(c) ==
    /\ pc = c /\ c \in listening
    /\ told' = told \cup {c}
    /\ pc' = IF c = "flows" THEN "host" ELSE "poll"
    /\ last' = IF c = "flows" THEN last ELSE file
    /\ UNCHANGED <<clock, file, listening, spent>>

\* Controller c takes the event off its channel and queues its objects.
Send(c) ==
    /\ pc = c /\ c \in listening
    /\ told' = told \cup {c}
    /\ pc' = IF c = "flows" THEN "host" ELSE "poll"
    /\ UNCHANGED <<clock, file, last, listening, spent>>

-----------------------------------------------------------------------------
(* The flowcontroller. *)

\* Variant: notify runs on the goroutine that is to start the manager.
ListenUnlessNotifying(c) ==
    /\ pc = "poll"
    /\ c \notin listening
    /\ listening' = listening \cup {c}
    /\ told' = told \cup {c}
    /\ UNCHANGED <<clock, file, last, pc, spent>>

\* Controller c is started with the manager: its informers queue all objects.
Listen(c) ==
    /\ c \notin listening
    /\ listening' = listening \cup {c}
    /\ told' = told \cup {c}
    /\ UNCHANGED <<clock, file, last, pc, spent>>

\* The process ends and is started again.
Restart ==
    /\ spent.restarts < MaxRestarts
    /\ spent' = [spent EXCEPT !.restarts = @ + 1]
    /\ last' = 0
    /\ pc' = "boot"
    /\ listening' = {}
    /\ told' = {}
    /\ UNCHANGED <<clock, file>>

-----------------------------------------------------------------------------
(* The host. *)

\* ovs-vswitchd starts and writes its pid file, over one that a crash may have
\* left behind; its flows are empty.
OvsStart ==
    /\ spent.starts < MaxStarts
    /\ spent' = [spent EXCEPT !.starts = @ + 1]
    /\ file' = clock
    /\ told' = {}
    /\ UNCHANGED <<clock, last, pc, listening>>

\* A clean stop removes the pid file.
OvsStop ==
    /\ file # 0
    /\ file' = 0
    /\ UNCHANGED <<clock, last, pc, listening, told, spent>>

Tick ==
    /\ clock < MaxTime
    /\ clock' = clock + 1
    /\ UNCHANGED <<file, last, pc, listening, told, spent>>

SetBack ==
    /\ spent.setbacks < MaxSetBacks
    /\ spent' = [spent EXCEPT !.setbacks = @ + 1]
    /\ clock' \in 1..(clock - 1)
    /\ UNCHANGED <<file, last, pc, listening, told>>

-----------------------------------------------------------------------------
Next ==
    \/ FirstLook \/ Poll \/ Restart
    \/ \E c \in Controllers : Send(c) \/ Listen(c)
    \/ OvsStart \/ OvsStop \/ Tick \/ SetBack

Spec == Init /\ [][Next]_vars

\* The goroutine runs, the manager starts its controllers, and a controller
\* that was started receives.
Fairness ==
    /\ WF_vars(FirstLook) /\ WF_vars(Poll)
    /\ \A c \in Controllers : WF_vars(Send(c)) /\ WF_vars(Listen(c))

FairSpec == Spec /\ Fairness

-----------------------------------------------------------------------------
(* Properties. *)

TypeOK ==
    /\ clock \in Nat \ {0}
    /\ file \in Nat
    /\ last \in Nat
    /\ pc \in {"boot", "poll"} \cup Controllers
    /\ listening \subseteq Controllers
    /\ told \subseteq Controllers
    /\ spent \in [starts : Nat, restarts : Nat, setbacks : Nat]

\* The controllers that do not know of the running instance yet and will: the
\* manager has yet to start them, or the watcher has yet to notice the file or
\* to get to their channel.
Owed ==
    {c \in Controllers \ told : /\ file # 0
                                /\ \/ c \notin listening
                                   \/ c \in ToSend
                                   \/ pc # "boot" /\ file > last}

\* A start would be noticed now.
Sharp == pc # "boot" /\ last < clock

Promise == INSTANCE RestartEvents WITH up <- file # 0, pending <- Owed, sharp <- Sharp

\* The watcher keeps its promise in every step: a restart of ovs-vswitchd that
\* comes while it is sharp is owed to both controllers, and no poll, no blocked
\* send, no further event and no late start of a controller takes that back.
KeepsPromise == Promise!Spec

\* Every controller that is owed the news of the running instance gets it, also
\* when the goroutine is blocked on the other controller's channel: the two
\* sends in turn never wedge.
NewsArrives == Promise!FairSpec

\* A clean stop that lasts until the watcher looks makes it sharp again whatever
\* the clock did: the next start is noticed by a pid file of any age.
StopSharpens == file = 0 ~> Sharp \/ file # 0
=============================================================================
