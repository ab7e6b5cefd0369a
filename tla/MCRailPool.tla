----------------------------- MODULE MCRailPool -----------------------------
(* RailPool for TLC. *)
EXTENDS RailPool

CONSTANT n1

\* Edits that add a rail, remove it, or give it further PFs.
Growing == {<<"absent", "single">>, <<"absent", "multi">>, <<"single", "multi">>,
            <<"single", "absent">>, <<"multi", "absent">>}

\* Edits that also take PFs away.
Shrinking == Growing \cup {<<"multi", "single">>}

\* The rails are interchangeable.
FirstRail == CHOOSE r \in Rails : TRUE

AllMulti         == [r \in Rails |-> "multi"]
FirstMulti(rest) == [r \in Rails |-> IF r = FirstRail THEN "multi" ELSE rest]
FirstOnly(kind)  == [r \in Rails |-> IF r = FirstRail THEN kind ELSE "absent"]

-----------------------------------------------------------------------------
(* One node, with all edits of rails and a failure anywhere, from the        *)
(* creation of the object on; for an object with one rail a reboot as well.  *)

OneNode == rpc.members = {n1}

\* There is one rail, or all rails have several PFs and these are in switchdev
\* mode already.
CreatedInit ==
    /\ Init
    /\ OneNode
    /\ \/ rpc.rails \in {FirstOnly("multi"), FirstOnly("single")}
       \/ rpc.rails = AllMulti /\ seen[n1] = "switchdev"
    /\ \A n \in Nodes \ {n1} : seen[n] = "absent" /\ mode[n] = "legacy"

OneNodeNext ==
    \/ Step(n1) \/ Failure(n1) \/ Delivery(n1) \/ SwitchMode(n1)
    \/ EditSpec \/ DeleteObject

CreatedSpec == CreatedInit /\ [][OneNodeNext]_vars

\* Reboots are for objects that have had one rail only.
RebootsOfOneRail ==
    spent'.reboots > 0 => \A r \in Rails \ {FirstRail} : rpc'.rails[r] = "absent" /\ api[r] = NoObjects

-----------------------------------------------------------------------------
(* All nodes of a pool race, with caches of different age and without        *)
(* failures, from a state in which the rails are set up.                     *)

RailObject(kind) ==
    [primary |-> IF kind = "absent" THEN "none" ELSE kind,
     secondary |-> kind = "multi", network |-> kind # "absent"]

\* The rails f are set up, but for the hosts of N, which have no node state yet.
SetUp(f, N) ==
    /\ rpc = [phase |-> "live", fin |-> TRUE, gen |-> 1, members |-> Nodes, rails |-> f]
    /\ cache = [n \in Nodes |-> rpc]
    /\ pool = TRUE
    /\ api = [r \in Rails |-> RailObject(f[r])]
    /\ view = [n \in Nodes |-> api]
    /\ worker = [n \in Nodes |-> IdleWorker]
    /\ host = [n \in Nodes |->
                 IF n \in N THEN BareHost
                 ELSE [xplane |-> TRUE, bridges |-> Multi(f), uplinks |-> Multi(f) \X PFs,
                       patched |-> Multi(f), hook |-> "installed"]]
    /\ mode = [n \in Nodes |-> "switchdev"]
    /\ seen = [n \in Nodes |-> IF n \in N THEN "absent" ELSE "switchdev"]
    /\ stuck = [n \in Nodes |-> {}]
    /\ unsafe = {}
    /\ late = [pool |-> FALSE, rails |-> {}]
    /\ orphaned = {} /\ closed = {}
    /\ spent = [faults |-> 0, reboots |-> 0]

SetUpSpec == SetUp(AllMulti, {}) /\ [][Next]_vars

\* Two situations: a multiplane rail is removed, another one stays; or the
\* object is deleted, before or after the hosts were wired.
Removing == rpc.members = Nodes /\ \A r \in Rails \ {FirstRail} : rpc.rails[r] # "absent"
Deleting == rpc.members = Nodes /\ \A r \in Rails \ {FirstRail} : rpc.rails[r] = "absent"

RaceInit ==
    \/ SetUp(FirstMulti("single"), {})
    \/ \E N \in {{}, Nodes} : SetUp(FirstMulti("absent"), N)

\* No rail is removed with an object: views of the policies need not follow then.
RaceNext ==
    /\ \/ \E n \in Nodes : Step(n) \/ CacheSync(n) \/ Publish(n) \/ (Removing /\ ViewSync(n))
       \/ Removing /\ EditSpec /\ rpc'.rails[FirstRail] = "absent"
       \/ Deleting /\ DeleteObject
    /\ UNCHANGED spent

-----------------------------------------------------------------------------
(* All of these. *)

\* As for deliveries, fairness here asks less than RailPool's.
Inform == \E n \in rpc.members : CacheSync(n) \/ Publish(n)
Show   == ~Deleting /\ \E n \in rpc.members : ViewSync(n)

FairSpecAll ==
    /\ CreatedInit \/ RaceInit
    /\ [][(OneNode /\ OneNodeNext) \/ (~OneNode /\ RaceNext)]_vars
    /\ \A n \in Nodes : WF_vars(n \in rpc.members /\ Step(n))
    /\ WF_vars(Inform) /\ WF_vars(Show)
=============================================================================
