----------------------------- MODULE StatusBoard -----------------------------
(***************************************************************************)
(* What the status of a SpectrumXRailPoolConfig is meant to be: a board on *)
(* which each node, in one atomic step, puts its own state for the         *)
(* object's current generation and a verdict over all entries.  There are  *)
(* no caches, no retries and no locks here, and no node says Succeeded of  *)
(* a generation that it has not carried out.                               *)
(***************************************************************************)
EXTENDS Naturals

CONSTANTS
    Nodes,
    Blank      \* the entry of a node that has not reported

VARIABLES
    gen,       \* generation of the object, 0 if there is none
    entries,   \* entries[n]: state, error flag and generation
    verdict,   \* the aggregate
    observed,  \* the generation it is for
    pool,      \* the nodes it is over
    done       \* done[n]: generations that n has carried out

vars == <<gen, entries, verdict, observed, pool, done>>

Empty == entries = [n \in Nodes |-> Blank] /\ verdict = "None" /\ observed = 0

Init ==
    /\ gen = 1
    /\ Empty
    /\ pool = {}
    /\ done = [n \in Nodes |-> {}]

\* Node n carries out a generation, perhaps not the current one.
CarryOut(n) ==
    /\ \E g \in done'[n] : done' = [done EXCEPT ![n] = @ \cup {g}]
    /\ UNCHANGED <<gen, entries, verdict, observed, pool>>

\* In the entries e, node n says state of the current generation.
Says(e, n, state) == e[n].gen = gen /\ e[n].state = state

\* The verdict v is right for the entries e of the nodes in p.
Right(v, e, p) ==
    /\ v \in {"InProgress", "Failed", "Succeeded"}
    /\ v = "Failed" <=> \E n \in p : Says(e, n, "Failed")
    /\ v = "Succeeded" <=> p # {} /\ \A n \in p : Says(e, n, "Succeeded")

\* Node n reports on the current generation.
Report(n) ==
    /\ gen > 0 /\ observed' = gen
    /\ entries' = [entries EXCEPT ![n] = entries'[n]]
    /\ entries'[n].gen = gen
    /\ entries'[n].state \in {"InProgress", "Failed", "Succeeded"}
    /\ entries'[n].state = "Succeeded" => gen \in done[n]
    /\ pool' \subseteq Nodes
    /\ Right(verdict', entries', pool')
    /\ UNCHANGED <<gen, done>>

\* A user edits or deletes the object.
Edit ==
    /\ gen > 0 /\ gen' = gen + 1
    /\ UNCHANGED <<entries, verdict, observed, pool, done>>

\* The object goes, and its status with it.
Remove ==
    /\ gen > 0 /\ gen' = 0
    /\ Empty'
    /\ UNCHANGED <<pool, done>>

Next == Edit \/ Remove \/ \E n \in Nodes : CarryOut(n) \/ Report(n)

Spec == Init /\ [][Next]_vars
=============================================================================
