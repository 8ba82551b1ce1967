-------------------------- MODULE LockdepContexts ---------------------------
(***************************************************************************)
(* propagate_contexts of collect/summary.rs: the contexts a function may   *)
(* be entered in are pushed to the functions it calls, with a worklist,    *)
(* until nothing is new.  The outer loop of                                *)
(* analyze_functions_with_propagated_contexts runs it again from other     *)
(* seeds.                                                                  *)
(*                                                                         *)
(* A map from functions to sets of contexts is the set of its pairs; the   *)
(* function of a pair may be one of another crate, which calls nothing     *)
(* here.  The queue is a set: the order a HashMap is read in decides the   *)
(* order of the code's queue.                                              *)
(***************************************************************************)
CONSTANT Fns        \* the functions of the crate

VARIABLES
    seeds,          \* the contexts the round starts from: seeded_contexts
    calls,          \* the pairs of a caller and a callee: direct_calls
    propagated,     \* the contexts found so far
    queue           \* the pairs whose callees are still to be visited

StartFrom(S) ==
    /\ seeds' = S
    /\ propagated' = S
    /\ queue' = S

PropagateInit ==
    /\ calls \subseteq Fns \X Fns
    /\ propagated = seeds
    /\ queue = seeds

Reached(p) == {<<g, p[2]>> : g \in {h \in Fns : <<p[1], h>> \in calls}}

\* mutant: a function that already has a context is not queued again
PropagateToNewFns ==
    \E p \in queue :
        /\ propagated' = propagated \cup Reached(p)
        /\ queue' = (queue \ {p}) \cup {q \in Reached(p) : \A r \in propagated : r[1] # q[1]}
        /\ UNCHANGED <<seeds, calls>>

\* A pair is taken from the queue; each callee's context that is new is queued.
Propagate ==
    \E p \in queue :
        /\ propagated' = propagated \cup Reached(p)
        /\ queue' = (queue \ {p}) \cup (Reached(p) \ propagated)
        /\ UNCHANGED <<seeds, calls>>

\* The next round.
Restart ==
    /\ queue = {}
    /\ StartFrom(seeds')
    /\ UNCHANGED calls

PropagateVars == <<seeds, calls, propagated, queue>>

PropagateSpec == PropagateInit /\ [][Propagate \/ Restart]_PropagateVars

-----------------------------------------------------------------------------
Closed(S) == \A p \in S : Reached(p) \subseteq S

\* No part of what was found would do: every context is in each closed set that holds
\* the seeds.
Justified ==
    \A S \in SUBSET propagated : seeds \subseteq S /\ Closed(S) => S = propagated

\* When the queue is empty, the contexts found are the least set that holds the seeds and
\* follows every direct call: none a caller can pass on is missing (its locks would not be
\* analysed in it), and none is invented.
LeastClosure ==
    queue = {} => seeds \subseteq propagated /\ Closed(propagated) /\ Justified
=============================================================================
