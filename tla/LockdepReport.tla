---------------------------- MODULE LockdepReport ---------------------------
(***************************************************************************)
(* The global report: lockdep's main.rs joins the lock orders and usages   *)
(* of all crates in one graph, and derives the reports from it.            *)
(*                                                                         *)
(* The orders and usages of the functions arrive in the order the          *)
(* artifacts are read; the reports are made once all are read.             *)
(***************************************************************************)
EXTENDS Naturals, Sequences, FiniteSets, SequencesExt, FiniteSetsExt, Functions, TLC

LOCAL INSTANCE Graphs

CONSTANTS
    Orders,         \* lock orders a function may report: context, from, to
    Usages,         \* usages a function may report: a lock and its bits
    Fns,     \* the functions, with their crates
    Ignored,        \* the functions the configuration ignores
    MaxReads        \* bound on the orders and usages read

VARIABLES
    read,           \* the facts read that are not ignored, in their order
    nodes,          \* reverse_nodes: the locks, by their number
    adjacency,      \* the successors of a node
    edges,          \* the edges, each with the origin it was first met at
    usage,          \* the usage bits of each lock, each with its first site
    report          \* the reports, once made

vars == <<read, nodes, adjacency, edges, usage, report>>

None == [kind |-> "none"]

-----------------------------------------------------------------------------
(* What makes a pair of locks worth a report. *)

SharedRead(lock) == lock.acquire = "read" /\ lock.primitive \in {"RwLock", "RwMutex"}
DeadlockRelevant(from, to) == ~(SharedRead(from) /\ SharedRead(to))
AtomicMode(lock) == lock.primitive \in {"SpinLock", "RwLock"}
Sleeping(lock) == lock.primitive \in {"Mutex", "RwMutex"}
AtomicModeViolation(from, to) == AtomicMode(from) /\ Sleeping(to)

SameLockClass(a, b) == a.class = b.class /\ a.primitive = b.primitive
ModesConflict(target, held) == ~(SharedRead(target) /\ held.acquire = "read")

IsCycle(steps) == steps # <<>>                          \* mutant: the modes are not looked at

\* Each step is blocked by the lock the next one holds.
IsBlockingCycle(steps) ==
    /\ steps # <<>>
    /\ \A i \in DOMAIN steps :
          LET next == steps[(i % Len(steps)) + 1]
          IN  SameLockClass(steps[i].to, next.from) /\ ModesConflict(steps[i].to, next.from)

-----------------------------------------------------------------------------
(* The graph. *)

NodeIds == {i - 1 : i \in DOMAIN nodes}
Lock(i) == nodes[i + 1]

Interned(known, lock) == IF lock \in ToSet(known) THEN known ELSE Append(known, lock)
IdIn(known, lock) == SelectInSeq(known, LAMBDA l : l = lock) - 1

Neighbors(i) == IF i \in DOMAIN adjacency THEN adjacency[i] ELSE {}
Ascending(S) == SetToSortSeq(S, <)

-----------------------------------------------------------------------------
(* Strongly connected components: tarjan_scc. *)

Lower(a, b) == IF a < b THEN a ELSE b

\* mutant: every node is the root of a component
PopComponentAlways(s, node) ==
    LET at == SelectInSeq(s.stack, LAMBDA n : n = node)
    IN  [s EXCEPT !.components = Append(@, Reverse(SubSeq(s.stack, at, Len(s.stack)))),
                  !.stack = SubSeq(@, 1, at - 1)]

\* The component is popped from the stack, down to its root.
PopComponent(s, node) ==
    LET at == SelectInSeq(s.stack, LAMBDA n : n = node)
    IN  IF s.lowlinks[node] # s.indices[node] THEN s
        ELSE [s EXCEPT !.components = Append(@, Reverse(SubSeq(s.stack, at, Len(s.stack)))),
                       !.stack = SubSeq(@, 1, at - 1)]

RECURSIVE StrongConnect(_, _)
StrongConnect(s, node) ==
    LET Entered == [s EXCEPT !.indices = node :> s.index @@ @,
                             !.lowlinks = node :> s.index @@ @,
                             !.index = @ + 1, !.stack = Append(@, node)]
        Below(t, n) == [t EXCEPT !.lowlinks[node] = Lower(@, t.lowlinks[n])]
        Visit(t, n) ==
          CASE n \notin DOMAIN t.indices -> Below(StrongConnect(t, n), n)
            [] n \in DOMAIN t.indices /\ Contains(t.stack, n) ->
                  [t EXCEPT !.lowlinks[node] = Lower(@, t.indices[n])]
            [] OTHER -> t
    IN  PopComponent(FoldLeft(Visit, Entered, Ascending(Neighbors(node))), node)

Sccs ==
    FoldLeft(LAMBDA s, n : IF n \in DOMAIN s.indices THEN s ELSE StrongConnect(s, n),
             [index |-> 0, stack |-> <<>>, indices |-> <<>>, lowlinks |-> <<>>,
              components |-> <<>>],
             Ascending(NodeIds)).components

-----------------------------------------------------------------------------
(* Cycles. *)

\* The path from the head of the queue to a node, breadth first inside the component.
RECURSIVE PathTo(_, _, _, _)
PathTo(start, members, paths, visited) ==
    IF paths = <<>> THEN <<>>
    ELSE IF Last(Head(paths)) = start THEN Head(paths)
    ELSE LET nexts == Ascending((Neighbors(Last(Head(paths))) \cap members) \ visited)
         IN  PathTo(start, members,
                    Tail(paths) \o [i \in DOMAIN nexts |-> Append(Head(paths), nexts[i])],
                    visited \cup ToSet(nexts))

\* A cycle through the first node of a component, empty if there is none.
CycleIn(scc) ==
    LET start == Head(scc)
        Try(found, n) ==
          IF found # <<>> THEN found ELSE PathTo(start, ToSet(scc), << <<n>> >>, {n})
    IN  IF start \in Neighbors(start) THEN <<start, start>>
        ELSE LET path == FoldLeft(Try, <<>>, Ascending(Neighbors(start) \cap ToSet(scc)))
             IN  IF path = <<>> THEN <<>> ELSE <<start>> \o path

OriginOf(from, to) == (CHOOSE e \in ToSet(edges) : e.from = from /\ e.to = to).origin

Steps(cycle) ==
    [i \in 1 .. Len(cycle) - 1 |->
        [from |-> Lock(cycle[i]), to |-> Lock(cycle[i + 1]),
         origin |-> OriginOf(cycle[i], cycle[i + 1])]]

CyclicComponent(scc) == Len(scc) > 1                    \* mutant

\* A component of one node is one only with an edge to itself.
Cyclic(scc) == Len(scc) > 1 \/ Head(scc) \in Neighbors(Head(scc))

FindCycles(sccs) ==
    LET found == SelectSeq(sccs, LAMBDA scc : Cyclic(scc) /\ CycleIn(scc) # <<>>)
    IN  SelectSeq([i \in DOMAIN found |-> Steps(CycleIn(found[i]))], IsBlockingCycle)

-----------------------------------------------------------------------------
(* The other reports. *)

AtomicModeViolations ==
    {[origin |-> f.origin, held |-> f.from, sleeping |-> f.to] :
        f \in {g \in ToSet(read) : g.kind = "order" /\ AtomicModeViolation(g.from, g.to)}}

\* The two interrupt kinds: the usage in the interrupt and the usage with it enabled.
IrqKinds == {"hardirq", "softirq"}
Enabled(kind) == IF kind = "hardirq" THEN "hardirq_enabled" ELSE "softirq_enabled"
Uses(lock, bit) == lock \in DOMAIN usage /\ bit \in DOMAIN usage[lock]

SingleLockViolations ==
    {[kind |-> p[1], lock |-> p[2], safe |-> usage[p[2]][p[1]],
      unsafe |-> usage[p[2]][Enabled(p[1])]] :
        p \in {q \in IrqKinds \X DOMAIN usage :
                  Uses(q[2], q[1]) /\ Uses(q[2], Enabled(q[1]))}}

\* mutant: one report for each pair of classes, whatever the interrupt
DependencyViolationsPerPair ==
    LET Key(e) == <<Lock(e.from).class, Lock(e.to).class>>
        Add(found, p) ==
          IF \/ ~Uses(Lock(p[2].from), p[1]) \/ ~Uses(Lock(p[2].to), Enabled(p[1]))
             \/ \E v \in found : v.pair = Key(p[2])
          THEN found
          ELSE found \cup {[key |-> <<p[1]>>, pair |-> Key(p[2]), from |-> Lock(p[2].from),
                            to |-> Lock(p[2].to)]}
    IN  FoldLeft(LAMBDA acc, e : Add(Add(acc, <<"hardirq", e>>), <<"softirq", e>>), {}, edges)

\* One report for each kind and pair of a class and its mode: the first edge is kept.
DependencyViolations ==
    LET Key(kind, e) == <<kind, Lock(e.from).class, Lock(e.from).acquire,
                          Lock(e.to).class, Lock(e.to).acquire>>
        Add(found, p) ==
          IF \/ ~Uses(Lock(p[2].from), p[1]) \/ ~Uses(Lock(p[2].to), Enabled(p[1]))
             \/ \E v \in found : v.key = Key(p[1], p[2])
          THEN found
          ELSE found \cup {[key |-> Key(p[1], p[2]), from |-> Lock(p[2].from),
                            to |-> Lock(p[2].to), safe |-> usage[Lock(p[2].from)][p[1]],
                            unsafe |-> usage[Lock(p[2].to)][Enabled(p[1])],
                            origin |-> p[2].origin]}
    IN  FoldLeft(LAMBDA acc, e : Add(Add(acc, <<"hardirq", e>>), <<"softirq", e>>), {}, edges)

\* Edges from a lock to itself, one for each class and mode, and the interrupt reentries.
SelfLocks ==
    {Lock(e.from) : e \in {d \in ToSet(edges) : d.from = d.to}}
IrqReentries(violations) ==
    {[class |-> v.lock.class, sites |-> <<v.safe, v.unsafe>>] : v \in violations}

Report(sccs, violations) ==
    [kind |-> "report", sccs |-> sccs, cycles |-> FindCycles(sccs),
     atomic |-> AtomicModeViolations, single |-> violations,
     dependency |-> DependencyViolations,
     self_locks |-> SelfLocks, reentries |-> IrqReentries(violations)]

-----------------------------------------------------------------------------
(* Reading the artifacts. *)

Init ==
    /\ read = <<>>
    /\ nodes = <<>>
    /\ adjacency = <<>>
    /\ edges = <<>>
    /\ usage = <<>>
    /\ report = None

Reading == report = None /\ Len(read) < MaxReads

\* The graph with one more order: a pair met before keeps its first origin.
AddEdge(known, order, origin) ==
    LET from == IdIn(known, order.from)
        to == IdIn(known, order.to)
        isNew == to \notin Neighbors(from)
    IN  /\ nodes' = known
        /\ adjacency' = from :> (Neighbors(from) \cup {to}) @@ adjacency
        /\ edges' = IF isNew THEN Append(edges, [from |-> from, to |-> to, origin |-> origin])
                    ELSE edges

ReadOrder ==
    /\ Reading
    /\ \E order \in Orders, f \in Fns \ Ignored :
         LET origin == [function |-> f, context |-> order.context]
         IN  /\ read' = Append(read, [kind |-> "order", from |-> order.from, to |-> order.to,
                                      origin |-> origin])
             /\ IF DeadlockRelevant(order.from, order.to)
                THEN AddEdge(Interned(Interned(nodes, order.from), order.to), order, origin)
                ELSE UNCHANGED <<nodes, adjacency, edges>>
    /\ UNCHANGED <<usage, report>>

\* mutant: the last usage read replaces the others
ReadUsageLatest ==
    /\ Reading
    /\ \E used \in Usages, f \in Fns \ Ignored :
         LET site == [function |-> f, acquire |-> used.lock.acquire]
         IN  /\ read' = Append(read, [kind |-> "usage", lock |-> used.lock, bits |-> used.bits,
                                      origin |-> site])
             /\ usage' = used.lock :> [bit \in used.bits |-> site] @@ usage
    /\ UNCHANGED <<nodes, adjacency, edges, report>>

\* A bit keeps the first site that sets it.
ReadUsage ==
    /\ Reading
    /\ \E used \in Usages, f \in Fns \ Ignored :
         LET site == [function |-> f, acquire |-> used.lock.acquire]
             known == IF used.lock \in DOMAIN usage THEN usage[used.lock] ELSE <<>>
         IN  /\ read' = Append(read, [kind |-> "usage", lock |-> used.lock, bits |-> used.bits,
                                      origin |-> site])
             /\ usage' = used.lock :> (known @@ [bit \in used.bits |-> site]) @@ usage
    /\ UNCHANGED <<nodes, adjacency, edges, report>>

MakeReport ==
    /\ report = None
    /\ \E sccs \in {Sccs}, violations \in {SingleLockViolations} :
          report' = Report(sccs, violations)
    /\ UNCHANGED <<read, nodes, adjacency, edges, usage>>

Reported == report # None /\ UNCHANGED vars

Next == ReadOrder \/ ReadUsage \/ MakeReport \/ Reported

Spec == Init /\ [][Next]_vars

-----------------------------------------------------------------------------
(* Properties.  The reference is what was read, not the graph made of it. *)

OrdersRead == {f \in ToSet(read) : f.kind = "order"}
UsagesRead == {f \in ToSet(read) : f.kind = "usage"}
Made == report # None

\* The state has its types: locks are numbered once, and the edges and the successors of
\* the nodes are the same relation, with one origin for each pair.
TypeOK ==
    /\ IsInjective(nodes)
    /\ {<<e.from, e.to>> : e \in ToSet(edges)} = UNION {{<<i, j>> : j \in Neighbors(i)} : i \in NodeIds}
    /\ Cardinality({<<e.from, e.to>> : e \in ToSet(edges)}) = Len(edges)
    /\ DOMAIN adjacency \subseteq NodeIds

\* The graph of the orders read, shared reads left out.
Relevant == {f \in OrdersRead : DeadlockRelevant(f.from, f.to)}
LockGraph == [node |-> UNION {{f.from, f.to} : f \in Relevant},
              edge |-> {<<f.from, f.to>> : f \in Relevant}]

\* The components are the classes of mutual reachability, whatever the order of reading:
\* Tarjan's lowlinks put two locks together exactly when each may wait for the other.
SccsAreMutualReach ==
    Made =>
       LET reach == ConnectionsIn(LockGraph)
       IN  {{Lock(i) : i \in ToSet(report.sccs[k])} : k \in DOMAIN report.sccs}
             = {{m \in LockGraph.node : reach[n, m] /\ reach[m, n]} : n \in LockGraph.node}

\* A cycle reported is a deadlock that can happen: it is closed, each step is an order
\* some function that is not ignored has, with its origin, and no lock is a shared read.
CyclesAreReal ==
    Made =>
       \A i \in DOMAIN report.cycles :
          LET steps == report.cycles[i]
          IN  \A j \in DOMAIN steps :
                 /\ steps[j].to = steps[(j % Len(steps)) + 1].from
                 /\ \E f \in OrdersRead : f.from = steps[j].from /\ f.to = steps[j].to
                                          /\ f.origin = steps[j].origin
                 /\ ~SharedRead(steps[j].to)

\* No cycle of exclusive locks goes unreported: where a component holds no shared read, a
\* cycle of it is reported.
ExclusiveCyclesReported ==
    Made =>
       LET reach == ConnectionsIn([LockGraph EXCEPT !.edge = @ \ {e \in @ : e[1] = e[2]}])
       IN  \A f \in Relevant :
              LET scc == {m \in LockGraph.node : reach[f.from, m] /\ reach[m, f.from]}
              IN  f.to \in scc /\ (\A m \in scc : ~SharedRead(m)) =>
                     \E i \in DOMAIN report.cycles :
                        \A j \in DOMAIN report.cycles[i] : report.cycles[i][j].from \in scc

\* Interrupt rules: a lock is reported exactly when some function uses it in an interrupt
\* and some function uses it with that interrupt enabled, and each site named is one such
\* function.
SingleLockIsExact ==
    Made =>
       LET Site(lock, bit) == {f.origin : f \in {u \in UsagesRead : u.lock = lock /\ bit \in u.bits}}
       IN  /\ \A u \in UsagesRead : \A kind \in IrqKinds :
                 (Site(u.lock, kind) # {} /\ Site(u.lock, Enabled(kind)) # {})
                    <=> \E v \in report.single : v.kind = kind /\ v.lock = u.lock
           /\ \A v \in report.single : /\ v.safe \in Site(v.lock, v.kind)
                                       /\ v.unsafe \in Site(v.lock, Enabled(v.kind))

\* An order from a lock used in an interrupt to a lock used with it enabled is reported,
\* for its classes and modes, although only the first of each key is kept.
DependenciesReported ==
    Made =>
       \A f \in Relevant : \A kind \in IrqKinds :
          (/\ \E u \in UsagesRead : u.lock = f.from /\ kind \in u.bits
           /\ \E u \in UsagesRead : u.lock = f.to /\ Enabled(kind) \in u.bits)
             => \E v \in report.dependency :
                   /\ SameLockClass(v.from, f.from) /\ SameLockClass(v.to, f.to)
                   /\ v.key[1] = kind

\* summary.md lists the AA category "self_lock" as "repeated acquisition of the same lock
\* class on the same path".
SelfLockReported ==
    Made =>
       \A f \in Relevant : SameLockClass(f.from, f.to) =>
          \E lock \in report.self_locks : SameLockClass(lock, f.from)
=============================================================================
