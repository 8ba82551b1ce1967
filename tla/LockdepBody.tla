---------------------------- MODULE LockdepBody -----------------------------
(***************************************************************************)
(* The analysis of one MIR body: compute_block_states of collect/mir.rs    *)
(* solves the block states with a worklist, then the reporting pass of     *)
(* analyze_body (collect.rs) goes through the blocks once.                 *)
(*                                                                         *)
(* Once the body is analysed, an execution of it is walked block by block, *)
(* with the transfer functions of the analysis but with no join: what the  *)
(* analysis says of a block is compared with what holds on the path that   *)
(* leads there.                                                            *)
(***************************************************************************)
EXTENDS LockdepMir

CONSTANTS
    Bodies,         \* the bodies to analyse
    Contexts,       \* the contexts they are analysed in
    Crate           \* the functions of the crate

\* A body has blocks, the first of which is its entry.  A block is a list of statements, and
\* its successors are blocks of the body.
ASSUME BodiesAssumption ==
    \A body \in Bodies :
      /\ "blocks" \in DOMAIN body
      /\ body.blocks \in Seq(ToSet(body.blocks)) \ {<<>>}
      /\ \A b \in DOMAIN body.blocks :
           LET block == body.blocks[b]
           IN  /\ block.stmts \in Seq({st \in ToSet(block.stmts) : st.op \in StatementOps})
               /\ block.succs \in Seq(DOMAIN body.blocks)

VARIABLES
    fn,             \* the body
    base,           \* its context
    in,             \* the states of the blocks reached: in_states
    queue,          \* the blocks to visit
    facts,          \* what the reporting pass has collected
    block,          \* the block the reporting pass is at
    walk            \* the execution: its block, its state, and whether it met a merge

vars == <<fn, base, in, queue, facts, block, walk>>

Summaries == <<>>               \* no helper of the body returns a lock
Blocks == DOMAIN fn.blocks
Succs(b) == fn.blocks[b].succs
Preds(b) == {p \in Blocks : \E i \in DOMAIN Succs(p) : Succs(p)[i] = b}
\* The edges into a block: a switch may have several to the same one, and predecessors()
\* lists its block as often.
Into(b) == UNION {{p} \X {i \in DOMAIN Succs(p) : Succs(p)[i] = b} : p \in Blocks}
Exit(b) == AfterBlock(fn, in[b], fn.blocks[b], Summaries)

Init ==
    /\ fn \in {Resolved(body) : body \in Bodies}
    /\ base \in Contexts
    /\ in = [b \in {1} |-> EntryState(fn, base)]
    /\ queue = <<1>>
    /\ facts = NoFacts
    /\ block = 1
    /\ walk = [at |-> 1, state |-> EntryState(fn, base), merged |-> Into(1) # {}]

JoinedLatest(known, state, b) == state                  \* mutant: the last visit wins

\* A successor reached before is joined with the state that leaves the block.  One with
\* several predecessors that is reached for the first time gets the join of the states
\* its predecessors are entered with.
Joined(known, state, b) ==
    LET entered == {p \in Preds(b) : p \in DOMAIN known}
    IN  CASE b \in DOMAIN known -> JoinStates(known[b], state)
          [] b \notin DOMAIN known /\ Cardinality(Into(b)) <= 1 -> state
          [] OTHER -> JoinMany(SetToSeq({known[p] : p \in entered}))

\* The states and the queue once the successors of the head are updated, in their order.
Visited ==
    LET state == Exit(Head(queue))
        Update(acc, b) ==
          LET joined == Joined(acc.in, state, b)
          IN  IF b \in DOMAIN acc.in /\ acc.in[b] = joined THEN acc
              ELSE [in |-> With(acc.in, b, joined), queue |-> Append(acc.queue, b)]
    IN  FoldLeft(Update, [in |-> in, queue |-> Tail(queue)], Succs(Head(queue)))

Visit ==
    /\ queue # <<>>
    /\ \E visited \in {Visited} : in' = visited.in /\ queue' = visited.queue
    /\ UNCHANGED <<fn, base, facts, block, walk>>

\* A block the solver never reached is reported from the empty state.
Report ==
    /\ queue = <<>>
    /\ block \in Blocks
    /\ facts' = EmitBlock(fn, Crate, facts, Get(in, block, EmptyState), block, Summaries)
    /\ block' = block + 1
    /\ UNCHANGED <<fn, base, in, queue, walk>>

Reported == queue = <<>> /\ block \notin Blocks

\* The execution runs the block it is at and goes to one of its successors.
Walk ==
    /\ Reported
    /\ \E i \in DOMAIN Succs(walk.at) :
         LET b == Succs(walk.at)[i]
         IN  walk' = [at |-> b,
                      state |-> AfterBlock(fn, walk.state, fn.blocks[walk.at], Summaries),
                      merged |-> walk.merged \/ Cardinality(Into(b)) > 1]
    /\ UNCHANGED <<fn, base, in, queue, facts, block>>

Next == Visit \/ Report \/ Walk

Spec == Init /\ [][Next]_vars

-----------------------------------------------------------------------------
(* Properties. *)

\* The state has its types: the blocks known are blocks of the body, a guard is held by
\* a local and is a lock, and the queue holds blocks that are known.
TypeOK ==
    /\ 1 \in DOMAIN in /\ DOMAIN in \subseteq Blocks
    /\ \A b \in DOMAIN in : \A l \in DOMAIN in[b].guards :
         l \in Nat /\ in[b].guards[l].primitive \in {"SpinLock", "RwLock", "Mutex", "RwMutex"}
    /\ \A i \in DOMAIN queue : queue[i] \in DOMAIN in
    /\ block \in 1 .. Cardinality(Blocks) + 1
    /\ walk.at \in Blocks

\* The interrupt flags kept in a state are the ones its guards imply: every assignment,
\* release, acquisition and join ends with a refresh (refresh_irq_state).
IrqFollowsGuards ==
    \A b \in DOMAIN in :
       LET s == in[b]
       IN  /\ s.irq.hard = (FromContext(base).hard /\ ~Masked(s))
           /\ s.irq.soft = (FromContext(base).soft /\ ~Masked(s))

\* One state says at most what another says.
Weaker(s, t) ==
    /\ s.guards = Restrict(t.guards, DOMAIN s.guards \cap DOMAIN t.guards)
    /\ s.aliases = Restrict(t.aliases, DOMAIN s.aliases \cap DOMAIN t.aliases)
    /\ s.origins = Restrict(t.origins, DOMAIN s.origins \cap DOMAIN t.origins)
    /\ s.irq_locals \subseteq t.irq_locals
    /\ t.irq.hard => s.irq.hard
    /\ t.irq.soft => s.irq.soft

\* Once a block has a state, a later visit only takes facts from it.  A block is queued
\* again only when its state changed, so that the worklist loop of compute_block_states
\* ends: the facts of a state are finitely many.
OnlyLosesFacts == [][\A b \in DOMAIN in : b \in DOMAIN in' /\ Weaker(in'[b], in[b])]_in

\* A merge all of whose predecessors change nothing: there, the states they are entered
\* with are the states they leave.
Quiet(p) == fn.blocks[p].stmts = <<>> /\ fn.blocks[p].term.kind = "goto"
QuietMerges == \A b \in Blocks : Cardinality(Into(b)) > 1 => \A p \in Preds(b) : Quiet(p)

\* Where merges are quiet, the solution is sound: a guard the analysis reports held at a
\* block is held on every path to it, and interrupts it reports off are off.
HeldOnEveryPath ==
    queue = <<>> /\ QuietMerges => Weaker(in[walk.at], walk.state)

\* On a path with no merge the analysis misses no lock order: when an execution acquires
\* a lock while it holds another, the pair is a lock edge of the body, labelled with the
\* context the execution is in.
AcquiredAt(at, s) ==
    LET t == AfterStatements(fn, s, fn.blocks[at])
        e == CallEffect(fn, t, fn.blocks[at].term, Summaries)
    IN  IF e.kind # "Acquire" THEN {}
        ELSE {[context |-> CurrentContext(ForAcquire(t.irq, e.lock)), from |-> held,
               to |-> e.lock, location |-> at] : held \in Held(t)}

NoMissedOrder ==
    Reported /\ ~walk.merged =>
       \A pair \in AcquiredAt(walk.at, walk.state) :
          DeadlockRelevant(pair.from, pair.to) => pair \in facts.edges

\* interrupts.md says the interrupt state of a CFG join is merged symmetrically and does
\* not depend on the order the predecessors are visited in: interrupts are enabled where
\* some predecessor leaves them enabled.
JoinIsSymmetric ==
    queue = <<>> =>
       \A b \in DOMAIN in \ {1} :
          in[b].irq.hard = (\E p \in Preds(b) \cap DOMAIN in : Exit(p).irq.hard)
=============================================================================
