------------------------- MODULE LockdepCalls_Proofs -------------------------
(***************************************************************************)
(* The nested loops of the crate analysis.  The worklist of                *)
(* propagate_contexts computes a least closure, for any call graph and any *)
(* seeds, whatever the order of the queue; the outer loop only starts it   *)
(* again when it has ended; and when the loops have ended nothing that was *)
(* computed is older than what it was computed from.                       *)
(*                                                                         *)
(* Then an execution of the crate: the contexts it enters functions in,    *)
(* and the orders and uses of the locks it acquires, are in the artifact.  *)
(***************************************************************************)
EXTENDS LockdepCalls, FiniteSetTheorems, SequenceTheorems, TLAPS

\* A context found is either still queued or has been passed on to every callee.
PassedOn == \A p \in propagated \ queue : Reached(p) \subseteq propagated

\* Any closed set with the seeds holds what was found.
Needed == \A S : seeds \subseteq S /\ Closed(S) => propagated \subseteq S

\* LeastClosure is not inductive: it says nothing while the queue is not empty.
PropagateInv ==
    /\ queue \subseteq propagated
    /\ seeds \subseteq propagated
    /\ PassedOn
    /\ Needed

\* A round starts with the invariant.
LEMMA StartInv == PropagateInit => PropagateInv
BY DEF PropagateInit, PropagateInv, PassedOn, Needed

\* Visiting a pair keeps the invariant.
LEMMA PropagateStep ==
    ASSUME PropagateInv, Propagate PROVE PropagateInv'
<1>1. PICK p \in queue :
          /\ propagated' = propagated \cup Reached(p)
          /\ queue' = (queue \ {p}) \cup (Reached(p) \ propagated)
          /\ UNCHANGED <<seeds, calls>>
  BY DEF Propagate
<1>2. p \in propagated
  BY DEF PropagateInv
<1>3. \A q : Reached(q)' = Reached(q)
  BY <1>1 DEF Reached
<1>4. queue' \subseteq propagated' /\ (seeds \subseteq propagated)'
  BY <1>1 DEF PropagateInv
<1>5. PassedOn'
  <2> SUFFICES ASSUME NEW q \in propagated' \ queue'
               PROVE  Reached(q)' \subseteq propagated'
    BY DEF PassedOn
  <2>1. CASE q = p
    BY <1>1, <1>3, <2>1
  <2>2. CASE q # p
    <3>1. q \in propagated \ queue
      BY <1>1, <2>2
    <3>2. Reached(q) \subseteq propagated
      BY <3>1 DEF PropagateInv, PassedOn
    <3> QED
      BY <1>1, <1>3, <3>2
  <2> QED
    BY <2>1, <2>2
<1>6. Needed'
  <2> SUFFICES ASSUME NEW S, seeds' \subseteq S, Closed(S)'
               PROVE  propagated' \subseteq S
    BY DEF Needed
  <2>1. Closed(S) /\ seeds \subseteq S
    BY <1>1, <1>3 DEF Closed
  <2>2. propagated \subseteq S
    BY <2>1 DEF PropagateInv, Needed
  <2>3. Reached(p) \subseteq S
    BY <1>2, <2>1, <2>2 DEF Closed
  <2> QED
    BY <1>1, <2>2, <2>3
<1> QED
  BY <1>4, <1>5, <1>6 DEF PropagateInv

\* So does the start of another round.
LEMMA RestartStep ==
    ASSUME Restart PROVE PropagateInv'
<1>1. propagated' = seeds' /\ queue' = seeds'
  BY DEF Restart, StartFrom
<1> QED
  BY <1>1 DEF PropagateInv, PassedOn, Needed

\* And a step that changes nothing.
LEMMA StutterStep ==
    ASSUME PropagateInv, UNCHANGED PropagateVars PROVE PropagateInv'
<1>1. UNCHANGED <<seeds, calls, propagated, queue>>
  BY DEF PropagateVars
<1>2. \A q : Reached(q)' = Reached(q)
  BY <1>1 DEF Reached
<1>3. PassedOn'
  BY <1>1, <1>2 DEF PropagateInv, PassedOn
<1>4. Needed'
  BY <1>1, <1>2 DEF PropagateInv, Needed, Closed
<1> QED
  BY <1>1, <1>3, <1>4 DEF PropagateInv

\* The contexts found when the queue of propagate_contexts is empty are the least set that
\* holds the seeds and follows every direct call.
THEOREM PropagationIsLeast == PropagateSpec => []LeastClosure
<1>1. PropagateInv => LeastClosure
  BY DEF PropagateInv, LeastClosure, PassedOn, Closed, Needed, Justified
<1>2. PropagateInv /\ [Propagate \/ Restart]_PropagateVars => PropagateInv'
  BY PropagateStep, RestartStep, StutterStep
<1> QED
  BY StartInv, <1>1, <1>2, PTL DEF PropagateSpec

-----------------------------------------------------------------------------
(* The outer loop. *)

\* Contexts are still propagated only before the bodies are analysed.
Idle == phase # "contexts" => queue = {}

LEMMA InitRefines == Init => PropagateInit /\ Idle
<1> SUFFICES ASSUME Init PROVE PropagateInit /\ Idle
  OBVIOUS
<1>1. DirectCalls \subseteq Fns \X Fns
  BY DEF DirectCalls
<1> QED
  BY <1>1 DEF Init, PropagateInit, Idle

\* A step takes a pair from the queue, starts a round with the queue empty, or
\* leaves the propagation alone.
LEMMA NextRefines ==
    ASSUME Idle, [Next]_vars
    PROVE  [Propagate \/ Restart]_PropagateVars /\ Idle'
<1> USE DEF Idle, PropagateVars, analysisVars
<1>1. CASE PropagateContexts
  BY <1>1 DEF PropagateContexts
<1>2. CASE Analyze
  BY <1>2 DEF Analyze
<1>3. CASE SummarizeReturns
  <2>1. PICK round :
            GrowSummaries(round) \/ AnalyzeAgain(round) \/ Reseed(round) \/ Settle(round)
    BY <1>3 DEF SummarizeReturns
  <2>2. queue = {} /\ phase = "returns"
    BY <1>3 DEF SummarizeReturns
  <2>3. CASE GrowSummaries(round)
    BY <2>2, <2>3 DEF GrowSummaries
  <2>4. CASE AnalyzeAgain(round)
    BY <2>2, <2>4 DEF AnalyzeAgain
  <2>5. CASE Reseed(round)
    <3>1. StartFrom(seeds') /\ UNCHANGED calls /\ phase' = "contexts"
      BY <2>5 DEF Reseed, StartFrom
    <3> QED
      BY <2>2, <3>1 DEF Restart
  <2>6. CASE Settle(round)
    BY <2>2, <2>6 DEF Settle
  <2> QED
    BY <2>1, <2>3, <2>4, <2>5, <2>6
<1>4. CASE SummarizeEntries
  BY <1>4 DEF SummarizeEntries, GrowSummaries, Finalize
<1>5. CASE Enter \/ Call \/ Advance \/ Finished \/ UNCHANGED vars
  BY <1>5 DEF Enter, Call, Advance, Finished, vars
<1> QED
  BY <1>1, <1>2, <1>3, <1>4, <1>5 DEF Next

\* collect_artifact only starts propagate_contexts again when its queue is empty, from
\* whatever seeds: the analysis of a crate implements the propagation.
THEOREM AnalysisImplementsPropagation == Spec => PropagateSpec
BY InitRefines, NextRefines, PTL DEF Spec, PropagateSpec

\* In every round of the analysis of every crate the bodies are analysed in the least set
\* of contexts that the round's seeds and the direct calls justify.
THEOREM ContextsAreLeast == Spec => []LeastClosure
BY AnalysisImplementsPropagation, PropagationIsLeast, PTL

-----------------------------------------------------------------------------
(* What the loops end with. *)

\* The analyses that the contexts found and the locks known to be returned give.
Analyzed == [f \in Fns |-> AnalyzeFunction(crate[f], ContextsOf(f), returns)]

\* The same crate, contexts and summaries give the same analyses, the same analyses
\* the same seeds for the next round.
LEMMA AnalysisSame ==
    ASSUME UNCHANGED <<crate, propagated, returns>>
    PROVE  Analyzed' = Analyzed
<1>1. \A f : ContextsOf(f)' = ContextsOf(f)
  BY DEF ContextsOf
<1> QED
  BY <1>1 DEF Analyzed

LEMMA SeedsSame ==
    ASSUME UNCHANGED <<crate, analyses>>
    PROVE  NextSeeds' = NextSeeds
BY SMTT(30) DEF NextSeeds, EntryContexts, Registered, CallsOf, Terms

\* The analyses are those.
AnalysesStand == analyses = Analyzed

\* And these are the ones the analyses give.
LoopsStand ==
    /\ seeds = NextSeeds
    /\ returns = Round(analyses, returns, ReturnsResult(analyses))

\* What is reported rests on summaries that another round would not change.
ReportStands ==
    /\ summaries = Round(analyses, summaries, HoldsNothing(analyses))
    /\ functions = [f \in Fns |-> Finalized(analyses, summaries, f)]

FixpointInv ==
    /\ phase \in {"contexts", "returns", "entries", "done"}
    /\ phase # "contexts" => AnalysesStand
    /\ phase \in {"entries", "done"} => LoopsStand
    /\ phase = "done" => ReportStands

LEMMA FixpointStep ==
    ASSUME FixpointInv, [Next]_vars
    PROVE  FixpointInv'
<1> USE DEF FixpointInv, analysisVars
<1>1. CASE phase' = "contexts"
  BY <1>1
<1>2. CASE Analyze
  <2>1. phase' = "returns" /\ UNCHANGED <<crate, propagated, returns>>
        /\ analyses' = Analyzed
    BY <1>2 DEF Analyze, Analyzed
  <2>2. AnalysesStand'
    BY <2>1, AnalysisSame, Zenon DEF AnalysesStand
  <2> QED
    BY <2>1, <2>2
<1>3. ASSUME NEW round, GrowSummaries(round), phase \in {"returns", "entries"}
      PROVE  FixpointInv'
  <2>1. UNCHANGED <<seeds, propagated, crate, phase, returns, analyses, functions>>
    BY <1>3 DEF GrowSummaries
  <2>2. AnalysesStand'
    BY <1>3, <2>1, AnalysisSame, Zenon DEF AnalysesStand
  <2>3. LoopsStand => LoopsStand'
    BY <2>1, SeedsSame, Zenon DEF LoopsStand
  <2> QED
    BY <1>3, <2>1, <2>2, <2>3
<1>4. ASSUME Settle(Round(analyses, summaries, ReturnsResult(analyses))), phase = "returns"
      PROVE  FixpointInv'
  <2>1. phase' = "entries" /\ UNCHANGED <<seeds, propagated, crate, returns, analyses>>
    BY <1>4 DEF Settle
  <2>2. seeds = NextSeeds /\ returns = Round(analyses, returns, ReturnsResult(analyses))
    BY <1>4 DEF Settle
  <2>3. AnalysesStand'
    BY <1>4, <2>1, AnalysisSame, Zenon DEF AnalysesStand
  <2>4. LoopsStand'
    BY <2>1, <2>2, SeedsSame, Zenon DEF LoopsStand
  <2> QED
    BY <2>1, <2>3, <2>4
<1>5. ASSUME Finalize(Round(analyses, summaries, HoldsNothing(analyses))), phase = "entries"
      PROVE  FixpointInv'
  <2>1. /\ phase' = "done" /\ functions' = [f \in Fns |-> Finalized(analyses, summaries, f)]
        /\ summaries = Round(analyses, summaries, HoldsNothing(analyses))
        /\ UNCHANGED <<seeds, propagated, crate, returns, analyses, summaries>>
    BY <1>5 DEF Finalize
  <2>2. AnalysesStand' /\ LoopsStand'
    BY <1>5, <2>1, AnalysisSame, SeedsSame, Zenon DEF AnalysesStand, LoopsStand
  <2>3. ReportStands'
    BY <2>1, Zenon DEF ReportStands
  <2> QED
    BY <2>1, <2>2, <2>3
<1>6. CASE SummarizeReturns
  BY <1>1, <1>3, <1>4, <1>6 DEF SummarizeReturns, AnalyzeAgain, Reseed
<1>7. CASE SummarizeEntries
  BY <1>3, <1>5, <1>7 DEF SummarizeEntries
<1>8. CASE Enter \/ Call \/ Advance \/ Finished \/ UNCHANGED vars
  <2>1. UNCHANGED <<seeds, propagated, crate, phase, returns, analyses, summaries, functions>>
    BY <1>8 DEF Enter, Call, Advance, Finished, vars
  <2>2. AnalysesStand => AnalysesStand'
    BY <2>1, AnalysisSame, Zenon DEF AnalysesStand
  <2>3. LoopsStand => LoopsStand'
    BY <2>1, SeedsSame, Zenon DEF LoopsStand
  <2>4. ReportStands => ReportStands'
    BY <2>1, Zenon DEF ReportStands
  <2> QED
    BY <2>1, <2>2, <2>3, <2>4
<1>9. CASE PropagateContexts
  BY <1>9 DEF PropagateContexts
<1> QED
  BY <1>2, <1>6, <1>7, <1>8, <1>9 DEF Next

\* The artifact is read off a common fixpoint of the three loops: contexts, analyses,
\* returned locks and summaries each follow from the present value of the others, and
\* none was computed from one that has changed since.
ArtifactIsCurrent == phase = "done" => AnalysesStand /\ LoopsStand /\ ReportStands
THEOREM AnalysisEndsAtFixpoint == Spec => []ArtifactIsCurrent
<1>1. Init => FixpointInv
  BY DEF Init, FixpointInv
<1>2. FixpointInv => ArtifactIsCurrent
  BY DEF FixpointInv, ArtifactIsCurrent
<1> QED
  BY <1>1, <1>2, FixpointStep, PTL DEF Spec

-----------------------------------------------------------------------------
(* What a body's reporting pass collects is never taken back. *)

\* The facts have their fields, and the callsites are a list.
FactsShaped(x) ==
    /\ DOMAIN x = {"events", "edges", "usage", "entry_locks", "return_locks", "callsites"}
    /\ x.callsites \in Seq(ToSet(x.callsites))

\* All that one collection says is said by another.
UsageKept(u, v) == \A lock \in DOMAIN u : lock \in DOMAIN v /\ DOMAIN u[lock] \subseteq DOMAIN v[lock]
Kept(x, y) ==
    /\ x.edges \subseteq y.edges
    /\ x.entry_locks \subseteq y.entry_locks
    /\ ToSet(x.callsites) \subseteq ToSet(y.callsites)
    /\ UsageKept(x.usage, y.usage)

LEMMA KeptReflexive == ASSUME NEW x PROVE Kept(x, x)
BY DEF Kept, UsageKept

LEMMA KeptTransitive ==
    ASSUME NEW x, NEW y, NEW z, Kept(x, y), Kept(y, z)
    PROVE  Kept(x, z)
<1>1. UsageKept(x.usage, z.usage)
  BY DEF Kept, UsageKept
<1> QED
  BY <1>1 DEF Kept

LEMMA Recorded ==
    ASSUME NEW usage, NEW lock, NEW irq, NEW location
    PROVE  /\ UsageKept(usage, RecordUsage(usage, lock, irq, location))
           /\ lock \in DOMAIN RecordUsage(usage, lock, irq, location)
           /\ UsageBits(irq) \subseteq DOMAIN RecordUsage(usage, lock, irq, location)[lock]
<1> DEFINE bits == [b \in UsageBits(irq) |->
                      [context |-> CurrentContext(irq), location |-> location]]
           v == Over(Get(usage, lock, <<>>), bits)
           r == RecordUsage(usage, lock, irq, location)
<1>1. DOMAIN v = DOMAIN Get(usage, lock, <<>>) \cup UsageBits(irq)
  BY DEF Over
<1>2. r = With(usage, lock, v)
  BY Zenon DEF RecordUsage
<1> HIDE DEF v, r
<1>3. DOMAIN r = DOMAIN usage \cup {lock} /\ r[lock] = v
      /\ \A x \in DOMAIN usage : x # lock => r[x] = usage[x]
  BY <1>2 DEF With
<1>4. lock \in DOMAIN usage => DOMAIN usage[lock] \subseteq DOMAIN v
  BY <1>1 DEF Get
<1>5. UsageKept(usage, r)
  BY <1>3, <1>4 DEF UsageKept
<1> QED
  BY <1>1, <1>3, <1>5 DEF r

LEMMA EmitAcquireKeeps ==
    ASSUME NEW x, FactsShaped(x), NEW s, NEW e, NEW b
    PROVE  /\ FactsShaped(EmitAcquire(x, s, e, b)) /\ Kept(x, EmitAcquire(x, s, e, b))
           /\ \A held \in Held(s) : DeadlockRelevant(held, e.lock) =>
                \E edge \in EmitAcquire(x, s, e, b).edges : edge.from = held /\ edge.to = e.lock
           /\ DOMAIN s.guards = {} => e.lock \in EmitAcquire(x, s, e, b).entry_locks
           /\ e.lock \in DOMAIN EmitAcquire(x, s, e, b).usage
           /\ UsageBits(ForAcquire(s.irq, e.lock))
                \subseteq DOMAIN EmitAcquire(x, s, e, b).usage[e.lock]
<1> DEFINE irq == ForAcquire(s.irq, e.lock)
           new == {[context |-> CurrentContext(irq), from |-> held, to |-> e.lock,
                    location |-> b] : held \in {h \in Held(s) : DeadlockRelevant(h, e.lock)}}
           ev == Append(x.events, Event("acquire", irq, e.lock, e.dest, b))
           u == RecordUsage(x.usage, e.lock, irq, b)
           y == EmitAcquire(x, s, e, b)
<1>1. /\ UsageKept(x.usage, u) /\ e.lock \in DOMAIN u
      /\ UsageBits(irq) \subseteq DOMAIN u[e.lock]
  BY Recorded
<1>2. \A held \in Held(s) : DeadlockRelevant(held, e.lock) =>
         \E edge \in new : edge.from = held /\ edge.to = e.lock
  <2> SUFFICES ASSUME NEW held \in Held(s), DeadlockRelevant(held, e.lock)
               PROVE  \E edge \in new : edge.from = held /\ edge.to = e.lock
    OBVIOUS
  <2> DEFINE edge == [context |-> CurrentContext(irq), from |-> held, to |-> e.lock,
                      location |-> b]
  <2>1. edge \in new /\ edge.from = held /\ edge.to = e.lock
    OBVIOUS
  <2> QED
    BY <2>1
<1> HIDE DEF new, ev, u, irq
<1>3. DOMAIN x = {"events", "edges", "usage", "entry_locks", "return_locks", "callsites"}
  BY DEF FactsShaped
<1>4. y = [x EXCEPT !.events = ev, !.edges = @ \cup new, !.usage = u,
                    !.entry_locks = IF DOMAIN s.guards = {} THEN @ \cup {e.lock} ELSE @]
  BY Zenon DEF EmitAcquire, new, ev, u, irq
<1>5. /\ DOMAIN y = DOMAIN x /\ y.edges = x.edges \cup new /\ y.usage = u
      /\ y.entry_locks = IF DOMAIN s.guards = {} THEN x.entry_locks \cup {e.lock}
                         ELSE x.entry_locks
      /\ y.callsites = x.callsites
  BY <1>3, <1>4
<1> HIDE DEF y
<1>6. FactsShaped(y)
  BY <1>5, Zenon DEF FactsShaped
<1>7. Kept(x, y)
  BY <1>1, <1>5 DEF Kept
<1> QED
  BY <1>1, <1>2, <1>5, <1>6, <1>7 DEF y, irq

LEMMA EmitReleaseKeeps ==
    ASSUME NEW x, FactsShaped(x), NEW s, NEW l, NEW b
    PROVE  FactsShaped(EmitRelease(x, s, l, b)) /\ Kept(x, EmitRelease(x, s, l, b))
<1> DEFINE ev == Append(x.events, Event("release", s.irq, s.guards[l], l, b))
           y == [x EXCEPT !.events = ev]
<1>1. EmitRelease(x, s, l, b) = IF l \notin DOMAIN s.guards THEN x ELSE y
  BY Zenon DEF EmitRelease
<1> HIDE DEF ev
<1>2. DOMAIN x = {"events", "edges", "usage", "entry_locks", "return_locks", "callsites"}
  BY DEF FactsShaped
<1>3. /\ DOMAIN y = DOMAIN x /\ y.edges = x.edges /\ y.usage = x.usage
      /\ y.entry_locks = x.entry_locks /\ y.callsites = x.callsites
  BY <1>2
<1> HIDE DEF y
<1>4. FactsShaped(y) /\ Kept(x, y)
  BY <1>3, Zenon DEF FactsShaped, Kept, UsageKept
<1> QED
  BY <1>1, <1>4, KeptReflexive

LEMMA EmitEffectKeeps ==
    ASSUME NEW x, FactsShaped(x), NEW s, NEW e, NEW term, NEW b
    PROVE  FactsShaped(EmitEffect(x, s, e, term, b)) /\ Kept(x, EmitEffect(x, s, e, term, b))
<1> DEFINE a == EmitAcquire(x, s, e, b)
           r == EmitRelease(x, s, e.local, b)
           d == EmitRelease(x, s, term.place.local, b)
           k == [x EXCEPT !.return_locks = @ \cup Held(s)]
           y == EmitEffect(x, s, e, term, b)
<1>1. FactsShaped(a) /\ Kept(x, a)
  BY EmitAcquireKeeps
<1>2. FactsShaped(r) /\ Kept(x, r) /\ FactsShaped(d) /\ Kept(x, d)
  BY EmitReleaseKeeps
<1>3. FactsShaped(k) /\ Kept(x, k)
  <2>1. /\ DOMAIN k = DOMAIN x /\ k.edges = x.edges /\ k.usage = x.usage
        /\ k.entry_locks = x.entry_locks /\ k.callsites = x.callsites
    BY DEF FactsShaped
  <2> HIDE DEF k
  <2> QED
    BY <2>1, Zenon DEF FactsShaped, Kept, UsageKept
<1>4. y = CASE e.kind = "Acquire" -> a
            [] e.kind = "Release" -> r
            [] e = NoEffect /\ term.kind = "drop" /\ IsLocal(term.place) -> d
            [] e = NoEffect /\ term.kind = "return" -> k
            [] OTHER -> x
  BY Zenon DEF EmitEffect
<1> HIDE DEF a, r, d, k
<1>5. y \in {a, r, d, k, x}
  BY <1>4
<1> HIDE DEF y
<1>6. FactsShaped(y) /\ Kept(x, y)
  BY <1>1, <1>2, <1>3, <1>5, KeptReflexive
<1> QED
  BY <1>6 DEF y

\* A finite set as the list that SetToSeq makes of it.
LEMMA FiniteAsSequence ==
    ASSUME NEW S, IsFiniteSet(S)
    PROVE  /\ SetToSeq(S) \in Seq(S)
           /\ \A s \in S : \E k \in 1 .. Len(SetToSeq(S)) : SetToSeq(S)[k] = s
           /\ S \subseteq ToSet(SetToSeq(S))
<1> DEFINE n == Cardinality(S)
           F == {f \in [1..n -> S] : IsInjective(f)}
           q == SetToSeq(S)
<1>1. n \in Nat /\ ExistsBijection(1..n, S)
  BY FS_CardinalityType
<1>2. F # {}
  <2>1. PICK f : f \in Bijection(1..n, S)
    BY <1>1 DEF ExistsBijection
  <2>2. f \in [1..n -> S] /\ IsInjective(f)
    BY <2>1 DEF Bijection, Injection
  <2> QED
    BY <2>2
<1>3. q \in F
  <2>1. q = CHOOSE f \in [1..n -> S] : IsInjective(f)
    BY Zenon DEF SetToSeq
  <2> HIDE DEF q, n
  <2> QED
    BY <1>2, <2>1
<1> HIDE DEF q
<1>4. q \in Injection(1..n, S)
  BY <1>3 DEF Injection
<1>5. q \in Surjection(1..n, S)
  <2>1. Cardinality(1..n) = n
    BY <1>1, FS_Interval
  <2> QED
    BY <1>4, <2>1, FS_Injection
<1>6. q \in [1..n -> S] /\ \A s \in S : \E k \in 1..n : q[k] = s
  BY <1>5 DEF Surjection
<1>7. q \in Seq(S) /\ Len(q) = n
  <2> HIDE DEF n
  <2> QED
    BY <1>1, <1>6
<1>8. \A s \in S : \E k \in 1 .. Len(q) : q[k] = s
  BY <1>6, <1>7
<1>9. S \subseteq ToSet(q)
  <2>1. DOMAIN q = 1 .. Len(q)
    BY <1>7, LenProperties
  <2> QED
    BY <1>8, <2>1 DEF ToSet
<1> QED
  BY <1>7, <1>8, <1>9 DEF q

\* Lists as lists of their own elements.
LEMMA ConcatKeeps ==
    ASSUME NEW S, NEW T, NEW p \in Seq(S), NEW q \in Seq(T)
    PROVE  /\ p \o q \in Seq(ToSet(p \o q))
           /\ ToSet(p) \subseteq ToSet(p \o q) /\ ToSet(q) \subseteq ToSet(p \o q)
           /\ ToSet(p \o q) \subseteq ToSet(p) \cup ToSet(q)
<1> DEFINE r == p \o q
<1>1. p \in Seq(S \cup T) /\ q \in Seq(S \cup T)
  OBVIOUS
<1>2. /\ r \in Seq(S \cup T) /\ Len(r) = Len(p) + Len(q)
      /\ \A i \in 1 .. Len(r) : r[i] = IF i <= Len(p) THEN p[i] ELSE q[i - Len(p)]
  BY <1>1, ConcatProperties
<1>3. /\ Len(p) \in Nat /\ Len(q) \in Nat /\ Len(r) \in Nat
      /\ DOMAIN p = 1 .. Len(p) /\ DOMAIN q = 1 .. Len(q) /\ DOMAIN r = 1 .. Len(r)
  BY <1>2, LenProperties
<1> HIDE DEF r
<1>4. r = [i \in 1 .. Len(r) |-> r[i]]
  BY <1>2, <1>3
<1>5. r \in Seq(ToSet(r))
  <2>1. \A i \in 1 .. Len(r) : r[i] \in ToSet(r)
    BY <1>3 DEF ToSet
  <2> QED
    BY <1>3, <1>4, <2>1
<1>6. \A i \in 1 .. Len(p) : r[i] = p[i] /\ i \in 1 .. Len(r)
  BY <1>2, <1>3
<1>7. \A i \in 1 .. Len(q) : r[i + Len(p)] = q[i] /\ i + Len(p) \in 1 .. Len(r)
  <2> SUFFICES ASSUME NEW i \in 1 .. Len(q)
               PROVE  r[i + Len(p)] = q[i] /\ i + Len(p) \in 1 .. Len(r)
    OBVIOUS
  <2>1. i + Len(p) \in 1 .. Len(r) /\ ~(i + Len(p) <= Len(p)) /\ (i + Len(p)) - Len(p) = i
    BY <1>2, <1>3
  <2> QED
    BY <1>2, <2>1
<1>8. ToSet(p) \subseteq ToSet(r) /\ ToSet(q) \subseteq ToSet(r)
  BY <1>3, <1>6, <1>7 DEF ToSet
<1>9. ToSet(r) \subseteq ToSet(p) \cup ToSet(q)
  <2> SUFFICES ASSUME NEW i \in 1 .. Len(r) PROVE r[i] \in ToSet(p) \cup ToSet(q)
    BY <1>3 DEF ToSet
  <2>1. CASE i <= Len(p)
    <3>1. i \in DOMAIN p /\ r[i] = p[i]
      BY <1>2, <1>3, <2>1
    <3> QED
      BY <3>1 DEF ToSet
  <2>2. CASE ~(i <= Len(p))
    <3>1. i - Len(p) \in DOMAIN q /\ r[i] = q[i - Len(p)]
      BY <1>2, <1>3, <2>2
    <3> QED
      BY <3>1 DEF ToSet
  <2> QED
    BY <2>1, <2>2
<1> QED
  BY <1>5, <1>8, <1>9 DEF r

\* A set of at most one element, as the list that SetToSeq makes of it.
LEMMA OneAsSequence ==
    ASSUME NEW S, \A x \in S : \A y \in S : x = y
    PROVE  SetToSeq(S) \in Seq(S) /\ S \subseteq ToSet(SetToSeq(S))
<1>1. IsFiniteSet(S)
  <2>1. CASE S = {}
    BY <2>1, FS_EmptySet
  <2>2. CASE S # {}
    <3>1. PICK x : S = {x}
      BY <2>2
    <3> QED
      BY <3>1, FS_Singleton
  <2> QED
    BY <2>1, <2>2
<1> QED
  BY <1>1, FiniteAsSequence

LEMMA OneTarget ==
    ASSUME NEW fn, NEW operand
    PROVE  \A t \in CalledTarget(fn, operand) : \A u \in CalledTarget(fn, operand) : t = u
<1> DEFINE l == IF IsPlace(operand) /\ IsLocal(operand.place)
                THEN operand.place.local ELSE NoLocal
<1> HIDE DEF l
<1>1. CalledTarget(fn, operand) =
        IF operand.kind = "fn" THEN {Direct(operand.fn)}
        ELSE IF l \in DOMAIN fn.known THEN {fn.known[l]}
             ELSE {Arg(i) : i \in fn.callables \cap {l}}
  BY Zenon DEF CalledTarget, l
<1> QED
  BY <1>1

LEMMA OneSite ==
    ASSUME NEW fn, NEW s, NEW term, NEW b
    PROVE  \A x \in CallSites(fn, Fns, s, term, b) : \A y \in CallSites(fn, Fns, s, term, b) : x = y
<1> DEFINE T == {u \in CalledTarget(fn, term.func) : u.kind = "Direct" => u.fn \in Fns}
           site(t) == [target |-> t, dest |-> term.dest,
             bindings |-> ArgBindings(fn, s, term.args),
             callables |-> [i \in {j \in DOMAIN term.args : CalledTarget(fn, term.args[j]) # {}} |->
                              CHOOSE u \in CalledTarget(fn, term.args[i]) : TRUE],
             held |-> Held(s), context |-> CurrentContext(s.irq), irq |-> s.irq,
             location |-> b]
<1>1. \A t \in T : \A u \in T : t = u
  BY OneTarget
<1>2. CallSites(fn, Fns, s, term, b) = IF term.kind # "call" THEN {} ELSE {site(t) : t \in T}
  BY Zenon DEF CallSites
<1> HIDE DEF T, site
<1> QED
  BY <1>1, <1>2

\* A block keeps what was collected, and lists the calls it makes.
LEMMA EmitBlockKeeps ==
    ASSUME NEW fn, NEW x, FactsShaped(x), NEW in, NEW b, NEW known
    PROVE  LET s == AfterStatements(fn, in, fn.blocks[b])
               y == EmitBlock(fn, Fns, x, in, b, known)
           IN  /\ FactsShaped(y) /\ Kept(x, y)
               /\ CallSites(fn, Fns, s, fn.blocks[b].term, b) \subseteq ToSet(y.callsites)
<1> DEFINE s == AfterStatements(fn, in, fn.blocks[b])
           term == fn.blocks[b].term
           e == CallEffect(fn, s, term, known)
           S == CallSites(fn, Fns, s, term, b)
           q == SetToSeq(S)
           x1 == [x EXCEPT !.callsites = @ \o q]
           y == EmitEffect(x1, s, e, term, b)
<1>1. EmitBlock(fn, Fns, x, in, b, known) = y
  BY Zenon DEF EmitBlock, EmitTerminator
<1>2. q \in Seq(S) /\ S \subseteq ToSet(q)
  BY OneSite, OneAsSequence
<1> HIDE DEF s, term, e, S, q
<1>3. /\ DOMAIN x1 = DOMAIN x /\ x1.edges = x.edges /\ x1.usage = x.usage
      /\ x1.entry_locks = x.entry_locks /\ x1.callsites = x.callsites \o q
  BY DEF FactsShaped
<1> HIDE DEF x1
<1>4. /\ x1.callsites \in Seq(ToSet(x1.callsites))
      /\ ToSet(x.callsites) \subseteq ToSet(x1.callsites) /\ S \subseteq ToSet(x1.callsites)
  BY <1>2, <1>3, ConcatKeeps, Zenon DEF FactsShaped
<1>5. FactsShaped(x1) /\ Kept(x, x1)
  BY <1>3, <1>4, Zenon DEF FactsShaped, Kept, UsageKept
<1>6. FactsShaped(y) /\ Kept(x1, y)
  BY <1>5, EmitEffectKeeps
<1>7. ToSet(x1.callsites) \subseteq ToSet(y.callsites)
  BY <1>6, Zenon DEF Kept
<1> HIDE DEF y
<1>8. Kept(x, y) /\ S \subseteq ToSet(y.callsites)
  BY <1>4, <1>5, <1>6, <1>7, KeptTransitive
<1> QED
  BY <1>1, <1>6, <1>8, Zenon DEF S, s, term

-----------------------------------------------------------------------------
(* The passes over a body and over the contexts of a function. *)

BlockStep(env, acc, b) ==
    [state |-> AfterBlock(env.fn, acc.state, env.fn.blocks[b], env.known),
     facts |-> EmitBlock(env.fn, Fns, acc.facts, acc.state, b, env.known)]
ContextStep(env, acc, context) == MergeFacts(acc, AnalyzeBody(env.fn, context, env.known))
Anything(env, i, acc) == TRUE
Passing == INSTANCE FoldInduction WITH Op <- BlockStep, P <- Anything
Merging == INSTANCE FoldInduction WITH Op <- ContextStep, P <- Anything

\* The states and facts before each block of the pass over a body, which an execution
\* of the body also goes through.
IsRun(fn, context, known, tr) ==
    /\ tr[0] = [state |-> EntryState(fn, context), facts |-> NoFacts]
    /\ \A b \in DOMAIN fn.blocks : tr[b] = BlockStep([fn |-> fn, known |-> known], tr[b - 1], b)

LEMMA RunExists ==
    ASSUME NEW fn, NEW context, NEW known, NEW D, fn.blocks \in Seq(D)
    PROVE  \E tr : /\ IsRun(fn, context, known, tr)
                   /\ AnalyzeBody(fn, context, known) = tr[Len(fn.blocks)].facts
<1> DEFINE env == [fn |-> fn, known |-> known]
           blocks == fn.blocks
           q == [b \in DOMAIN blocks |-> b]
           start == [state |-> EntryState(fn, context), facts |-> NoFacts]
<1>1. Len(blocks) \in Nat /\ DOMAIN blocks = 1 .. Len(blocks)
  BY LenProperties
<1>2. q \in Seq(1 .. Len(blocks)) /\ Len(q) = Len(blocks)
      /\ \A b \in 1 .. Len(blocks) : q[b] = b
  BY <1>1
<1>3. env.fn = fn /\ env.known = known
  OBVIOUS
<1>4. AnalyzeBody(fn, context, known) = Passing!Loop(env, start, q).facts
  BY <1>3 DEF AnalyzeBody, BlockStep, FoldLeft, MapThenFoldSet, Max, Passing!Loop,
              Passing!FoldLeft, Passing!MapThenFoldSet, Passing!Max
<1> HIDE DEF env, start, q
<1>5. PICK tr : Passing!IsTrace(env, start, q, tr)
  <2>1. q \in Seq(1 .. Len(blocks))
    BY <1>2
  <2> QED
    BY <2>1, Passing!FoldLeftTrace, Zenon
<1>6. IsRun(fn, context, known, tr)
  BY <1>1, <1>2, <1>5 DEF IsRun, env, start, Passing!IsTrace
<1> QED
  BY <1>2, <1>4, <1>5, <1>6 DEF Passing!IsTrace

\* What a block reports is in what the pass leaves.
LEMMA RunKeeps ==
    ASSUME NEW fn, NEW context, NEW known, NEW D, fn.blocks \in Seq(D),
           NEW tr, IsRun(fn, context, known, tr)
    PROVE  /\ FactsShaped(tr[Len(fn.blocks)].facts)
           /\ \A b \in DOMAIN fn.blocks :
                 FactsShaped(tr[b - 1].facts) /\ Kept(tr[b].facts, tr[Len(fn.blocks)].facts)
<1> DEFINE n == Len(fn.blocks)
<1>1. n \in Nat /\ DOMAIN fn.blocks = 1 .. n
  BY LenProperties
<1>2. tr[0].facts = NoFacts
  BY DEF IsRun
<1>3. \A b \in 1 .. n : tr[b].facts = EmitBlock(fn, Fns, tr[b - 1].facts, tr[b - 1].state, b, known)
  <2> DEFINE env == [fn |-> fn, known |-> known]
  <2>1. env.fn = fn /\ env.known = known
    OBVIOUS
  <2>2. \A b \in 1 .. n : tr[b] = BlockStep(env, tr[b - 1], b)
    BY <1>1, Zenon DEF IsRun
  <2>3. \A acc, b : BlockStep(env, acc, b).facts
                       = EmitBlock(env.fn, Fns, acc.facts, acc.state, b, env.known)
    BY DEF BlockStep
  <2> HIDE DEF env, n
  <2> QED
    BY <2>1, <2>2, <2>3
<1> HIDE DEF n
<1>4. FactsShaped(NoFacts)
  BY DEF FactsShaped, NoFacts, ToSet
<1>5. \A b \in 1 .. n : FactsShaped(tr[b - 1].facts)
         => FactsShaped(tr[b].facts) /\ Kept(tr[b - 1].facts, tr[b].facts)
  BY <1>3, EmitBlockKeeps
<1>6. ASSUME NEW k \in 0 .. n
      PROVE  FactsShaped(tr[k].facts)
  <2> DEFINE T == {i \in 0 .. k : FactsShaped(tr[i].facts)}
  <2>1. 0 \in T
    BY <1>1, <1>2, <1>4
  <2>2. ASSUME NEW i \in 0 .. k, i < k, i \in T PROVE i + 1 \in T
    <3>1. i + 1 \in 1 .. n /\ (i + 1) - 1 = i /\ i + 1 \in 0 .. k
      BY <1>1, <2>2
    <3> QED
      BY <1>5, <2>2, <3>1
  <2> HIDE DEF T
  <2>3. k \in T
    <3>1. k \in Nat /\ 0 \in Nat /\ 0 <= k
      BY <1>1
    <3> QED
      BY <2>1, <2>2, <3>1, Passing!StepsFrom
  <2> QED
    BY <2>3 DEF T
<1>7. ASSUME NEW k \in 1 .. n
      PROVE  Kept(tr[k].facts, tr[n].facts)
  <2> DEFINE T == {i \in k .. n : Kept(tr[k].facts, tr[i].facts)}
  <2>1. k \in T
    BY <1>1, KeptReflexive
  <2>2. ASSUME NEW i \in k .. n, i < n, i \in T PROVE i + 1 \in T
    <3>1. i + 1 \in 1 .. n /\ (i + 1) - 1 = i /\ i + 1 \in k .. n /\ i \in 0 .. n
      BY <1>1, <2>2
    <3>2. Kept(tr[i].facts, tr[i + 1].facts) /\ Kept(tr[k].facts, tr[i].facts)
      BY <1>5, <1>6, <2>2, <3>1
    <3> QED
      BY <3>1, <3>2, KeptTransitive
  <2> HIDE DEF T
  <2>3. n \in T
    <3>1. k \in Nat /\ k <= n
      BY <1>1
    <3> QED
      BY <1>1, <2>1, <2>2, <3>1, Passing!StepsFrom
  <2> QED
    BY <2>3 DEF T
<1>8. n \in 0 .. n /\ \A b \in 1 .. n : b - 1 \in 0 .. n
  BY <1>1
<1> QED
  BY <1>1, <1>6, <1>7, <1>8 DEF n

LEMMA MergeKeeps ==
    ASSUME NEW x, NEW y, FactsShaped(x), FactsShaped(y)
    PROVE  FactsShaped(MergeFacts(x, y)) /\ Kept(x, MergeFacts(x, y)) /\ Kept(y, MergeFacts(x, y))
<1> DEFINE u == MergeUsage(x.usage, y.usage)
           m == MergeFacts(x, y)
<1>1. UsageKept(x.usage, u) /\ UsageKept(y.usage, u)
  <2>1. DOMAIN u = DOMAIN x.usage \cup DOMAIN y.usage
        /\ \A l \in DOMAIN u :
              DOMAIN u[l] = DOMAIN Get(x.usage, l, <<>>) \cup DOMAIN Get(y.usage, l, <<>>)
    BY DEF MergeUsage, Over
  <2> HIDE DEF u
  <2> QED
    BY <2>1 DEF UsageKept, Get
<1> HIDE DEF u
<1>2. /\ DOMAIN m = {"events", "edges", "usage", "entry_locks", "return_locks", "callsites"}
      /\ m.edges = x.edges \cup y.edges /\ m.usage = u
      /\ m.entry_locks = x.entry_locks \cup y.entry_locks
      /\ m.callsites = x.callsites \o y.callsites
  BY DEF MergeFacts, u
<1> HIDE DEF m
<1>3. /\ m.callsites \in Seq(ToSet(m.callsites))
      /\ ToSet(x.callsites) \subseteq ToSet(m.callsites)
      /\ ToSet(y.callsites) \subseteq ToSet(m.callsites)
  <2>1. x.callsites \in Seq(ToSet(x.callsites)) /\ y.callsites \in Seq(ToSet(y.callsites))
    BY Zenon DEF FactsShaped
  <2> DEFINE p == x.callsites
             q == y.callsites
  <2>2. m.callsites = p \o q
    BY <1>2
  <2> HIDE DEF p, q
  <2> QED
    BY <2>1, <2>2, ConcatKeeps DEF p, q
<1>4. FactsShaped(m)
  BY <1>2, <1>3, Zenon DEF FactsShaped
<1>5. Kept(x, m) /\ Kept(y, m)
  BY <1>1, <1>2, <1>3 DEF Kept
<1> QED
  BY <1>4, <1>5 DEF m

LEMMA BodyShaped ==
    ASSUME NEW fn, NEW context, NEW known, NEW D, fn.blocks \in Seq(D)
    PROVE  FactsShaped(AnalyzeBody(fn, context, known))
BY RunExists, RunKeeps

\* What is reported in one context is reported.
LEMMA FunctionKeeps ==
    ASSUME NEW fn, NEW known, NEW D, fn.blocks \in Seq(D), NEW contexts, IsFiniteSet(contexts)
    PROVE  /\ FactsShaped(AnalyzeFunction(fn, contexts, known))
           /\ \A context \in contexts : Kept(AnalyzeBody(fn, context, known),
                                             AnalyzeFunction(fn, contexts, known))
<1> DEFINE env == [fn |-> fn, known |-> known]
           q == SetToSeq(contexts)
           n == Len(q)
           body(i) == AnalyzeBody(fn, q[i], known)
<1>1. q \in Seq(contexts) /\ \A c \in contexts : \E i \in 1 .. n : q[i] = c
  BY FiniteAsSequence
<1>2. env.fn = fn /\ env.known = known
  OBVIOUS
<1>3. AnalyzeFunction(fn, contexts, known) = Merging!Loop(env, NoFacts, q)
  BY <1>2 DEF AnalyzeFunction, ContextStep, FoldLeft, MapThenFoldSet, Max, Merging!Loop,
              Merging!FoldLeft, Merging!MapThenFoldSet, Merging!Max
<1> HIDE DEF env, q
<1>4. PICK tr : /\ tr[0] = NoFacts /\ tr[n] = Merging!Loop(env, NoFacts, q)
                /\ \A i \in 1 .. n : tr[i] = ContextStep(env, tr[i - 1], q[i])
  <2>1. q \in Seq(contexts)
    BY <1>1
  <2>2. PICK tr : Merging!IsTrace(env, NoFacts, q, tr)
    BY <2>1, Merging!FoldLeftTrace, Zenon
  <2> QED
    BY <2>2 DEF Merging!IsTrace
<1>5. n \in Nat
  BY <1>1, LenProperties
<1> HIDE DEF n
<1>6. \A i \in 1 .. n : tr[i] = MergeFacts(tr[i - 1], body(i))
  BY <1>2, <1>4 DEF ContextStep
<1>7. \A i \in 1 .. n : FactsShaped(body(i))
  BY BodyShaped
<1> HIDE DEF body
<1>8. FactsShaped(NoFacts)
  BY DEF FactsShaped, NoFacts, ToSet
<1>9. \A i \in 1 .. n : FactsShaped(tr[i - 1])
         => FactsShaped(tr[i]) /\ Kept(tr[i - 1], tr[i]) /\ Kept(body(i), tr[i])
  BY <1>6, <1>7, MergeKeeps
<1>10. ASSUME NEW k \in 0 .. n
       PROVE  FactsShaped(tr[k])
  <2> DEFINE T == {i \in 0 .. k : FactsShaped(tr[i])}
  <2>1. 0 \in T
    BY <1>4, <1>5, <1>8
  <2>2. ASSUME NEW i \in 0 .. k, i < k, i \in T PROVE i + 1 \in T
    <3>1. i + 1 \in 1 .. n /\ (i + 1) - 1 = i /\ i + 1 \in 0 .. k
      BY <1>5, <2>2
    <3> QED
      BY <1>9, <2>2, <3>1
  <2> HIDE DEF T
  <2>3. k \in T
    <3>1. k \in Nat /\ 0 \in Nat /\ 0 <= k
      BY <1>5
    <3> QED
      BY <2>1, <2>2, <3>1, Merging!StepsFrom
  <2> QED
    BY <2>3 DEF T
<1>11. ASSUME NEW k \in 1 .. n
       PROVE  Kept(body(k), tr[n])
  <2> DEFINE T == {i \in k .. n : Kept(body(k), tr[i])}
  <2>1. k \in T
    <3>1. k - 1 \in 0 .. n /\ k \in k .. n
      BY <1>5
    <3> QED
      BY <1>9, <1>10, <3>1
  <2>2. ASSUME NEW i \in k .. n, i < n, i \in T PROVE i + 1 \in T
    <3>1. i + 1 \in 1 .. n /\ (i + 1) - 1 = i /\ i + 1 \in k .. n /\ i \in 0 .. n
      BY <1>5, <2>2
    <3>2. Kept(tr[i], tr[i + 1]) /\ Kept(body(k), tr[i])
      BY <1>9, <1>10, <2>2, <3>1
    <3> QED
      BY <3>1, <3>2, KeptTransitive
  <2> HIDE DEF T
  <2>3. n \in T
    <3>1. k \in Nat /\ k <= n
      BY <1>5
    <3> QED
      BY <1>5, <2>1, <2>2, <3>1, Merging!StepsFrom
  <2> QED
    BY <2>3 DEF T
<1>12. FactsShaped(tr[n])
  BY <1>5, <1>10
<1>13. ASSUME NEW context \in contexts
       PROVE  Kept(AnalyzeBody(fn, context, known), tr[n])
  <2>1. PICK i \in 1 .. n : q[i] = context
    BY <1>1 DEF n
  <2> QED
    BY <1>11, <2>1 DEF body
<1> QED
  BY <1>3, <1>4, <1>12, <1>13

-----------------------------------------------------------------------------
(* What an execution enters is analysed. *)

\* The bodies of the crate.
BodiesInv ==
    \A f \in Fns : /\ IsBody(crate[f]) /\ crate[f].blocks \in Seq(ToSet(crate[f].blocks))
                   /\ crate[f].blocks # <<>>

\* No callable is passed to a callable.
PassingInv ==
    \A f \in Fns : \A b \in DOMAIN crate[f].blocks : LET term == crate[f].blocks[b].term IN
       /\ term.kind = "call"
       /\ \E t \in CalledTarget(crate[f], term.func) : t.kind # "Direct"
       => \A i \in DOMAIN term.args : CalledTarget(crate[f], term.args[i]) = {}

LEMMA ResolvedKeeps ==
    ASSUME NEW fn, IsBody(fn)
    PROVE  IsBody(Resolved(fn)) /\ Resolved(fn).blocks = fn.blocks
<1> DEFINE r == Resolved(fn)
<1>1. r.blocks = fn.blocks /\ DOMAIN r = DOMAIN fn \cup {"known"}
  BY DEF Resolved, With, IsBody
<1> HIDE DEF r
<1> QED
  BY <1>1, Zenon DEF IsBody, r

LEMMA BodyBlocks ==
    ASSUME NEW fn, IsBody(fn)
    PROVE  fn.blocks \in Seq(ToSet(fn.blocks)) /\ fn.blocks # <<>>
<1> DEFINE S == {block \in ToSet(fn.blocks) : IsBlock(block)}
<1>1. fn.blocks \in Seq(S) /\ fn.blocks # <<>> /\ S \subseteq ToSet(fn.blocks)
  BY DEF IsBody
<1> HIDE DEF S
<1> QED
  BY <1>1

LEMMA InitBodies == ASSUME Init PROVE BodiesInv /\ (CallbacksPassedDirectly => PassingInv)
<1>1. PICK c \in Crates : crate = [f \in Fns |-> Resolved(c[f])]
  BY DEF Init
<1>2. \A f \in Fns : crate[f] = Resolved(c[f]) /\ IsBody(c[f])
  BY <1>1, CratesAssumption
<1>3. BodiesInv
  BY <1>2, ResolvedKeeps, BodyBlocks, Zenon DEF BodiesInv
<1>4. ASSUME CallbacksPassedDirectly PROVE PassingInv
  BY <1>2, <1>4, Zenon DEF CallbacksPassedDirectly, PassingInv
<1> QED
  BY <1>3, <1>4

LEMMA CrateSame == ASSUME [Next]_vars PROVE crate' = crate
BY DEF Next, vars, PropagateContexts, Analyze, SummarizeReturns, GrowSummaries, AnalyzeAgain,
       Reseed, Settle, SummarizeEntries, Finalize, Enter, Call, Advance, Finished

\* The contexts of a round are finitely many.
ContextsIn(S) == {p[2] : p \in S}
FoundInv == IsFiniteSet(ContextsIn(propagated)) /\ \A f \in Fns : FactsShaped(analyses[f])

\* The values of a list are finitely many.
LEMMA ListFinite ==
    ASSUME NEW D, NEW q \in Seq(D) PROVE IsFiniteSet(ToSet(q))
<1>1. Len(q) \in Nat /\ DOMAIN q = 1 .. Len(q)
  BY LenProperties
<1> DEFINE h == [i \in 1 .. Len(q) |-> q[i]]
<1>2. IsFiniteSet(1 .. Len(q))
  BY <1>1, FS_Interval
<1>3. h \in Surjection(1 .. Len(q), ToSet(q))
  BY <1>1 DEF Surjection, ToSet
<1> QED
  BY <1>2, <1>3, FS_Surjection, Zenon

\* The contexts that an execution starts in.
Kinds == {"Task", "BottomHalfL1", "BottomHalfL2", "HardIrqTopHalf"}
LEMMA EntryKinds == \A p \in EntryContexts : p[2] \in Kinds
<1> SUFFICES ASSUME NEW p \in EntryContexts PROVE p[2] \in Kinds
  OBVIOUS
<1>1. CASE p \in {<<f, "Task">> : f \in {g \in Fns : crate[g].public}}
  BY <1>1 DEF Kinds
<1>2. CASE \E f \in Fns : \E term \in CallsOf(f) : p \in Registered(f, term)
  <2>1. PICK f \in Fns : \E term \in CallsOf(f) : p \in Registered(f, term)
    BY <1>2
  <2>2. PICK term \in CallsOf(f) : p \in Registered(f, term)
    BY <2>1
  <2> DEFINE entry == IrqEntries[term.func.fn]
  <2>3. term.func.fn \in DOMAIN IrqEntries /\ p[2] = entry.context
    BY <2>2 DEF Registered
  <2>4. \A n \in DOMAIN IrqEntries : IrqEntries[n].context \in Kinds
    BY DEF IrqEntries, Kinds
  <2> QED
    BY <2>3, <2>4
<1> QED
  BY <1>1, <1>2 DEF EntryContexts

LEMMA SeedContextsFinite ==
    ASSUME \A f \in Fns : FactsShaped(analyses[f])
    PROVE  IsFiniteSet(ContextsIn(NextSeeds))
<1> DEFINE F(f) == {site.context : site \in Sites(analyses, f)}
           kinds == {"Task", "BottomHalfL1", "BottomHalfL2", "HardIrqTopHalf"}
           all == UNION {F(f) : f \in Fns}
<1>1. ASSUME NEW f \in Fns PROVE IsFiniteSet(F(f))
  <2> DEFINE S == Sites(analyses, f)
             h == [site \in S |-> site.context]
  <2>1. IsFiniteSet(S)
    BY ListFinite, Zenon DEF Sites, FactsShaped
  <2>2. h \in Surjection(S, F(f))
    BY DEF Surjection
  <2> HIDE DEF S
  <2> QED
    BY <2>1, <2>2, FS_Surjection, Zenon
<1>2. IsFiniteSet(all)
  <2> DEFINE h == [f \in Fns |-> F(f)]
             sets == {F(f) : f \in Fns}
  <2> HIDE DEF F
  <2>1. h \in Surjection(Fns, sets)
    BY DEF Surjection
  <2>2. IsFiniteSet(sets)
    BY <2>1, CratesAssumption, FS_Surjection, Zenon
  <2>3. \A x \in sets : IsFiniteSet(x)
    BY <1>1
  <2> HIDE DEF sets
  <2>4. IsFiniteSet(UNION sets)
    BY <2>2, <2>3, FS_UNION
  <2> QED
    BY <2>4 DEF sets
<1>3. \A p \in EntryContexts : p[2] \in kinds
  BY EntryKinds DEF Kinds
<1>4. ASSUME NEW p \in CallsiteContexts(analyses) PROVE p[2] \in all
  <2>1. PICK f \in Fns : \E site \in Sites(analyses, f) :
            \E g \in Callees(analyses, f, site) : p = <<g, site.context>>
    BY DEF CallsiteContexts
  <2> QED
    BY <2>1
<1>5. ContextsIn(NextSeeds) \subseteq kinds \cup all
  <2> HIDE DEF kinds, all
  <2> QED
    BY <1>3, <1>4 DEF ContextsIn, NextSeeds
<1>6. IsFiniteSet(kinds)
  <2>1. \A S, x : IsFiniteSet(S) => IsFiniteSet(S \cup {x})
    BY FS_AddElement
  <2>2. IsFiniteSet(((({} \cup {"Task"}) \cup {"BottomHalfL1"}) \cup {"BottomHalfL2"})
                       \cup {"HardIrqTopHalf"})
    BY <2>1, FS_EmptySet, Zenon
  <2>3. kinds = ((({} \cup {"Task"}) \cup {"BottomHalfL1"}) \cup {"BottomHalfL2"})
                   \cup {"HardIrqTopHalf"}
    OBVIOUS
  <2> QED
    BY <2>2, <2>3, Zenon
<1> HIDE DEF kinds, all
<1> QED
  BY <1>2, <1>5, <1>6, FS_Union, FS_Subset

LEMMA PropagateContextsKept ==
    ASSUME Propagate, IsFiniteSet(ContextsIn(propagated)), queue \subseteq propagated
    PROVE  IsFiniteSet(ContextsIn(propagated'))
<1>1. PICK p \in queue : propagated' = propagated \cup Reached(p)
  BY DEF Propagate
<1>2. ContextsIn(propagated') \subseteq ContextsIn(propagated)
  <2> SUFFICES ASSUME NEW q \in propagated' PROVE \E r \in propagated : r[2] = q[2]
    BY DEF ContextsIn
  <2>1. CASE q \in Reached(p)
    <3>1. PICK g : q = <<g, p[2]>>
      BY <2>1, Zenon DEF Reached
    <3>2. p \in propagated /\ q[2] = p[2]
      BY <3>1
    <3> QED
      BY <3>2
  <2> QED
    BY <1>1, <2>1
<1> QED
  BY <1>2, FS_Subset

LEMMA ContextsOfFinite ==
    ASSUME IsFiniteSet(ContextsIn(propagated)), NEW f
    PROVE  /\ IsFiniteSet(ContextsOf(f))
           /\ \A c : <<f, c>> \in propagated => c \in ContextsOf(f)
<1> DEFINE found == {p[2] : p \in {q \in propagated : q[1] = f}}
<1>1. found \subseteq ContextsIn(propagated)
  BY DEF ContextsIn
<1>2. IsFiniteSet(found)
  BY <1>1, FS_Subset
<1>3. \A c : <<f, c>> \in propagated => c \in found
  <2> SUFFICES ASSUME NEW c, <<f, c>> \in propagated PROVE c \in found
    OBVIOUS
  <2> DEFINE p == <<f, c>>
  <2>1. p \in {q \in propagated : q[1] = f} /\ p[2] = c
    OBVIOUS
  <2> QED
    BY <2>1
<1>4. ContextsOf(f) = IF found = {} THEN {"Task"} ELSE found
  BY Zenon DEF ContextsOf
<1> HIDE DEF found
<1> QED
  BY <1>2, <1>3, <1>4, FS_Singleton

LEMMA FoundStep ==
    ASSUME BodiesInv, FoundInv, PropagateInv, Idle, [Next]_vars
    PROVE  FoundInv'
<1> USE DEF analysisVars
<1>1. CASE UNCHANGED <<propagated, analyses>>
  BY <1>1 DEF FoundInv
<1>2. CASE PropagateContexts
  BY <1>2, PropagateContextsKept DEF PropagateContexts, FoundInv, PropagateInv
<1>3. CASE Analyze
  <2>1. propagated' = propagated
        /\ analyses' = [f \in Fns |-> AnalyzeFunction(crate[f], ContextsOf(f), returns)]
    BY <1>3 DEF Analyze
  <2>2. ASSUME NEW f \in Fns
        PROVE  FactsShaped(AnalyzeFunction(crate[f], ContextsOf(f), returns))
    <3>1. crate[f].blocks \in Seq(ToSet(crate[f].blocks)) /\ IsFiniteSet(ContextsOf(f))
      BY ContextsOfFinite DEF BodiesInv, FoundInv
    <3> QED
      BY <3>1, FunctionKeeps
  <2> QED
    BY <2>1, <2>2 DEF FoundInv
<1>4. ASSUME NEW round, Reseed(round) PROVE FoundInv'
  <2>1. propagated' = NextSeeds /\ analyses' = analyses
    BY <1>4 DEF Reseed, StartFrom
  <2>2. IsFiniteSet(ContextsIn(NextSeeds))
    BY SeedContextsFinite DEF FoundInv
  <2> QED
    BY <2>1, <2>2 DEF FoundInv
<1>5. CASE SummarizeReturns
  <2>1. PICK round : GrowSummaries(round) \/ AnalyzeAgain(round) \/ Reseed(round) \/ Settle(round)
    BY <1>5 DEF SummarizeReturns
  <2> QED
    BY <1>1, <1>4, <2>1 DEF GrowSummaries, AnalyzeAgain, Settle
<1>6. CASE SummarizeEntries
  BY <1>1, <1>6 DEF SummarizeEntries, GrowSummaries, Finalize
<1>7. CASE Enter \/ Call \/ Advance \/ Finished \/ UNCHANGED vars
  BY <1>1, <1>7 DEF Enter, Call, Advance, Finished, vars
<1> QED
  BY <1>2, <1>3, <1>5, <1>6, <1>7 DEF Next

\* The fields of a frame, and a frame that the analysis has gone through: it is entered in
\* a context the function is analysed in, its state is the one the reporting pass has
\* before the same block, and what it was passed as callables is what the analysis finds.
FrameFields == {"fn", "at", "context", "state", "env", "callables"}
Tracked(frame) ==
    /\ DOMAIN frame = FrameFields
    /\ frame.fn \in Fns /\ frame.at \in DOMAIN crate[frame.fn].blocks
    /\ <<frame.fn, frame.context>> \in propagated
    /\ \A tr : IsRun(crate[frame.fn], frame.context, returns, tr)
                  => frame.state = tr[frame.at - 1].state
    /\ \A i \in DOMAIN frame.callables :
          frame.callables[i] \in CallableArgCallees(analyses, frame.fn, i)

\* The block a frame is at has been reported from the frame's state.
LEMMA BlockReported ==
    ASSUME BodiesInv, FoundInv, AnalysesStand, NEW frame, Tracked(frame)
    PROVE  \E x : /\ FactsShaped(x)
                  /\ Kept(EmitBlock(crate[frame.fn], Fns, x, frame.state, frame.at, returns),
                          analyses[frame.fn])
<1> DEFINE f == frame.fn
           fn == crate[f]
           at == frame.at
           y == AnalyzeBody(fn, frame.context, returns)
<1>1. f \in Fns /\ at \in DOMAIN fn.blocks /\ <<f, frame.context>> \in propagated
      /\ \A tr : IsRun(fn, frame.context, returns, tr) => frame.state = tr[at - 1].state
  BY DEF Tracked
<1>2. fn.blocks \in Seq(ToSet(fn.blocks))
  BY <1>1 DEF BodiesInv
<1>3. IsFiniteSet(ContextsOf(f)) /\ frame.context \in ContextsOf(f)
  BY <1>1, ContextsOfFinite DEF FoundInv
<1>4. analyses[f] = AnalyzeFunction(fn, ContextsOf(f), returns)
  BY <1>1 DEF AnalysesStand, Analyzed
<1>5. Kept(y, analyses[f])
  BY <1>2, <1>3, <1>4, FunctionKeeps
<1>6. PICK tr : IsRun(fn, frame.context, returns, tr) /\ y = tr[Len(fn.blocks)].facts
  BY <1>2, RunExists
<1> DEFINE x == tr[at - 1].facts
           z == EmitBlock(fn, Fns, x, frame.state, at, returns)
<1>7. FactsShaped(x) /\ Kept(tr[at].facts, y)
  BY <1>1, <1>2, <1>6, RunKeeps
<1>8. tr[at].facts = z
  <2> DEFINE env == [fn |-> fn, known |-> returns]
  <2>1. env.fn = fn /\ env.known = returns
    OBVIOUS
  <2>2. tr[at] = BlockStep(env, tr[at - 1], at)
    BY <1>1, <1>6, Zenon DEF IsRun
  <2>3. \A acc, b : BlockStep(env, acc, b).facts
                       = EmitBlock(env.fn, Fns, acc.facts, acc.state, b, env.known)
    BY DEF BlockStep
  <2>4. frame.state = tr[at - 1].state
    BY <1>1, <1>6
  <2> HIDE DEF env
  <2> QED
    BY <2>1, <2>2, <2>3, <2>4
<1> HIDE DEF y, z
<1>9. Kept(z, analyses[f])
  BY <1>5, <1>7, <1>8, KeptTransitive
<1> QED
  BY <1>7, <1>9 DEF z

LEMMA SiteReported ==
    ASSUME BodiesInv, FoundInv, AnalysesStand, NEW frame, Tracked(frame)
    PROVE  CallSites(crate[frame.fn], Fns, Here(frame), TermOf(frame), frame.at)
              \subseteq Sites(analyses, frame.fn)
<1>1. PICK x : /\ FactsShaped(x)
               /\ Kept(EmitBlock(crate[frame.fn], Fns, x, frame.state, frame.at, returns),
                       analyses[frame.fn])
  BY BlockReported
<1> DEFINE y == EmitBlock(crate[frame.fn], Fns, x, frame.state, frame.at, returns)
<1>2. CallSites(crate[frame.fn], Fns, Here(frame), TermOf(frame), frame.at)
         \subseteq ToSet(y.callsites)
  BY <1>1, EmitBlockKeeps, Zenon DEF Here, TermOf
<1>3. ToSet(y.callsites) \subseteq ToSet(analyses[frame.fn].callsites)
  BY <1>1, Zenon DEF Kept
<1> QED
  BY <1>2, <1>3, Zenon DEF Sites

\* What a caller's argument may stand for, the argument of its callee that it is passed on
\* to may stand for; and so may what is passed itself.
LEMMA CallablesPassedOn ==
    ASSUME NEW results, NEW f \in Fns, NEW site \in Sites(results, f), NEW g,
           site.target.kind = "Direct", site.target.fn = g, NEW i \in DOMAIN site.callables
    PROVE  LET target == site.callables[i] IN
           IF target.kind = "Direct" THEN target.fn \in CallableArgCallees(results, g, i)
           ELSE CallableArgCallees(results, f, target.index)
                   \subseteq CallableArgCallees(results, g, i)
<1> DEFINE target == site.callables[i]
           passed == UNION {UNION {{<<h, s.callables[n].index>> : n \in DOMAIN s.callables} :
                                      s \in Sites(results, h)} : h \in Fns}
           args(p) == {p} \cup passed
           Follows(p, S) == p \in S /\ \A q \in S : Callers(results, q) \subseteq S
           visited(p) == {q \in args(p) : \A S \in SUBSET args(p) : Follows(p, S) => q \in S}
           b == [caller |-> f, target |-> target]
<1>1. b \in Bound(results, <<g, i>>)
  <2> DEFINE c == [caller |-> f, bindings |-> site.callables]
  <2>1. c \in Inbound(results, g)
    BY DEF Inbound
  <2>2. i \in {i} \cap DOMAIN c.bindings /\ c.caller = f /\ c.bindings[i] = target
    OBVIOUS
  <2> HIDE DEF c, target
  <2>3. \E d \in Inbound(results, g) : \E n \in {i} \cap DOMAIN d.bindings :
           b = [caller |-> d.caller, target |-> d.bindings[n]]
    BY <2>1, <2>2
  <2> QED
    BY <2>3 DEF Bound
<1>2. \A h, n : CallableArgCallees(results, h, n) =
         {d.target.fn : d \in {c \in UNION {Bound(results, p) : p \in visited(<<h, n>>)} :
                                 c.target.kind = "Direct"}}
  BY Zenon DEF CallableArgCallees
<1>3. b.target = target /\ b.caller = f
  OBVIOUS
<1>4. \A p : p \in visited(p)
  OBVIOUS
<1>5. CASE target.kind = "Direct"
  <2> HIDE DEF target, b, visited
  <2>1. b \in {c \in UNION {Bound(results, p) : p \in visited(<<g, i>>)} :
                 c.target.kind = "Direct"}
    BY <1>1, <1>3, <1>4, <1>5
  <2>2. target.fn \in CallableArgCallees(results, g, i)
    BY <1>2, <1>3, <2>1
  <2> QED
    BY <1>5, <2>2 DEF target
<1>6. CASE target.kind # "Direct"
  <2> DEFINE p == <<f, target.index>>
             q == <<g, i>>
  <2>1. p \in Callers(results, q)
    <3> HIDE DEF b, target
    <3>1. b \in {c \in Bound(results, q) : c.target.kind # "Direct"}
      BY <1>1, <1>3, <1>6
    <3>2. p = <<b.caller, b.target.index>>
      BY <1>3
    <3> QED
      BY <3>1, <3>2, Zenon DEF Callers
  <2>2. \A r : Callers(results, r) \subseteq passed
    <3> SUFFICES ASSUME NEW r, NEW d \in Bound(results, r)
                 PROVE  <<d.caller, d.target.index>> \in passed
      BY DEF Callers
    <3>1. PICK c \in Inbound(results, r[1]) : \E n \in {r[2]} \cap DOMAIN c.bindings :
              d = [caller |-> c.caller, target |-> c.bindings[n]]
      BY DEF Bound
    <3>2. PICK n \in DOMAIN c.bindings : d = [caller |-> c.caller, target |-> c.bindings[n]]
      BY <3>1
    <3>3. PICK h \in Fns : \E s \in Sites(results, h) :
              c = [caller |-> h, bindings |-> s.callables]
      BY DEF Inbound
    <3>4. PICK s \in Sites(results, h) : c = [caller |-> h, bindings |-> s.callables]
      BY <3>3
    <3>5. n \in DOMAIN s.callables /\ d.caller = h /\ d.target = s.callables[n]
      BY <3>2, <3>4
    <3> QED
      BY <3>5
  <2> HIDE DEF passed, target, p, q, b
  <2>3. p \in passed
    BY <2>1, <2>2
  <2>4. visited(p) \subseteq visited(q)
    <3> SUFFICES ASSUME NEW r \in visited(p), NEW S \in SUBSET args(q), Follows(q, S)
                 PROVE  r \in S
      BY <2>3
    <3>1. p \in S \cap passed
      BY <2>1, <2>3
    <3>2. \A v \in S \cap passed : Callers(results, v) \subseteq S \cap passed
      BY <2>2
    <3>3. S \cap passed \in SUBSET args(p)
      OBVIOUS
    <3> QED
      BY <3>1, <3>2, <3>3
  <2> HIDE DEF visited
  <2>5. CallableArgCallees(results, f, target.index) \subseteq CallableArgCallees(results, g, i)
    BY <1>2, <2>4 DEF p, q
  <2> QED
    BY <1>6, <2>5 DEF target
<1> QED
  BY <1>5, <1>6

\* The frame of a call and the frame it pushes.
Entered(frame, next) ==
    /\ TermOf(frame).kind = "call"
    /\ next.fn \in Fns
    /\ \E t \in CalledTarget(crate[frame.fn], TermOf(frame).func) : next.fn \in Denotes(frame, t)
    /\ \E p \in {Pushed(frame, next.fn, Here(frame), TermOf(frame))} :
          next.context = p.context /\ next.env = p.env /\ next.callables = p.callables

StackInv ==
    /\ stack \in Seq(ToSet(stack))
    /\ stack # <<>> => phase = "done"
    /\ \A i \in 1 .. Len(stack) : Tracked(stack[i])
    /\ \A i \in 1 .. Len(stack) - 1 : Entered(stack[i], stack[i + 1])

\* What the analysis stands on while an execution goes on.
Standing ==
    /\ BodiesInv /\ FoundInv /\ AnalysesStand
    /\ seeds = NextSeeds /\ seeds \subseteq propagated

LEMMA PushedFields ==
    ASSUME NEW frame, NEW g, NEW here, NEW term
    PROVE  LET p == Pushed(frame, g, here, term)
               Passed(i) == UNION {Denotes(frame, t) : t \in CalledTarget(crate[frame.fn], term.args[i])}
           IN  /\ DOMAIN p = FrameFields /\ p.fn = g /\ p.at = 1
               /\ p.context = CurrentContext(here.irq)
               /\ p.state = EntryState(crate[g], p.context)
               /\ \A i \in DOMAIN p.callables :
                     i \in DOMAIN term.args /\ p.callables[i] \in Passed(i)
<1> DEFINE Passed(i) == UNION {Denotes(frame, t) : t \in CalledTarget(crate[frame.fn], term.args[i])}
           cs == [i \in {j \in DOMAIN term.args : Passed(j) # {}} |-> CHOOSE h \in Passed(i) : TRUE]
           e == [i \in DOMAIN term.args |->
                   IF i \in DOMAIN ArgBindings(crate[frame.fn], here, term.args)
                   THEN Address(frame, ArgBindings(crate[frame.fn], here, term.args)[i])
                   ELSE NoAddress]
           st == EntryState(crate[g], CurrentContext(here.irq))
           c == CurrentContext(here.irq)
           p == Pushed(frame, g, here, term)
<1>1. p = [fn |-> g, at |-> 1, context |-> c, state |-> st, env |-> e, callables |-> cs]
  BY Zenon DEF Pushed
<1>2. \A i \in DOMAIN cs : i \in DOMAIN term.args /\ cs[i] \in Passed(i)
  <2> HIDE DEF Passed
  <2> QED
    OBVIOUS
<1> HIDE DEF cs, e, st, p
<1>3. /\ DOMAIN p = FrameFields /\ p.fn = g /\ p.at = 1 /\ p.context = c /\ p.state = st
      /\ p.callables = cs
  BY <1>1 DEF FrameFields
<1>4. p.state = EntryState(crate[g], p.context)
  BY <1>3 DEF st
<1> QED
  BY <1>2, <1>3, <1>4 DEF p

\* The callsite that the analysis lists for the call a frame is at.
IsSite(site, frame, t) ==
    /\ site.target = t
    /\ site.bindings = ArgBindings(crate[frame.fn], Here(frame), TermOf(frame).args)
    /\ site.callables = [i \in {j \in DOMAIN TermOf(frame).args :
                                    CalledTarget(crate[frame.fn], TermOf(frame).args[j]) # {}} |->
                           CHOOSE u \in CalledTarget(crate[frame.fn], TermOf(frame).args[i]) : TRUE]
    /\ site.held = Held(Here(frame)) /\ site.irq = Here(frame).irq
    /\ site.context = CurrentContext(Here(frame).irq)

LEMMA SiteOfCall ==
    ASSUME BodiesInv, FoundInv, AnalysesStand, NEW frame, Tracked(frame),
           TermOf(frame).kind = "call",
           NEW g \in Fns, NEW t \in CalledTarget(crate[frame.fn], TermOf(frame).func),
           g \in Denotes(frame, t)
    PROVE  \E site \in Sites(analyses, frame.fn) :
              IsSite(site, frame, t) /\ g \in Callees(analyses, frame.fn, site)
<1> DEFINE f == frame.fn
           fn == crate[f]
           here == Here(frame)
           term == TermOf(frame)
           Targets(i) == CalledTarget(fn, term.args[i])
           callables == [i \in {j \in DOMAIN term.args : Targets(j) # {}} |->
                            CHOOSE u \in Targets(i) : TRUE]
           Site(u) == [target |-> u, dest |-> term.dest,
                       bindings |-> ArgBindings(fn, here, term.args), callables |-> callables,
                       held |-> Held(here), context |-> CurrentContext(here.irq),
                       irq |-> here.irq, location |-> frame.at]
           T == {u \in CalledTarget(fn, term.func) : u.kind = "Direct" => u.fn \in Fns}
           site == Site(t)
<1>1. \A i \in DOMAIN frame.callables :
         frame.callables[i] \in CallableArgCallees(analyses, f, i)
  BY DEF Tracked
<1>2. t.kind = "Direct" => t.fn = g
  BY DEF Denotes
<1>3. site \in CallSites(fn, Fns, here, term, frame.at)
  <2>1. CallSites(fn, Fns, here, term, frame.at)
           = IF term.kind # "call" THEN {} ELSE {Site(u) : u \in T}
    BY Zenon DEF CallSites
  <2> HIDE DEF Site
  <2>2. t \in T
    BY <1>2
  <2> QED
    BY <2>1, <2>2
<1>4. IsSite(site, frame, t) /\ site.target = t
  BY DEF IsSite
<1> HIDE DEF site
<1>5. site \in Sites(analyses, f)
  BY <1>3, SiteReported
<1>6. g \in Callees(analyses, f, site)
  <2>1. CASE t.kind = "Direct"
    BY <1>2, <1>4, <2>1 DEF Callees
  <2>2. CASE t.kind # "Direct"
    <3>1. t.index \in DOMAIN frame.callables /\ frame.callables[t.index] = g
      BY <2>2 DEF Denotes
    <3> QED
      BY <1>1, <1>4, <2>2, <3>1 DEF Callees
  <2> QED
    BY <2>1, <2>2
<1> QED
  BY <1>4, <1>5, <1>6

\* The frame that a call pushes is tracked.
LEMMA PushedTracked ==
    ASSUME Standing, PassingInv, NEW frame, Tracked(frame), TermOf(frame).kind = "call",
           NEW g \in Fns, NEW t \in CalledTarget(crate[frame.fn], TermOf(frame).func),
           g \in Denotes(frame, t)
    PROVE  Tracked(Pushed(frame, g, Here(frame), TermOf(frame)))
<1> DEFINE f == frame.fn
           fn == crate[f]
           here == Here(frame)
           term == TermOf(frame)
           p == Pushed(frame, g, here, term)
           Targets(i) == CalledTarget(fn, term.args[i])
           callables == [i \in {j \in DOMAIN term.args : Targets(j) # {}} |->
                            CHOOSE u \in Targets(i) : TRUE]
<1>1. f \in Fns /\ frame.at \in DOMAIN fn.blocks
      /\ \A i \in DOMAIN frame.callables :
            frame.callables[i] \in CallableArgCallees(analyses, f, i)
  BY DEF Tracked
<1>2. t.kind = "Direct" => t.fn = g
  BY DEF Denotes
<1>3. PICK site \in Sites(analyses, f) :
         IsSite(site, frame, t) /\ g \in Callees(analyses, f, site)
  BY SiteOfCall DEF Standing
<1>4. /\ site.target = t /\ site.context = CurrentContext(here.irq)
      /\ site.callables = callables
  BY <1>3 DEF IsSite
<1>7. <<g, CurrentContext(here.irq)>> \in propagated
  <2>1. \E s \in Sites(analyses, f) : \E h \in Callees(analyses, f, s) :
           <<g, CurrentContext(here.irq)>> = <<h, s.context>>
    BY <1>3, <1>4
  <2>2. <<g, CurrentContext(here.irq)>> \in CallsiteContexts(analyses)
    BY <1>1, <2>1 DEF CallsiteContexts
  <2> QED
    BY <2>2 DEF Standing, NextSeeds
<1>8. /\ DOMAIN p = FrameFields /\ p.fn = g /\ p.at = 1
      /\ p.context = CurrentContext(here.irq) /\ p.state = EntryState(crate[g], p.context)
      /\ \A i \in DOMAIN p.callables :
            /\ i \in DOMAIN term.args
            /\ \E u \in Targets(i) : p.callables[i] \in Denotes(frame, u)
  BY PushedFields
<1>9. ASSUME NEW i \in DOMAIN p.callables
      PROVE  p.callables[i] \in CallableArgCallees(analyses, g, i)
  <2>1. PICK u \in Targets(i) : i \in DOMAIN term.args /\ p.callables[i] \in Denotes(frame, u)
    BY <1>8
  <2>2. t.kind = "Direct"
    <3> SUFFICES ASSUME t.kind # "Direct" PROVE FALSE
      OBVIOUS
    <3>1. Targets(i) = {}
      BY <1>1, <2>1 DEF PassingInv, TermOf
    <3> QED
      BY <2>1, <3>1
  <2>3. i \in DOMAIN callables /\ callables[i] = u
    <3>1. \A v \in Targets(i) : v = u
      BY <2>1, OneTarget
    <3> HIDE DEF Targets
    <3> QED
      BY <2>1, <3>1
  <2> HIDE DEF callables, Targets, p
  <2>4. i \in DOMAIN site.callables /\ site.callables[i] = u
        /\ site.target.kind = "Direct" /\ site.target.fn = g
    BY <1>2, <1>4, <2>2, <2>3
  <2>5. IF u.kind = "Direct" THEN u.fn \in CallableArgCallees(analyses, g, i)
        ELSE CallableArgCallees(analyses, f, u.index) \subseteq CallableArgCallees(analyses, g, i)
    BY <1>1, <1>3, <2>4, CallablesPassedOn
  <2>6. CASE u.kind = "Direct"
    BY <2>1, <2>5, <2>6 DEF Denotes
  <2>7. CASE u.kind # "Direct"
    <3>1. u.index \in DOMAIN frame.callables /\ p.callables[i] = frame.callables[u.index]
      BY <2>1, <2>7 DEF Denotes
    <3> QED
      BY <1>1, <2>5, <2>7, <3>1
  <2> QED
    BY <2>6, <2>7
<1>10. 1 \in DOMAIN crate[g].blocks
  <2>1. crate[g].blocks \in Seq(ToSet(crate[g].blocks)) /\ crate[g].blocks # <<>>
    BY DEF Standing, BodiesInv
  <2> QED
    BY <2>1, LenProperties, EmptySeq
<1>11. \A tr : IsRun(crate[g], p.context, returns, tr) => p.state = tr[p.at - 1].state
  BY <1>8 DEF IsRun
<1> HIDE DEF p
<1>12. Tracked(p)
  BY <1>7, <1>8, <1>9, <1>10, <1>11 DEF Tracked
<1> QED
  BY <1>12 DEF p

LEMMA ListOfItsValues ==
    ASSUME NEW D, NEW q \in Seq(D) PROVE q \in Seq(ToSet(q))
<1>1. Len(q) \in Nat /\ DOMAIN q = 1 .. Len(q)
  BY LenProperties
<1>2. \A i \in 1 .. Len(q) : q[i] \in ToSet(q)
  BY <1>1 DEF ToSet
<1>3. q = [i \in 1 .. Len(q) |-> q[i]]
  BY <1>1
<1> QED
  BY <1>1, <1>2, <1>3

LEMMA Appended ==
    ASSUME NEW q, q \in Seq(ToSet(q)), NEW x
    PROVE  LET r == Append(q, x)
           IN  /\ r \in Seq(ToSet(r)) /\ Len(r) = Len(q) + 1 /\ Len(q) \in Nat
               /\ \A i \in 1 .. Len(q) : r[i] = q[i]
               /\ r[Len(q) + 1] = x
<1> DEFINE S == ToSet(q) \cup {x}
           r == Append(q, x)
<1>1. q \in Seq(S)
  OBVIOUS
<1>2. /\ r \in Seq(S) /\ Len(r) = Len(q) + 1
      /\ \A i \in 1 .. Len(q) : r[i] = q[i]
      /\ r[Len(q) + 1] = x
  BY <1>1, AppendProperties
<1>3. Len(q) \in Nat
  BY <1>1, LenProperties
<1>4. r \in Seq(ToSet(r))
  BY <1>2, ListOfItsValues
<1> QED
  BY <1>2, <1>3, <1>4 DEF r

\* An execution changes nothing of what the analysis found.
LEMMA ExecutionKeeps ==
    ASSUME UNCHANGED <<crate, propagated, returns, analyses>>
    PROVE  /\ \A frame : Tracked(frame)' <=> Tracked(frame)
           /\ \A frame, next : Entered(frame, next)' <=> Entered(frame, next)
<1>1. \A frame : Tracked(frame)' <=> Tracked(frame)
  BY DEF Tracked
<1>2. \A frame : TermOf(frame)' = TermOf(frame) /\ Here(frame)' = Here(frame)
  BY DEF TermOf, Here
<1>3. \A frame, g, here, term : Pushed(frame, g, here, term)' = Pushed(frame, g, here, term)
  BY DEF Pushed
<1>4. \A frame, next : Entered(frame, next)' <=> Entered(frame, next)
  BY <1>2, <1>3 DEF Entered
<1> QED
  BY <1>1, <1>4

LEMMA EnterTracked ==
    ASSUME Standing, NEW p \in Entries, NEW frame,
           DOMAIN frame = FrameFields, frame.fn = p[1], frame.at = 1, frame.context = p[2],
           frame.state = EntryState(crate[p[1]], p[2]), frame.callables = <<>>
    PROVE  Tracked(frame)
<1>1. p \in EntryContexts /\ p[1] \in Fns
  BY DEF Entries
<1>2. p = <<p[1], p[2]>>
  <2>1. CASE p \in {<<f, "Task">> : f \in {g \in Fns : crate[g].public}}
    BY <2>1
  <2>2. CASE \E f \in Fns : \E term \in CallsOf(f) : p \in Registered(f, term)
    BY <2>2 DEF Registered
  <2> QED
    BY <1>1, <2>1, <2>2 DEF EntryContexts
<1>3. <<p[1], p[2]>> \in propagated
  BY <1>1, <1>2 DEF Standing, NextSeeds
<1>4. 1 \in DOMAIN crate[p[1]].blocks
  <2>1. crate[p[1]].blocks \in Seq(ToSet(crate[p[1]].blocks)) /\ crate[p[1]].blocks # <<>>
    BY <1>1 DEF Standing, BodiesInv
  <2> QED
    BY <2>1, LenProperties, EmptySeq
<1>5. \A tr : IsRun(crate[frame.fn], frame.context, returns, tr)
         => frame.state = tr[frame.at - 1].state
  BY DEF IsRun
<1>6. DOMAIN frame.callables = {}
  OBVIOUS
<1> QED
  BY <1>1, <1>3, <1>4, <1>5, <1>6 DEF Tracked

\* The next block is entered in the state the reporting pass enters it in.
LEMMA AdvanceTracked ==
    ASSUME Standing, NEW frame, Tracked(frame), frame.at < Len(crate[frame.fn].blocks),
           NEW next, next = Advanced(frame)
    PROVE  /\ Tracked(next)
           /\ next.fn = frame.fn /\ next.context = frame.context
           /\ next.env = frame.env /\ next.callables = frame.callables
<1> DEFINE fn == crate[frame.fn]
           after == AfterBlock(fn, frame.state, fn.blocks[frame.at], returns)
<1>1. fn.blocks \in Seq(ToSet(fn.blocks))
  BY DEF Tracked, BodiesInv, Standing
<1>2. Len(fn.blocks) \in Nat /\ DOMAIN fn.blocks = 1 .. Len(fn.blocks)
  BY <1>1, LenProperties
<1>3. next = [frame EXCEPT !.at = frame.at + 1, !.state = after]
  BY DEF Advanced
<1> HIDE DEF after
<1>4. /\ DOMAIN next = FrameFields /\ next.fn = frame.fn /\ next.context = frame.context
      /\ next.env = frame.env /\ next.callables = frame.callables
      /\ next.at = frame.at + 1 /\ next.state = after
  BY <1>3 DEF Tracked, FrameFields
<1>5. frame.at \in 1 .. Len(fn.blocks) /\ next.at \in DOMAIN fn.blocks
      /\ next.at - 1 = frame.at
  BY <1>2, <1>4 DEF Tracked
<1>6. ASSUME NEW tr, IsRun(fn, frame.context, returns, tr)
      PROVE  after = tr[frame.at].state
  <2> DEFINE env == [fn |-> fn, known |-> returns]
  <2>1. env.fn = fn /\ env.known = returns
    OBVIOUS
  <2>2. tr[frame.at] = BlockStep(env, tr[frame.at - 1], frame.at)
    BY <1>2, <1>5, <1>6, Zenon DEF IsRun
  <2>3. \A acc, b : BlockStep(env, acc, b).state
                       = AfterBlock(env.fn, acc.state, env.fn.blocks[b], env.known)
    BY DEF BlockStep
  <2>4. frame.state = tr[frame.at - 1].state
    BY <1>6 DEF Tracked
  <2> HIDE DEF env
  <2> QED
    BY <2>1, <2>2, <2>3, <2>4 DEF after
<1> QED
  BY <1>4, <1>5, <1>6 DEF Tracked

\* So what is now said of the next frames will be true of them.
FramesFit(s) ==
    /\ \A i \in 1 .. Len(s) : Tracked(s[i])
    /\ \A i \in 1 .. Len(s) - 1 : Entered(s[i], s[i + 1])

FitOfStack ==
    \A s : s = stack => (FramesFit(s) => /\ \A i \in 1 .. Len(stack) : Tracked(stack[i])
                                        /\ \A i \in 1 .. Len(stack) - 1 :
                                              Entered(stack[i], stack[i + 1]))
LEMMA FramesOfStack == FitOfStack
BY DEF FitOfStack, FramesFit

LEMMA FramesKept ==
    ASSUME UNCHANGED <<crate, propagated, returns, analyses>>,
           stack' \in Seq(ToSet(stack')), phase' = "done",
           \A i \in 1 .. Len(stack') : Tracked(stack'[i]),
           \A i \in 1 .. Len(stack') - 1 : Entered(stack'[i], stack'[i + 1])
    PROVE  StackInv'
<1>1. PICK s : s = stack'
  OBVIOUS
<1>2. FramesFit(s)'
  BY <1>1, ExecutionKeeps DEF FramesFit
<1>3. FitOfStack'
  BY FramesOfStack, PTL
<1>4. (\A i \in 1 .. Len(stack) : Tracked(stack[i]))'
      /\ (\A i \in 1 .. Len(stack) - 1 : Entered(stack[i], stack[i + 1]))'
  BY <1>1, <1>2, <1>3 DEF FitOfStack
<1> QED
  BY <1>4 DEF StackInv

LEMMA StackPushed ==
    ASSUME StackInv, NEW frame, Tracked(frame), phase = "done",
           stack # <<>> => Entered(stack[Len(stack)], frame),
           UNCHANGED <<crate, propagated, returns, analyses, phase>>,
           stack' = Append(stack, frame)
    PROVE  StackInv'
<1>1. /\ stack' \in Seq(ToSet(stack')) /\ Len(stack') = Len(stack) + 1 /\ Len(stack) \in Nat
      /\ \A i \in 1 .. Len(stack) : stack'[i] = stack[i]
      /\ stack'[Len(stack) + 1] = frame
  BY Appended DEF StackInv
<1>2. \A i \in 1 .. Len(stack') : Tracked(stack'[i])
  <2> SUFFICES ASSUME NEW i \in 1 .. Len(stack') PROVE Tracked(stack'[i])
    OBVIOUS
  <2>1. CASE i = Len(stack) + 1
    BY <1>1, <2>1
  <2>2. CASE i # Len(stack) + 1
    <3>1. i \in 1 .. Len(stack)
      BY <1>1, <2>2
    <3> QED
      BY <1>1, <3>1 DEF StackInv
  <2> QED
    BY <2>1, <2>2
<1>3. \A i \in 1 .. Len(stack') - 1 : Entered(stack'[i], stack'[i + 1])
  <2> SUFFICES ASSUME NEW i \in 1 .. Len(stack') - 1 PROVE Entered(stack'[i], stack'[i + 1])
    OBVIOUS
  <2>1. CASE i = Len(stack)
    <3>1. stack # <<>> /\ stack'[i] = stack[i] /\ stack'[i + 1] = frame
      BY <1>1, <2>1
    <3> QED
      BY <2>1, <3>1
  <2>2. CASE i # Len(stack)
    <3>1. i \in 1 .. Len(stack) - 1 /\ i \in 1 .. Len(stack) /\ i + 1 \in 1 .. Len(stack)
      BY <1>1, <2>2
    <3> QED
      BY <1>1, <3>1 DEF StackInv
  <2> QED
    BY <2>1, <2>2
<1> QED
  BY <1>1, <1>2, <1>3, FramesKept

LEMMA StackAdvanced ==
    ASSUME Standing, StackInv, Advance
    PROVE  StackInv'
<1> DEFINE n == Len(stack)
           next == Advanced(stack[n])
<1>1. /\ stack # <<>> /\ stack[n].at < Len(crate[stack[n].fn].blocks)
      /\ stack' = [stack EXCEPT ![n] = next]
      /\ UNCHANGED <<crate, propagated, returns, analyses, phase>>
  BY DEF Advance, Top, Last, analysisVars
<1>2. n \in Nat /\ DOMAIN stack = 1 .. n /\ n \in 1 .. n
  BY <1>1, LenProperties, EmptySeq DEF StackInv
<1>3. Tracked(stack[n])
  BY <1>2 DEF StackInv
<1>4. /\ Tracked(next) /\ next.fn = stack[n].fn /\ next.context = stack[n].context
      /\ next.env = stack[n].env /\ next.callables = stack[n].callables
  BY <1>1, <1>3, AdvanceTracked
<1> HIDE DEF next
<1>5. /\ stack' \in Seq(ToSet(stack) \cup {next}) /\ Len(stack') = n /\ stack'[n] = next
      /\ \A i \in 1 .. n : i # n => stack'[i] = stack[i]
  <2> DEFINE S == ToSet(stack) \cup {next}
  <2>1. stack \in Seq(S) /\ next \in S
    BY DEF StackInv
  <2> HIDE DEF S
  <2>2. /\ [stack EXCEPT ![n] = next] \in Seq(S) /\ Len([stack EXCEPT ![n] = next]) = n
        /\ \A j \in 1 .. n : [stack EXCEPT ![n] = next][j] = IF j = n THEN next ELSE stack[j]
    BY <1>2, <2>1, ExceptSeq
  <2> QED
    BY <1>1, <1>2, <2>2 DEF S
<1>6. stack' \in Seq(ToSet(stack'))
  BY <1>5, ListOfItsValues
<1> HIDE DEF n
<1>7. \A i \in 1 .. n : Tracked(stack'[i])
  BY <1>4, <1>5 DEF StackInv, n
<1>8. \A i \in 1 .. n - 1 : Entered(stack'[i], stack'[i + 1])
  <2> SUFFICES ASSUME NEW i \in 1 .. n - 1 PROVE Entered(stack'[i], stack'[i + 1])
    OBVIOUS
  <2>1. i \in 1 .. n /\ i # n /\ i + 1 \in 1 .. n
    BY <1>2
  <2>2. Entered(stack[i], stack[i + 1]) /\ stack'[i] = stack[i]
    BY <1>5, <2>1 DEF StackInv, n
  <2>3. CASE i + 1 = n
    BY <1>4, <1>5, <2>2, <2>3 DEF Entered
  <2>4. CASE i + 1 # n
    BY <1>5, <2>1, <2>2, <2>4
  <2> QED
    BY <2>3, <2>4
<1>9. phase' = "done"
  BY <1>1 DEF StackInv
<1> QED
  BY <1>1, <1>5, <1>6, <1>7, <1>8, <1>9, FramesKept

LEMMA NoFramesInv == ASSUME stack = <<>> PROVE StackInv
<1>1. Len(stack) = 0 /\ stack \in Seq(ToSet(stack))
  OBVIOUS
<1> QED
  BY <1>1 DEF StackInv

LEMMA StackStep ==
    ASSUME PassingInv, StackInv, phase = "done" => Standing, [Next]_vars
    PROVE  StackInv'
<1> USE DEF analysisVars
<1>1. CASE stack' = <<>>
  <2>1. Len(stack') = 0 /\ stack' \in Seq(ToSet(stack'))
    BY <1>1
  <2> QED
    BY <1>1, <2>1 DEF StackInv
<1>2. ASSUME phase # "done", stack' = stack PROVE StackInv'
  BY <1>1, <1>2 DEF StackInv
<1>3. CASE PropagateContexts \/ Analyze
  BY <1>2, <1>3 DEF PropagateContexts, Analyze
<1>4. CASE SummarizeReturns
  BY <1>2, <1>4 DEF SummarizeReturns, GrowSummaries, AnalyzeAgain, Reseed, Settle
<1>5. CASE SummarizeEntries
  BY <1>2, <1>5 DEF SummarizeEntries, GrowSummaries, Finalize
<1>6. CASE Enter
  <2>1. PICK p \in Entries :
           stack' = <<[fn |-> p[1], at |-> 1, context |-> p[2],
                       state |-> EntryState(crate[p[1]], p[2]),
                       env |-> [i \in 1 .. crate[p[1]].args |->
                                  [root |-> Root("Arg", p[1], i), fields |-> <<>>]],
                       callables |-> <<>>]>>
    BY <1>6 DEF Enter
  <2> DEFINE e == [i \in 1 .. crate[p[1]].args |->
                     [root |-> Root("Arg", p[1], i), fields |-> <<>>]]
             st == EntryState(crate[p[1]], p[2])
             frame == [fn |-> p[1], at |-> 1, context |-> p[2], state |-> st, env |-> e,
                       callables |-> <<>>]
  <2>2. stack' = <<frame>>
    BY <2>1
  <2> HIDE DEF e, st
  <2>3. /\ DOMAIN frame = FrameFields /\ frame.fn = p[1] /\ frame.at = 1
        /\ frame.context = p[2] /\ frame.state = EntryState(crate[p[1]], p[2])
        /\ frame.callables = <<>>
    BY DEF FrameFields, st
  <2> HIDE DEF frame
  <2>4. /\ stack = <<>> /\ phase = "done"
        /\ UNCHANGED <<crate, propagated, returns, analyses, phase>>
    BY <1>6 DEF Enter
  <2>5. Tracked(frame)
    BY <2>3, <2>4, EnterTracked
  <2>6. stack' = Append(stack, frame)
    BY <2>2, <2>4
  <2> QED
    BY <2>4, <2>5, <2>6, StackPushed
<1>7. CASE Call
  <2>1. /\ stack # <<>> /\ phase = "done" /\ TermOf(Top).kind = "call"
        /\ UNCHANGED <<crate, propagated, returns, analyses, phase>>
    BY <1>7 DEF Call, StackInv
  <2>2. PICK g \in Fns : \E t \in CalledTarget(crate[Top.fn], TermOf(Top).func) :
            /\ g \in Denotes(Top, t)
            /\ stack' = Append(stack, Pushed(Top, g, Here(Top), TermOf(Top)))
    BY <1>7 DEF Call
  <2>3. Tracked(Top) /\ Top = stack[Len(stack)]
    BY <2>1, LenProperties, EmptySeq DEF StackInv, Top, Last
  <2> DEFINE frame == Pushed(Top, g, Here(Top), TermOf(Top))
  <2>4. Tracked(frame)
    BY <2>1, <2>2, <2>3, PushedTracked
  <2>5. frame.fn = g
    BY PushedFields
  <2>6. Entered(Top, frame)
    <3> HIDE DEF frame
    <3>1. frame = Pushed(Top, frame.fn, Here(Top), TermOf(Top))
      BY <2>5 DEF frame
    <3> QED
      BY <2>1, <2>2, <2>5, <3>1 DEF Entered
  <2> QED
    BY <2>1, <2>2, <2>3, <2>4, <2>6, StackPushed
<1>8. CASE Advance
  <2>1. phase = "done"
    BY <1>8 DEF Advance, StackInv
  <2> QED
    BY <1>8, <2>1, StackAdvanced
<1>9. CASE Finished \/ UNCHANGED vars
  <2>1. UNCHANGED <<crate, propagated, returns, analyses, phase, stack>>
    BY <1>9 DEF Finished, vars
  <2> QED
    BY <2>1, ExecutionKeeps DEF StackInv
<1> QED
  BY <1>3, <1>4, <1>5, <1>6, <1>7, <1>8, <1>9 DEF Next

\* The loops, what they found, and the frames of the execution.
CallsInv ==
    /\ PropagateInv /\ Idle /\ FixpointInv
    /\ BodiesInv /\ PassingInv /\ FoundInv
    /\ StackInv

LEMMA InitCalls == ASSUME Init, CallbacksPassedDirectly PROVE CallsInv
<1>1. PropagateInv /\ Idle
  BY InitRefines, StartInv
<1>2. BodiesInv /\ PassingInv
  BY InitBodies
<1>3. analyses = [f \in Fns |-> NoFacts] /\ propagated = NextSeeds
  <2>1. analyses = [f \in Fns |-> NoFacts] /\ propagated = EntryContexts
    BY DEF Init
  <2>4. NoFacts.callsites = <<>>
    BY DEF NoFacts
  <2>5. \A f \in Fns : analyses[f].callsites = <<>>
    BY <2>1, <2>4, Zenon
  <2>6. ToSet(<<>>) = {}
    BY DEF ToSet
  <2>2. \A f \in Fns : Sites(analyses, f) = {}
    BY <2>5, <2>6, Zenon DEF Sites
  <2>3. CallsiteContexts(analyses) = {}
    BY <2>2 DEF CallsiteContexts
  <2> QED
    BY <2>1, <2>3 DEF NextSeeds
<1>4. FoundInv
  <2>1. FactsShaped(NoFacts)
    BY DEF FactsShaped, NoFacts, ToSet
  <2>2. \A f \in Fns : FactsShaped(analyses[f])
    BY <1>3, <2>1
  <2> QED
    BY <1>3, <2>2, SeedContextsFinite DEF FoundInv
<1>5. FixpointInv /\ StackInv
  BY NoFramesInv DEF Init, FixpointInv
<1> QED
  BY <1>1, <1>2, <1>4, <1>5 DEF CallsInv

LEMMA CallsStep == ASSUME CallsInv, [Next]_vars PROVE CallsInv'
<1> USE DEF CallsInv
<1>1. PropagateInv' /\ Idle'
  BY NextRefines, PropagateStep, RestartStep, StutterStep
<1>2. FixpointInv' /\ FoundInv'
  BY FixpointStep, FoundStep
<1>3. BodiesInv' /\ PassingInv'
  BY CrateSame DEF BodiesInv, PassingInv
<1>4. phase = "done" => Standing
  BY DEF Standing, FixpointInv, LoopsStand, PropagateInv
<1>5. StackInv'
  BY <1>4, StackStep
<1> QED
  BY <1>1, <1>2, <1>3, <1>5

\* However deep the calls and callbacks, an execution of any crate enters a function only in
\* contexts the function is analysed in, its interrupt entries, its callers' interrupt states
\* and what they pass as callables included; as long as callbacks are passed directly.
THEOREM ContextsOfExecutions ==
    ASSUME CallbacksPassedDirectly
    PROVE  Spec => []EveryContextAnalysed
<1>1. CallsInv => EveryContextAnalysed
  <2> SUFFICES ASSUME CallsInv, NEW i \in DOMAIN stack
               PROVE  <<stack[i].fn, stack[i].context>> \in propagated
    BY DEF EveryContextAnalysed
  <2>1. i \in 1 .. Len(stack)
    BY LenProperties DEF CallsInv, StackInv
  <2> QED
    BY <2>1 DEF CallsInv, StackInv, Tracked
<1>2. Init => CallsInv
  BY InitCalls
<1>3. CallsInv /\ [Next]_vars => CallsInv'
  BY CallsStep
<1> QED
  BY <1>1, <1>2, <1>3, PTL DEF Spec

-----------------------------------------------------------------------------
(* What a state of a body is made of. *)

\* A lock, and the classes bound to arguments, with their projections.
LockFields == {"class", "primitive", "acquire", "behavior"}
IsLock(lock) == DOMAIN lock = LockFields /\ lock.class.proj \in Seq(STRING)
BoundNames(bindings) == \A i \in DOMAIN bindings : bindings[i].proj \in Seq(STRING)
LocksKnown(known) == \A f \in DOMAIN known : \A lock \in known[f] : IsLock(lock)

\* A state in a context, before its interrupt flags are refreshed, of a function that is
\* given no interrupt guard unless "given".
FromBase(s, c) ==
    /\ s.irq.base = FromContext(c).base
    /\ s.irq.base_hard = FromContext(c).base_hard /\ s.irq.base_soft = FromContext(c).base_soft
    /\ s.irq.hard_depth = FromContext(c).hard_depth
    /\ s.irq.soft_depth = FromContext(c).soft_depth
StateFields == {"aliases", "guards", "irq_locals", "origins", "irq"}
IrqFields == {"base", "base_hard", "base_soft", "hard_depth", "soft_depth", "hard", "soft"}
Stale(s, c, given) ==
    /\ DOMAIN s = StateFields /\ DOMAIN s.irq = IrqFields
    /\ \A l \in DOMAIN s.aliases : s.aliases[l].proj \in Seq(STRING)
    /\ \A l \in DOMAIN s.guards : IsLock(s.guards[l])
    /\ FromBase(s, c)
    /\ given \/ s.irq_locals = {}

\* And once they are.
Good(s, c, given) ==
    /\ Stale(s, c, given)
    /\ s.irq.hard = (s.irq.base_hard /\ ~Masked(s))
    /\ s.irq.soft = (s.irq.base_soft /\ ~Masked(s))

LEMMA RefreshFields ==
    ASSUME NEW s, DOMAIN s = StateFields, DOMAIN s.irq = IrqFields
    PROVE  LET r == RefreshIrq(s)
           IN  /\ DOMAIN r = DOMAIN s /\ DOMAIN r.irq = DOMAIN s.irq
               /\ r.aliases = s.aliases /\ r.guards = s.guards
               /\ r.irq_locals = s.irq_locals /\ r.origins = s.origins
               /\ r.irq.base = s.irq.base
               /\ r.irq.base_hard = s.irq.base_hard /\ r.irq.base_soft = s.irq.base_soft
               /\ r.irq.hard_depth = s.irq.hard_depth /\ r.irq.soft_depth = s.irq.soft_depth
               /\ r.irq.hard = (s.irq.base_hard /\ ~Masked(s))
               /\ r.irq.soft = (s.irq.base_soft /\ ~Masked(s))
<1> DEFINE m == Masked(s)
<1> HIDE DEF m
<1>1. LET r == SetMasked(s, m)
      IN  /\ DOMAIN r = DOMAIN s /\ DOMAIN r.irq = DOMAIN s.irq
          /\ r.aliases = s.aliases /\ r.guards = s.guards
          /\ r.irq_locals = s.irq_locals /\ r.origins = s.origins
          /\ r.irq.base = s.irq.base
          /\ r.irq.base_hard = s.irq.base_hard /\ r.irq.base_soft = s.irq.base_soft
          /\ r.irq.hard_depth = s.irq.hard_depth /\ r.irq.soft_depth = s.irq.soft_depth
          /\ r.irq.hard = (s.irq.base_hard /\ ~m)
          /\ r.irq.soft = (s.irq.base_soft /\ ~m)
  BY DEF SetMasked, StateFields, IrqFields
<1> QED
  BY <1>1, Zenon DEF m, RefreshIrq

LEMMA MaskedByFields ==
    ASSUME NEW s, NEW t, s.guards = t.guards, s.irq_locals = t.irq_locals
    PROVE  Masked(s) = Masked(t)
BY Zenon DEF Masked

LEMMA RefreshIsGood ==
    ASSUME NEW s, NEW c, NEW given, Stale(s, c, given)
    PROVE  Good(RefreshIrq(s), c, given)
<1> DEFINE r == RefreshIrq(s)
<1>1. /\ DOMAIN r = DOMAIN s /\ DOMAIN r.irq = DOMAIN s.irq
      /\ r.aliases = s.aliases /\ r.guards = s.guards
      /\ r.irq_locals = s.irq_locals /\ r.origins = s.origins
      /\ r.irq.base = s.irq.base
      /\ r.irq.base_hard = s.irq.base_hard /\ r.irq.base_soft = s.irq.base_soft
      /\ r.irq.hard_depth = s.irq.hard_depth /\ r.irq.soft_depth = s.irq.soft_depth
      /\ r.irq.hard = (s.irq.base_hard /\ ~Masked(s))
      /\ r.irq.soft = (s.irq.base_soft /\ ~Masked(s))
  BY RefreshFields, Zenon DEF Stale
<1> HIDE DEF r
<1>2. Masked(r) = Masked(s)
  BY <1>1, MaskedByFields
<1>3. Stale(r, c, given)
  BY <1>1, Zenon DEF Stale, FromBase
<1> QED
  BY <1>1, <1>2, <1>3, Zenon DEF Good, r

\* The entry of a function.
LEMMA EntryIsGood ==
    ASSUME NEW fn, NEW c
    PROVE  Good(EntryState(fn, c), c, fn.irq_guard_arg)
<1> DEFINE w == WithContext(c)
           b == FromContext(c)
<1>1. /\ DOMAIN w = StateFields /\ w.irq = b /\ w.irq_locals = {}
      /\ w.aliases = <<>> /\ w.guards = <<>>
  BY DEF WithContext, StateFields
<1>2. DOMAIN b = IrqFields /\ b.hard = b.base_hard /\ b.soft = b.base_soft
      /\ b.base_hard \in BOOLEAN /\ b.base_soft \in BOOLEAN
  BY DEF FromContext, IrqFields
<1> HIDE DEF w, b
<1>3. \A g : Stale(w, c, g)
  BY <1>1, <1>2 DEF Stale, FromBase, b
<1>4. ~Masked(w)
  BY <1>1 DEF Masked
<1>5. \A g : Good(w, c, g)
  BY <1>1, <1>2, <1>3, <1>4 DEF Good
<1> DEFINE v == [w EXCEPT !.irq_locals = {1}]
<1>6. /\ DOMAIN v = StateFields /\ v.irq = w.irq /\ v.aliases = w.aliases
      /\ v.guards = w.guards
  BY <1>1 DEF StateFields
<1> HIDE DEF v
<1>7. Stale(v, c, TRUE)
  BY <1>3, <1>6, Zenon DEF Stale, FromBase
<1>8. Good(RefreshIrq(v), c, TRUE)
  BY <1>7, RefreshIsGood
<1>9. EntryState(fn, c) = IF c = "BottomHalfL1" /\ fn.irq_guard_arg THEN RefreshIrq(v) ELSE w
  BY Zenon DEF EntryState, v, w
<1>10. CASE c = "BottomHalfL1" /\ fn.irq_guard_arg
  <2>1. \A s : Good(s, c, TRUE) => Good(s, c, fn.irq_guard_arg)
    BY <1>10, Zenon DEF Good, Stale
  <2>2. EntryState(fn, c) = RefreshIrq(v)
    BY <1>9, <1>10
  <2> QED
    BY <1>8, <2>1, <2>2
<1>11. CASE ~(c = "BottomHalfL1" /\ fn.irq_guard_arg)
  BY <1>5, <1>9, <1>11
<1> QED
  BY <1>10, <1>11

\* What keeps the interrupt state and the guards and locals that mask it.
LEMMA StaleKept ==
    ASSUME NEW s, NEW c, NEW given, Stale(s, c, given), NEW r,
           DOMAIN r = DOMAIN s, r.irq = s.irq,
           \A l \in DOMAIN r.aliases : r.aliases[l].proj \in Seq(STRING),
           \A l \in DOMAIN r.guards : IsLock(r.guards[l]),
           given \/ r.irq_locals = {}
    PROVE  Stale(r, c, given)
BY Zenon DEF Stale, FromBase

LEMMA GoodKept ==
    ASSUME NEW s, NEW c, NEW given, Good(s, c, given), NEW r,
           DOMAIN r = DOMAIN s, r.irq = s.irq, r.guards = s.guards,
           r.irq_locals = s.irq_locals,
           \A l \in DOMAIN r.aliases : r.aliases[l].proj \in Seq(STRING)
    PROVE  Good(r, c, given)
<1>1. Masked(r) = Masked(s)
  BY MaskedByFields
<1>2. Stale(r, c, given)
  BY Zenon DEF Good, Stale, FromBase
<1> QED
  BY <1>1, <1>2, Zenon DEF Good

LEMMA AliasIsNamed ==
    ASSUME NEW s, \A l \in DOMAIN s.aliases : s.aliases[l].proj \in Seq(STRING),
           NEW p, p.proj \in Seq(STRING)
    PROVE  ResolveAlias(s, p).proj \in Seq(STRING)
BY DEF ResolveAlias, Get

LEMMA ReleaseIsGood ==
    ASSUME NEW s, NEW c, NEW given, Stale(s, c, given), NEW l
    PROVE  Good(Release(s, l), c, given)
<1> DEFINE r == [s EXCEPT !.aliases = Without(@, l), !.guards = Without(@, l),
                          !.irq_locals = @ \ {l}, !.origins = Without(@, l)]
<1>1. DOMAIN s = StateFields
  BY Zenon DEF Stale
<1>2. /\ DOMAIN r = DOMAIN s /\ r.irq = s.irq /\ r.aliases = Without(s.aliases, l)
      /\ r.guards = Without(s.guards, l) /\ r.irq_locals = s.irq_locals \ {l}
  BY <1>1 DEF StateFields
<1> HIDE DEF r
<1>3. /\ \A k \in DOMAIN r.aliases : r.aliases[k].proj \in Seq(STRING)
      /\ \A k \in DOMAIN r.guards : IsLock(r.guards[k])
      /\ given \/ r.irq_locals = {}
  <2>1. /\ DOMAIN Without(s.aliases, l) \subseteq DOMAIN s.aliases
        /\ \A y \in DOMAIN Without(s.aliases, l) : Without(s.aliases, l)[y] = s.aliases[y]
    BY DEF Without, Restrict
  <2>2. /\ DOMAIN Without(s.guards, l) \subseteq DOMAIN s.guards
        /\ \A y \in DOMAIN Without(s.guards, l) : Without(s.guards, l)[y] = s.guards[y]
    BY DEF Without, Restrict
  <2> QED
    BY <1>2, <2>1, <2>2 DEF Stale
<1>4. Stale(r, c, given)
  BY <1>2, <1>3, StaleKept
<1>5. Good(RefreshIrq(r), c, given)
  BY <1>4, RefreshIsGood
<1> QED
  BY <1>5, Zenon DEF Release, r

LEMMA TransferIsGood ==
    ASSUME NEW s, NEW c, NEW given, Good(s, c, given), NEW dst, NEW operand
    PROVE  Good(TransferGuard(s, dst, operand), c, given)
<1> DEFINE src == operand.place.local
           g == [s EXCEPT !.guards = With(Without(@, src), dst, s.guards[src])]
           i == [s EXCEPT !.irq_locals = (@ \ {src}) \cup {dst}]
           moved == CASE src \in DOMAIN s.guards -> g
                      [] src \in s.irq_locals \ DOMAIN s.guards -> i
                      [] OTHER -> s
<1>1. Stale(s, c, given)
  BY Zenon DEF Good
<1>2. /\ DOMAIN s = StateFields
      /\ \A k \in DOMAIN s.aliases : s.aliases[k].proj \in Seq(STRING)
      /\ \A k \in DOMAIN s.guards : IsLock(s.guards[k])
      /\ given \/ s.irq_locals = {}
  BY <1>1, Zenon DEF Stale
<1>3. ASSUME src \in DOMAIN s.guards PROVE Stale(g, c, given)
  <2>1. /\ DOMAIN g = DOMAIN s /\ g.irq = s.irq /\ g.aliases = s.aliases
        /\ g.guards = With(Without(s.guards, src), dst, s.guards[src])
        /\ g.irq_locals = s.irq_locals
    BY <1>2 DEF StateFields
  <2> HIDE DEF g
  <2>2. \A k \in DOMAIN g.guards : IsLock(g.guards[k])
    <3> DEFINE w == Without(s.guards, src)
    <3>1. /\ DOMAIN w = DOMAIN s.guards \ {src}
          /\ \A y \in DOMAIN s.guards \ {src} : w[y] = s.guards[y]
      BY DEF Without, Restrict
    <3> HIDE DEF w
    <3>2. /\ DOMAIN With(w, dst, s.guards[src]) = DOMAIN w \cup {dst}
          /\ With(w, dst, s.guards[src])[dst] = s.guards[src]
          /\ \A y \in DOMAIN w : y # dst => With(w, dst, s.guards[src])[y] = w[y]
      BY DEF With
    <3> QED
      BY <1>2, <1>3, <2>1, <3>1, <3>2 DEF w
  <2> QED
    BY <1>1, <1>2, <2>1, <2>2, StaleKept
<1>4. ASSUME src \in s.irq_locals PROVE Stale(i, c, given)
  <2>1. /\ DOMAIN i = DOMAIN s /\ i.irq = s.irq /\ i.aliases = s.aliases
        /\ i.guards = s.guards
    BY <1>2 DEF StateFields
  <2> HIDE DEF i
  <2>2. given
    BY <1>2, <1>4
  <2> QED
    BY <1>1, <1>2, <2>1, <2>2, StaleKept
<1>5. TransferGuard(s, dst, operand) =
        IF operand.kind # "move" \/ ~IsLocal(operand.place) THEN s ELSE RefreshIrq(moved)
  BY Zenon DEF TransferGuard
<1>6. Stale(moved, c, given)
  <2> HIDE DEF g, i
  <2>1. (src \in DOMAIN s.guards /\ moved = g) \/ (src \in s.irq_locals /\ moved = i) \/ moved = s
    OBVIOUS
  <2> HIDE DEF moved, src
  <2> QED
    BY <1>1, <1>3, <1>4, <2>1
<1> HIDE DEF moved, g, i
<1>7. Good(RefreshIrq(moved), c, given)
  BY <1>6, RefreshIsGood
<1> QED
  BY <1>5, <1>7, Zenon

\* New aliases and origins change nothing of the interrupt state.
LEMMA AliasedToIsGood ==
    ASSUME NEW s, NEW c, NEW given, Good(s, c, given), NEW l, NEW p, p.proj \in Seq(STRING)
    PROVE  Good([s EXCEPT !.aliases = With(@, l, p)], c, given)
<1> DEFINE r == [s EXCEPT !.aliases = With(@, l, p)]
<1>1. DOMAIN s = StateFields /\ \A k \in DOMAIN s.aliases : s.aliases[k].proj \in Seq(STRING)
  BY Zenon DEF Good, Stale
<1>2. /\ DOMAIN r = DOMAIN s /\ r.irq = s.irq /\ r.guards = s.guards
      /\ r.irq_locals = s.irq_locals /\ r.aliases = With(s.aliases, l, p)
  BY <1>1 DEF StateFields
<1> HIDE DEF r
<1>3. \A k \in DOMAIN r.aliases : r.aliases[k].proj \in Seq(STRING)
  <2>1. /\ DOMAIN With(s.aliases, l, p) = DOMAIN s.aliases \cup {l}
        /\ With(s.aliases, l, p)[l] = p
        /\ \A y \in DOMAIN s.aliases : y # l => With(s.aliases, l, p)[y] = s.aliases[y]
    BY DEF With
  <2> QED
    BY <1>1, <1>2, <2>1
<1>4. Good(r, c, given)
  BY <1>2, <1>3, GoodKept
<1> QED
  BY <1>4 DEF r

LEMMA WithOriginIsGood ==
    ASSUME NEW s, NEW c, NEW given, Good(s, c, given), NEW dst, NEW origin
    PROVE  Good(WithOrigin(s, dst, origin), c, given)
<1> DEFINE r == [s EXCEPT !.origins = With(@, dst, origin)]
<1>1. DOMAIN s = StateFields /\ \A k \in DOMAIN s.aliases : s.aliases[k].proj \in Seq(STRING)
  BY Zenon DEF Good, Stale
<1>2. /\ DOMAIN r = DOMAIN s /\ r.irq = s.irq /\ r.guards = s.guards
      /\ r.irq_locals = s.irq_locals /\ r.aliases = s.aliases
  BY <1>1 DEF StateFields
<1> HIDE DEF r
<1>3. Good(r, c, given)
  BY <1>1, <1>2, GoodKept
<1> QED
  BY <1>3, Zenon DEF WithOrigin, r

LEMMA AliasedIsGood ==
    ASSUME NEW fn, NEW s, NEW c, NEW given, Good(s, c, given), NEW st
    PROVE  Good(AliasedOperand(fn, s, st), c, given)
<1> DEFINE p == ResolveAlias(s, st.src.place)
<1>1. Good(AliasOperand(s, st.dst, st.src), c, given)
  <2>1. CASE IsPlace(st.src) /\ IsLocal(p)
    <3>1. p.proj = <<>>
      BY <2>1, Zenon DEF IsLocal
    <3> HIDE DEF p
    <3>2. p.proj \in Seq(STRING)
      BY <3>1
    <3>3. Good([s EXCEPT !.aliases = With(@, st.dst, p)], c, given)
      BY <3>2, AliasedToIsGood
    <3> QED
      BY <2>1, <3>3, Zenon DEF AliasOperand, p
  <2>2. CASE ~(IsPlace(st.src) /\ IsLocal(p))
    BY <2>2, Zenon DEF AliasOperand
  <2> QED
    BY <2>1, <2>2
<1>2. Good(WithOrigin(AliasOperand(s, st.dst, st.src), st.dst, OperandOrigin(fn, s, st.src)),
           c, given)
  BY <1>1, WithOriginIsGood
<1> QED
  BY <1>2, Zenon DEF AliasedOperand

LEMMA AssignIsGood ==
    ASSUME NEW fn, NEW s, NEW c, NEW given, Good(s, c, given), NEW st,
           IsStatement(st), st.op # "into_field"
    PROVE  Good(Assign(fn, s, st), c, given)
<1>1. CASE st.op = "ref"
  <2> DEFINE p == ResolveAlias(s, st.src.place)
             r == [s EXCEPT !.aliases = With(@, st.dst, p)]
             o == Origin("RefOfPlace", RootKey(fn, s, st.src.place.local))
  <2>1. p.proj \in Seq(STRING)
    BY <1>1, AliasIsNamed, Zenon DEF Good, Stale, IsStatement
  <2> HIDE DEF p
  <2>2. Good(r, c, given)
    BY <2>1, AliasedToIsGood
  <2> HIDE DEF r
  <2>3. Good(WithOrigin(r, st.dst, o), c, given)
    BY <2>2, WithOriginIsGood
  <2>4. Assign(fn, s, st) = WithOrigin(r, st.dst, o)
    BY <1>1 DEF Assign, r, p
  <2> QED
    BY <2>3, <2>4, Zenon
<1>2. CASE st.op = "use"
  <2>1. Good(AliasedOperand(fn, TransferGuard(s, st.dst, st.src), st), c, given)
    BY TransferIsGood, AliasedIsGood
  <2>2. Assign(fn, s, st) = AliasedOperand(fn, TransferGuard(s, st.dst, st.src), st)
    BY <1>2 DEF Assign
  <2> QED
    BY <2>1, <2>2, Zenon
<1>3. CASE st.op = "cast"
  <2>1. Assign(fn, s, st) = AliasedOperand(fn, s, st)
    BY <1>3 DEF Assign
  <2> QED
    BY <2>1, AliasedIsGood
<1>4. CASE st.op \in {"aggregate", "closure"}
  <2>1. Assign(fn, s, st) = WithOrigin(s, st.dst, Origin("AggregateTemp", NoRoot))
    BY <1>4 DEF Assign
  <2> QED
    BY <2>1, WithOriginIsGood
<1>5. CASE st.op = "other"
  <2>1. Assign(fn, s, st) = WithOrigin(s, st.dst, Unknown)
    BY <1>5 DEF Assign
  <2> QED
    BY <2>1, WithOriginIsGood
<1>6. CASE st.op = "storage_dead"
  <2>1. Assign(fn, s, st) = s
    BY <1>6 DEF Assign
  <2> QED
    BY <2>1
<1> QED
  BY <1>1, <1>2, <1>3, <1>4, <1>5, <1>6 DEF StatementOps, IsStatement

LEMMA StatementIsGood ==
    ASSUME NEW fn, NEW s, NEW c, NEW given, Good(s, c, given), NEW st, IsStatement(st)
    PROVE  Good(ApplyStatement(fn, s, st), c, given)
<1>1. Good(Release(s, st.dst), c, given)
  BY ReleaseIsGood, Zenon DEF Good
<1>2. CASE st.op = "into_field"
  BY <1>2, Zenon DEF ApplyStatement
<1>3. CASE st.op # "into_field"
  <2>1. Good(Assign(fn, Release(s, st.dst), st), c, given)
    BY <1>1, <1>3, AssignIsGood
  <2> QED
    BY <1>3, <2>1, Zenon DEF ApplyStatement
<1> QED
  BY <1>2, <1>3

StatementStep(env, acc, st) == ApplyStatement(env.fn, acc, st)
StaysGood(env, i, acc) == Good(acc, env.context, env.fn.irq_guard_arg)
Stepping == INSTANCE FoldInduction WITH Op <- StatementStep, P <- StaysGood

LEMMA StatementsAreGood ==
    ASSUME NEW fn, NEW s, NEW c, Good(s, c, fn.irq_guard_arg), NEW block, IsBlock(block)
    PROVE  Good(AfterStatements(fn, s, block), c, fn.irq_guard_arg)
<1> DEFINE D == {st \in ToSet(block.stmts) : IsStatement(st)}
           stmts == block.stmts
           env == [fn |-> fn, context |-> c]
<1>0. env.fn = fn /\ env.context = c
  OBVIOUS
<1>1. \A st \in D : IsStatement(st)
  OBVIOUS
<1>2. stmts \in Seq(D)
  BY Zenon DEF IsBlock
<1> HIDE DEF D, env
<1>3. \A i \in 0..Len(stmts) : \A t :
         i < Len(stmts) /\ StaysGood(env, i, t)
         => StaysGood(env, i + 1, StatementStep(env, t, stmts[i + 1]))
  <2> SUFFICES ASSUME NEW i \in 0..Len(stmts), NEW t, i < Len(stmts),
                      Good(t, c, fn.irq_guard_arg)
               PROVE  Good(ApplyStatement(fn, t, stmts[i + 1]), c, fn.irq_guard_arg)
    BY <1>0, Zenon DEF StaysGood, StatementStep
  <2>1. stmts[i + 1] \in D
    BY <1>2, LenProperties
  <2>2. IsStatement(stmts[i + 1])
    BY <1>1, <2>1
  <2> QED
    BY <2>2, StatementIsGood
<1>4. StaysGood(env, 0, s)
  BY <1>0, Zenon DEF StaysGood
<1>5. StaysGood(env, Len(stmts), Stepping!Loop(env, s, stmts))
  BY <1>2, <1>3, <1>4, Stepping!FoldLeftKeeps
<1>6. AfterStatements(fn, s, block) = Stepping!Loop(env, s, stmts)
  BY <1>0 DEF AfterStatements, StatementStep, FoldLeft, MapThenFoldSet,
         Max, Stepping!Loop, Stepping!FoldLeft, Stepping!MapThenFoldSet, Stepping!Max
<1> QED
  BY <1>0, <1>5, <1>6, Zenon DEF StaysGood

-----------------------------------------------------------------------------
(* Calls. *)

LEMMA SplicedNames ==
    ASSUME NEW left \in Seq(STRING), NEW right \in Seq(STRING)
    PROVE  Spliced(left, right) \in Seq(STRING)
<1>1. \A t \in Seq(STRING) : left \o t \in Seq(STRING)
  BY ConcatProperties
<1>2. right # <<>> => Tail(right) \in Seq(STRING)
  BY HeadTailProperties
<1>3. \/ Spliced(left, right) = left \o right
      \/ right # <<>> /\ Spliced(left, right) = left \o Tail(right)
  BY Zenon DEF Spliced
<1> QED
  BY <1>1, <1>2, <1>3

\* A lock renamed to the caller's classes stays what it is.
LEMMA ReboundIsLock ==
    ASSUME NEW lock, IsLock(lock), NEW bindings, BoundNames(bindings),
           NEW other \in Rebound(lock, bindings)
    PROVE  /\ IsLock(other)
           /\ other.primitive = lock.primitive /\ other.acquire = lock.acquire
           /\ other.behavior = lock.behavior /\ other.class \in ReboundClass(lock.class, bindings)
<1>1. PICK class \in ReboundClass(lock.class, bindings) : other = [lock EXCEPT !.class = class]
  BY DEF Rebound
<1>2. class.proj \in Seq(STRING)
  <2>1. CASE lock.class.root.kind # "Arg"
    BY <1>1, <2>1 DEF ReboundClass, IsLock
  <2>2. CASE lock.class.root.kind = "Arg"
    <3>1. PICK i \in DOMAIN bindings :
              class = [root |-> bindings[i].root, proj |-> Spliced(bindings[i].proj, lock.class.proj)]
      BY <1>1, <2>2 DEF ReboundClass
    <3>2. class.proj = Spliced(bindings[i].proj, lock.class.proj)
      BY <3>1
    <3>3. bindings[i].proj \in Seq(STRING) /\ lock.class.proj \in Seq(STRING)
      BY DEF BoundNames, IsLock
    <3> QED
      BY <3>2, <3>3, SplicedNames
  <2> QED
    BY <2>1, <2>2
<1>3. /\ DOMAIN other = DOMAIN lock /\ other.class = class
      /\ other.primitive = lock.primitive /\ other.acquire = lock.acquire
      /\ other.behavior = lock.behavior
  BY <1>1 DEF IsLock, LockFields
<1> QED
  BY <1>1, <1>2, <1>3, Zenon DEF IsLock

LEMMA ArgsAreNamed ==
    ASSUME NEW fn, NEW s, \A l \in DOMAIN s.aliases : s.aliases[l].proj \in Seq(STRING),
           NEW args, \A i \in DOMAIN args : IsOperand(args[i])
    PROVE  BoundNames(ArgBindings(fn, s, args))
<1> DEFINE D == {j \in DOMAIN args : IsPlace(args[j]) \/ args[j].kind = "static"}
           static(i) == [root |-> Global(args[i].fn), proj |-> <<>>]
           class(i) == ClassKey(fn, s, ResolveAlias(s, args[i].place))
           b == [i \in D |-> IF args[i].kind = "static" THEN static(i) ELSE class(i)]
<1>1. ASSUME NEW i \in D PROVE b[i].proj \in Seq(STRING)
  <2>1. CASE args[i].kind = "static"
    <3>1. b[i].proj = <<>>
      BY <2>1
    <3> HIDE DEF b
    <3> QED
      BY <3>1
  <2>2. CASE args[i].kind # "static"
    <3>1. b[i] = class(i)
      BY <2>2
    <3>2. class(i).proj = ResolveAlias(s, args[i].place).proj
      BY DEF ClassKey
    <3> HIDE DEF b, class
    <3>3. args[i].place.proj \in Seq(STRING)
      BY <2>2 DEF IsOperand
    <3>4. ResolveAlias(s, args[i].place).proj \in Seq(STRING)
      BY <3>3, AliasIsNamed
    <3> QED
      BY <3>1, <3>2, <3>4
  <2> QED
    BY <2>1, <2>2
<1>2. ArgBindings(fn, s, args) = b
  BY Zenon DEF ArgBindings
<1> HIDE DEF static, class
<1>3. DOMAIN b = D
  OBVIOUS
<1> HIDE DEF b, D
<1> QED
  BY <1>1, <1>2, <1>3 DEF BoundNames

LEMMA BlockArgs ==
    ASSUME NEW block, IsBlock(block), block.term.kind = "call"
    PROVE  /\ \A i \in DOMAIN block.term.args : IsOperand(block.term.args[i])
           /\ DOMAIN block.term.args = 1 .. Len(block.term.args) /\ Len(block.term.args) \in Nat
<1> DEFINE D == {o \in ToSet(block.term.args) : IsOperand(o)}
           q == block.term.args
<1>1. q \in Seq(D)
  BY Zenon DEF IsBlock
<1>2. \A o \in D : IsOperand(o)
  OBVIOUS
<1> HIDE DEF D, q
<1>3. DOMAIN q = 1 .. Len(q) /\ Len(q) \in Nat /\ \A i \in 1 .. Len(q) : q[i] \in D
  BY <1>1, LenProperties
<1> QED
  BY <1>2, <1>3 DEF q

LEMMA ReturnedIsLock ==
    ASSUME NEW fn, NEW s, \A l \in DOMAIN s.aliases : s.aliases[l].proj \in Seq(STRING),
           NEW callee, NEW term, \A i \in DOMAIN term.args : IsOperand(term.args[i]),
           NEW known, LocksKnown(known), NEW lock \in ReturnedLock(fn, s, callee, term, known)
    PROVE  IsLock(lock)
<1> DEFINE b == ArgBindings(fn, s, term.args)
<1>1. PICK l \in Get(known, callee, {}) : lock \in Rebound(l, b)
  BY DEF ReturnedLock
<1>2. IsLock(l)
  BY <1>1 DEF Get, LocksKnown
<1>3. BoundNames(b)
  BY ArgsAreNamed
<1> HIDE DEF b
<1> QED
  BY <1>1, <1>2, <1>3, ReboundIsLock

\* What a call does to the state: nothing, or one of three effects.
IsEffect(e) ==
    \/ e = NoEffect
    \/ e.kind = "Alias" /\ e.source.proj \in Seq(STRING)
    \/ e.kind = "Acquire" /\ IsLock(e.lock)
    \/ e.kind = "Release"

LEMMA PlainEffects ==
    ASSUME NEW fn, NEW s, NEW term, NEW method, NEW receiver, receiver.proj \in Seq(STRING)
    PROVE  IsEffect(PlainCallEffect(fn, s, term, method, receiver))
<1> DEFINE e == PlainCallEffect(fn, s, term, method, receiver)
           alias == [kind |-> "Alias", dest |-> term.dest.local, source |-> receiver]
           lock == LockOf(fn, s, term.recv, receiver, method)
           acq == Acquire(term.dest.local, lock)
<1>1. IsLock(lock)
  <2>1. DOMAIN lock = LockFields /\ lock.class = ClassKey(fn, s, receiver)
    BY DEF LockOf, LockFields
  <2>2. ClassKey(fn, s, receiver).proj = receiver.proj
    BY DEF ClassKey
  <2> HIDE DEF lock
  <2> QED
    BY <2>1, <2>2 DEF IsLock
<1> HIDE DEF lock
<1>2. acq.kind = "Acquire" /\ acq.lock = lock
  BY DEF Acquire
<1>3. alias.kind = "Alias" /\ alias.source = receiver
  OBVIOUS
<1>4. e \in {alias, acq, NoEffect}
  BY DEF PlainCallEffect, lock
<1> HIDE DEF e, alias, acq
<1>5. IsEffect(e)
  BY <1>1, <1>2, <1>3, <1>4 DEF IsEffect
<1> QED
  BY <1>5 DEF e

LEMMA CallEffects ==
    ASSUME NEW fn, NEW s, \A l \in DOMAIN s.aliases : s.aliases[l].proj \in Seq(STRING),
           NEW block, IsBlock(block), NEW known, LocksKnown(known)
    PROVE  IsEffect(CallEffect(fn, s, block.term, known))
<1> DEFINE term == block.term
           Returned(method) == ReturnedLock(fn, s, method, term, known)
           m(method) == MethodEffect(fn, s, term, method, Returned(method), Receiver(term))
           S == IF CalledFn(fn, term) = {} THEN {NoEffect}
                ELSE {m(method) : method \in CalledFn(fn, term)}
           e == CallEffect(fn, s, term, known)
<1>1. CASE term.kind # "call"
  BY <1>1, Zenon DEF CallEffect, IsEffect
<1>2. CASE term.kind = "call"
  <2>1. \A i \in DOMAIN term.args : IsOperand(term.args[i])
    BY <1>2, BlockArgs
  <2> HIDE DEF term
  <2>2. ASSUME NEW method PROVE IsEffect(m(method))
    <3> DEFINE p == PlainCallEffect(fn, s, term, method, ResolveAlias(s, term.args[1].place))
               rel == [kind |-> "Release", local |-> term.args[1].place.local]
               lock == CHOOSE l \in Returned(method) : TRUE
               acq == Acquire(term.dest.local, lock)
    <3>1. Receiver(term) # {} => IsEffect(p)
      <4>1. ASSUME Receiver(term) # {}
            PROVE  ResolveAlias(s, term.args[1].place).proj \in Seq(STRING)
        <5>1. 1 \in DOMAIN term.args /\ IsPlace(term.args[1])
          BY <4>1 DEF Receiver
        <5>2. term.args[1].place.proj \in Seq(STRING)
          BY <2>1, <5>1 DEF IsOperand
        <5> QED
          BY <5>2, AliasIsNamed
      <4> QED
        BY <4>1, PlainEffects
    <3>2. Returned(method) # {} => IsEffect(acq)
      <4>1. ASSUME Returned(method) # {} PROVE IsLock(lock)
        <5>1. lock \in Returned(method)
          BY <4>1
        <5> QED
          BY <2>1, <5>1, ReturnedIsLock
      <4>2. acq.kind = "Acquire" /\ acq.lock = lock
        BY DEF Acquire
      <4> HIDE DEF acq, lock
      <4> QED
        BY <4>1, <4>2 DEF IsEffect
    <3>3. IsEffect(rel) /\ IsEffect(NoEffect)
      BY DEF IsEffect
    <3>4. m(method) = CASE method = "drop" -> IF \E q \in Receiver(term) : IsLocal(q) THEN rel ELSE NoEffect
              [] method # "drop" /\ IsLocal(term.dest) /\ Returned(method) # {} -> acq
              [] method # "drop" /\ IsLocal(term.dest) /\ Returned(method) = {} /\ Receiver(term) # {} -> p
              [] OTHER -> NoEffect
      BY Zenon DEF MethodEffect
    <3> HIDE DEF m, p, rel, acq, Returned
    <3> QED
      BY <3>1, <3>2, <3>3, <3>4
  <2>3. \A x \in S : IsEffect(x)
    <3> HIDE DEF m
    <3>1. IsEffect(NoEffect)
      BY DEF IsEffect
    <3> QED
      BY <2>2, <3>1
  <2>4. S # {}
    <3> HIDE DEF m
    <3> QED
      OBVIOUS
  <2>5. e = CHOOSE x \in S : TRUE
    BY <1>2, Zenon DEF CallEffect
  <2> HIDE DEF S, e
  <2>6. IsEffect(e)
    BY <2>3, <2>4, <2>5
  <2> QED
    BY <2>6 DEF e, term
<1> QED
  BY <1>1, <1>2

LEMMA ApplyIsGood ==
    ASSUME NEW s, NEW c, NEW given, Good(s, c, given), NEW e, IsEffect(e), e # NoEffect
    PROVE  Good(ApplyEffect(s, e), c, given)
<1> DEFINE a == [s EXCEPT !.aliases = With(@, e.dest, ResolveAlias(s, e.source)),
                          !.guards = Without(@, e.dest), !.origins = Without(@, e.dest)]
           q == [s EXCEPT !.guards = With(@, e.dest, e.lock),
                          !.aliases = Without(@, e.dest), !.origins = Without(@, e.dest)]
           d == Release(s, e.local)
           t == CASE e.kind = "Alias" -> a [] e.kind = "Acquire" -> q [] e.kind = "Release" -> d
<1>1. Stale(s, c, given)
  BY Zenon DEF Good
<1>2. /\ DOMAIN s = StateFields
      /\ \A k \in DOMAIN s.aliases : s.aliases[k].proj \in Seq(STRING)
      /\ \A k \in DOMAIN s.guards : IsLock(s.guards[k])
      /\ given \/ s.irq_locals = {}
  BY <1>1, Zenon DEF Stale
<1>3. /\ DOMAIN Without(s.guards, e.dest) \subseteq DOMAIN s.guards
      /\ \A y \in DOMAIN Without(s.guards, e.dest) : Without(s.guards, e.dest)[y] = s.guards[y]
  BY DEF Without, Restrict
<1>4. /\ DOMAIN Without(s.aliases, e.dest) \subseteq DOMAIN s.aliases
      /\ \A y \in DOMAIN Without(s.aliases, e.dest) : Without(s.aliases, e.dest)[y] = s.aliases[y]
  BY DEF Without, Restrict
<1>5. ASSUME e.kind = "Alias" PROVE Stale(a, c, given)
  <2> DEFINE p == ResolveAlias(s, e.source)
             w == With(s.aliases, e.dest, p)
  <2>1. /\ DOMAIN a = DOMAIN s /\ a.irq = s.irq /\ a.aliases = w
        /\ a.guards = Without(s.guards, e.dest) /\ a.irq_locals = s.irq_locals
    BY <1>2 DEF StateFields
  <2>2. p.proj \in Seq(STRING)
    <3>1. e.source.proj \in Seq(STRING)
      BY <1>5 DEF IsEffect, NoEffect
    <3> QED
      BY <1>2, <3>1, AliasIsNamed
  <2> HIDE DEF a, p
  <2>3. /\ DOMAIN w = DOMAIN s.aliases \cup {e.dest} /\ w[e.dest] = p
        /\ \A y \in DOMAIN s.aliases : y # e.dest => w[y] = s.aliases[y]
    BY DEF With
  <2> HIDE DEF w
  <2>4. /\ \A k \in DOMAIN a.aliases : a.aliases[k].proj \in Seq(STRING)
        /\ \A k \in DOMAIN a.guards : IsLock(a.guards[k])
    BY <1>2, <1>3, <2>1, <2>2, <2>3
  <2> QED
    BY <1>1, <1>2, <2>1, <2>4, StaleKept
<1>6. ASSUME e.kind = "Acquire" PROVE Stale(q, c, given)
  <2> DEFINE w == With(s.guards, e.dest, e.lock)
  <2>1. /\ DOMAIN q = DOMAIN s /\ q.irq = s.irq /\ q.guards = w
        /\ q.aliases = Without(s.aliases, e.dest) /\ q.irq_locals = s.irq_locals
    BY <1>2 DEF StateFields
  <2>2. IsLock(e.lock)
    BY <1>6 DEF IsEffect, NoEffect
  <2> HIDE DEF q
  <2>3. /\ DOMAIN w = DOMAIN s.guards \cup {e.dest} /\ w[e.dest] = e.lock
        /\ \A y \in DOMAIN s.guards : y # e.dest => w[y] = s.guards[y]
    BY DEF With
  <2> HIDE DEF w
  <2>4. /\ \A k \in DOMAIN q.aliases : q.aliases[k].proj \in Seq(STRING)
        /\ \A k \in DOMAIN q.guards : IsLock(q.guards[k])
    BY <1>2, <1>4, <2>1, <2>2, <2>3
  <2> QED
    BY <1>1, <1>2, <2>1, <2>4, StaleKept
<1>7. Stale(d, c, given)
  BY <1>1, ReleaseIsGood, Zenon DEF Good
<1>8. ApplyEffect(s, e) = RefreshIrq(t)
  BY Zenon DEF ApplyEffect
<1>9. e.kind \in {"Alias", "Acquire", "Release"}
  BY DEF IsEffect
<1> HIDE DEF a, q, d
<1>10. Stale(t, c, given)
  BY <1>5, <1>6, <1>7, <1>9
<1> HIDE DEF t
<1> QED
  BY <1>8, <1>10, RefreshIsGood

LEMMA TerminatorIsGood ==
    ASSUME NEW fn, NEW s, NEW c, NEW given, Good(s, c, given), NEW block, IsBlock(block),
           NEW known, LocksKnown(known)
    PROVE  Good(AfterTerminator(fn, s, block.term, known), c, given)
<1> DEFINE term == block.term
           e == CallEffect(fn, s, term, known)
<1>1. IsEffect(e)
  BY CallEffects, Zenon DEF Good, Stale
<1>2. AfterTerminator(fn, s, term, known) = AfterEffect(s, e, term)
  BY Zenon DEF AfterTerminator
<1> HIDE DEF e, term
<1>3. Good(Release(s, term.place.local), c, given)
  BY ReleaseIsGood, Zenon DEF Good
<1>4. e # NoEffect => Good(ApplyEffect(s, e), c, given)
  BY <1>1, ApplyIsGood
<1>5. Good(AfterEffect(s, e, term), c, given)
  <2>1. CASE e # NoEffect
    <3>1. AfterEffect(s, e, term) = ApplyEffect(s, e)
      BY <2>1 DEF AfterEffect
    <3> QED
      BY <1>4, <2>1, <3>1
  <2>2. CASE e = NoEffect /\ term.kind = "drop" /\ IsLocal(term.place)
    <3>1. AfterEffect(s, e, term) = Release(s, term.place.local)
      BY <2>2 DEF AfterEffect
    <3> QED
      BY <1>3, <3>1
  <2>3. CASE e = NoEffect /\ ~(term.kind = "drop" /\ IsLocal(term.place))
    <3>1. AfterEffect(s, e, term) = s
      BY <2>3 DEF AfterEffect
    <3> QED
      BY <3>1
  <2> QED
    BY <2>1, <2>2, <2>3
<1> QED
  BY <1>2, <1>5 DEF term

\* The facts collected are about such locks, and finitely many are acquired on entry.
FactsNamed(x) ==
    /\ \A lock \in x.entry_locks : IsLock(lock)
    /\ \A lock \in x.return_locks : IsLock(lock)
    /\ \A site \in ToSet(x.callsites) : BoundNames(site.bindings)
    /\ IsFiniteSet(x.entry_locks)

LEMMA EmitIsNamed ==
    ASSUME NEW fn, NEW in, NEW c, Good(in, c, fn.irq_guard_arg), NEW b, IsBlock(fn.blocks[b]),
           NEW known, LocksKnown(known), NEW x, FactsShaped(x), FactsNamed(x)
    PROVE  FactsNamed(EmitBlock(fn, Fns, x, in, b, known))
<1> DEFINE block == fn.blocks[b]
           s == AfterStatements(fn, in, block)
           term == block.term
           e == CallEffect(fn, s, term, known)
           S == CallSites(fn, Fns, s, term, b)
           q == SetToSeq(S)
           x1 == [x EXCEPT !.callsites = @ \o q]
           y == EmitEffect(x1, s, e, term, b)
<1>1. EmitBlock(fn, Fns, x, in, b, known) = y
  BY Zenon DEF EmitBlock, EmitTerminator
<1>2. Good(s, c, fn.irq_guard_arg)
  BY StatementsAreGood
<1>3. /\ \A l \in DOMAIN s.aliases : s.aliases[l].proj \in Seq(STRING)
      /\ \A l \in DOMAIN s.guards : IsLock(s.guards[l])
  BY <1>2, Zenon DEF Good, Stale
<1> HIDE DEF s
<1>4. IsEffect(e)
  BY <1>3, CallEffects
<1>5. \A site \in S : BoundNames(site.bindings)
  <2> DEFINE T == {u \in CalledTarget(fn, term.func) : u.kind = "Direct" => u.fn \in Fns}
             B == ArgBindings(fn, s, term.args)
             site(t) == [target |-> t, dest |-> term.dest,
               bindings |-> B,
               callables |-> [i \in {j \in DOMAIN term.args : CalledTarget(fn, term.args[j]) # {}} |->
                                CHOOSE u \in CalledTarget(fn, term.args[i]) : TRUE],
               held |-> Held(s), context |-> CurrentContext(s.irq), irq |-> s.irq,
               location |-> b]
  <2>1. S = IF term.kind # "call" THEN {} ELSE {site(t) : t \in T}
    BY Zenon DEF CallSites
  <2>2. \A t : site(t).bindings = B
    OBVIOUS
  <2>3. term.kind = "call" => BoundNames(B)
    <3>1. term.kind = "call" => \A i \in DOMAIN term.args : IsOperand(term.args[i])
      BY BlockArgs
    <3> QED
      BY <1>3, <3>1, ArgsAreNamed
  <2> HIDE DEF S, site, T, B, term
  <2> QED
    BY <2>1, <2>2, <2>3
<1>6. q \in Seq(S)
  BY OneSite, OneAsSequence
<1> HIDE DEF S, q, e, term
<1>7. /\ DOMAIN x1 = DOMAIN x /\ x1.callsites = x.callsites \o q
      /\ x1.entry_locks = x.entry_locks /\ x1.return_locks = x.return_locks
  BY DEF FactsShaped
<1> HIDE DEF x1
<1>8. \A site \in ToSet(x1.callsites) : BoundNames(site.bindings)
  <2>1. ToSet(x.callsites \o q) \subseteq ToSet(x.callsites) \cup ToSet(q)
    BY <1>6, ConcatKeeps, Zenon DEF FactsShaped
  <2>2. ToSet(q) \subseteq S
    BY <1>6, LenProperties DEF ToSet
  <2> QED
    BY <1>5, <1>7, <2>1, <2>2 DEF FactsNamed
<1>9. /\ DOMAIN x1 = {"events", "edges", "usage", "entry_locks", "return_locks", "callsites"}
      /\ FactsNamed(x1)
  BY <1>7, <1>8, Zenon DEF FactsShaped, FactsNamed
<1>10. \A lock \in Held(s) : IsLock(lock)
  BY <1>3 DEF Held
<1>11. CASE e.kind = "Acquire"
  <2>7. e # NoEffect
    BY <1>11 DEF NoEffect
  <2>8. e.kind # "Release"
    BY <1>11
  <2>1. y = EmitAcquire(x1, s, e, b)
    BY <1>11, <2>7, <2>8 DEF EmitEffect
  <2> DEFINE ev == Event("acquire", ForAcquire(s.irq, e.lock), e.lock, e.dest, b)
             new == {[context |-> CurrentContext(ForAcquire(s.irq, e.lock)), from |-> held, to |-> e.lock,
                      location |-> b] : held \in {h \in Held(s) : DeadlockRelevant(h, e.lock)}}
             u == RecordUsage(x1.usage, e.lock, ForAcquire(s.irq, e.lock), b)
  <2>2. y = [x1 EXCEPT !.events = Append(@, ev), !.edges = @ \cup new, !.usage = u,
                       !.entry_locks = IF DOMAIN s.guards = {} THEN @ \cup {e.lock} ELSE @]
    BY <2>1, Zenon DEF EmitAcquire
  <2> HIDE DEF y, ev, new, u
  <2>3. /\ y.return_locks = x1.return_locks /\ y.callsites = x1.callsites
        /\ y.entry_locks = x1.entry_locks \/ y.entry_locks = x1.entry_locks \cup {e.lock}
    BY <1>9, <2>2
  <2>4. IsLock(e.lock)
    BY <1>4, <1>11 DEF IsEffect, NoEffect
  <2>5. IsFiniteSet(x1.entry_locks \cup {e.lock})
    BY <1>9, FS_AddElement DEF FactsNamed
  <2>6. FactsNamed(y)
    BY <1>9, <2>3, <2>4, <2>5 DEF FactsNamed
  <2> QED
    BY <1>1, <2>6
<1>12. CASE e.kind # "Acquire"
  <2>1. /\ y.callsites = x1.callsites /\ y.entry_locks = x1.entry_locks
        /\ y.return_locks = x1.return_locks \/ y.return_locks = x1.return_locks \cup Held(s)
    <3>1. \A local : LET z == EmitRelease(x1, s, local, b)
                     IN  /\ z.callsites = x1.callsites /\ z.entry_locks = x1.entry_locks
                         /\ z.return_locks = x1.return_locks
      <4> SUFFICES ASSUME NEW local
                   PROVE  LET z == EmitRelease(x1, s, local, b)
                          IN  /\ z.callsites = x1.callsites /\ z.entry_locks = x1.entry_locks
                              /\ z.return_locks = x1.return_locks
        OBVIOUS
      <4> DEFINE ev == Event("release", s.irq, s.guards[local], local, b)
                 z == [x1 EXCEPT !.events = Append(@, ev)]
      <4>1. EmitRelease(x1, s, local, b) = IF local \notin DOMAIN s.guards THEN x1 ELSE z
        BY Zenon DEF EmitRelease
      <4> HIDE DEF ev
      <4>2. /\ z.callsites = x1.callsites /\ z.entry_locks = x1.entry_locks
            /\ z.return_locks = x1.return_locks
        BY <1>9
      <4> HIDE DEF z
      <4> QED
        BY <4>1, <4>2
    <3> DEFINE r == [x1 EXCEPT !.return_locks = @ \cup Held(s)]
    <3>2. /\ r.callsites = x1.callsites /\ r.entry_locks = x1.entry_locks
          /\ r.return_locks = x1.return_locks \cup Held(s)
      BY <1>9
    <3>3. \/ \E local : y = EmitRelease(x1, s, local, b)
          \/ y = r \/ y = x1
      <4> HIDE DEF r
      <4>1. y = CASE e.kind = "Acquire" -> EmitAcquire(x1, s, e, b)
                  [] e.kind = "Release" -> EmitRelease(x1, s, e.local, b)
                  [] e = NoEffect /\ term.kind = "drop" /\ IsLocal(term.place) ->
                        EmitRelease(x1, s, term.place.local, b)
                  [] e = NoEffect /\ term.kind = "return" -> r
                  [] OTHER -> x1
        BY Zenon DEF EmitEffect, r
      <4>2. e = NoEffect => e.kind # "Release"
        BY DEF NoEffect
      <4>3. term.kind = "drop" => term.kind # "return"
        OBVIOUS
      <4> HIDE DEF y
      <4> QED
        BY <1>12, <4>1, <4>2, <4>3
    <3> HIDE DEF r, y
    <3> QED
      BY <3>1, <3>2, <3>3
  <2> HIDE DEF y
  <2>2. FactsNamed(y)
    BY <1>9, <1>10, <2>1 DEF FactsNamed
  <2> QED
    BY <1>1, <2>2
<1> QED
  BY <1>11, <1>12

LEMMA BlockIsGood ==
    ASSUME NEW fn, NEW s, NEW c, Good(s, c, fn.irq_guard_arg), NEW block, IsBlock(block),
           NEW known, LocksKnown(known)
    PROVE  Good(AfterBlock(fn, s, block, known), c, fn.irq_guard_arg)
<1>1. Good(AfterStatements(fn, s, block), c, fn.irq_guard_arg)
  BY StatementsAreGood
<1>2. Good(AfterTerminator(fn, AfterStatements(fn, s, block), block.term, known), c,
           fn.irq_guard_arg)
  BY <1>1, TerminatorIsGood
<1> QED
  BY <1>2, Zenon DEF AfterBlock

LEMMA BodyIsBlocks ==
    ASSUME NEW fn, IsBody(fn)
    PROVE  \A b \in DOMAIN fn.blocks : IsBlock(fn.blocks[b])
<1> DEFINE S == {block \in ToSet(fn.blocks) : IsBlock(block)}
           q == fn.blocks
<1>1. q \in Seq(S)
  BY Zenon DEF IsBody
<1>2. \A x \in S : IsBlock(x)
  OBVIOUS
<1> HIDE DEF S, q
<1>3. \A b \in DOMAIN q : q[b] \in S
  BY <1>1
<1> QED
  BY <1>2, <1>3 DEF q

\* Before every block of the pass over a body.
LEMMA RunIsGood ==
    ASSUME NEW fn, IsBody(fn), NEW context, NEW known, LocksKnown(known),
           NEW tr, IsRun(fn, context, known, tr), NEW k \in 0 .. Len(fn.blocks)
    PROVE  /\ Good(tr[k].state, context, fn.irq_guard_arg)
           /\ FactsShaped(tr[k].facts) /\ FactsNamed(tr[k].facts)
<1> DEFINE n == Len(fn.blocks)
           Fine(x) == /\ Good(x.state, context, fn.irq_guard_arg)
                      /\ FactsShaped(x.facts) /\ FactsNamed(x.facts)
           env == [fn |-> fn, known |-> known]
<1>1. n \in Nat /\ DOMAIN fn.blocks = 1 .. n
  BY BodyBlocks, LenProperties
<1>2. Fine(tr[0])
  <2>1. tr[0].state = EntryState(fn, context) /\ tr[0].facts = NoFacts
    BY DEF IsRun
  <2>2. Good(EntryState(fn, context), context, fn.irq_guard_arg)
    BY EntryIsGood
  <2>3. FactsShaped(NoFacts)
    BY DEF FactsShaped, NoFacts, ToSet
  <2>4. FactsNamed(NoFacts)
    <3>1. IsFiniteSet(NoFacts.entry_locks)
      BY FS_EmptySet DEF NoFacts
    <3> QED
      BY <3>1 DEF FactsNamed, NoFacts, ToSet
  <2> QED
    BY <2>1, <2>2, <2>3, <2>4
<1>3. env.fn = fn /\ env.known = known
  OBVIOUS
<1>4. \A b \in 1 .. n : tr[b] = BlockStep(env, tr[b - 1], b)
  BY <1>1, Zenon DEF IsRun
<1> HIDE DEF env, n
<1>5. \A b \in 1 .. n :
         /\ tr[b].state = AfterBlock(fn, tr[b - 1].state, fn.blocks[b], known)
         /\ tr[b].facts = EmitBlock(fn, Fns, tr[b - 1].facts, tr[b - 1].state, b, known)
  <2>1. \A acc, b : /\ BlockStep(env, acc, b).facts
                         = EmitBlock(env.fn, Fns, acc.facts, acc.state, b, env.known)
                    /\ BlockStep(env, acc, b).state
                         = AfterBlock(env.fn, acc.state, env.fn.blocks[b], env.known)
    BY DEF BlockStep
  <2> QED
    BY <1>3, <1>4, <2>1
<1>6. \A b \in 1 .. n : IsBlock(fn.blocks[b])
  BY <1>1, BodyIsBlocks
<1>7. ASSUME NEW b \in 1 .. n, Fine(tr[b - 1]) PROVE Fine(tr[b])
  <2>1. Good(tr[b].state, context, fn.irq_guard_arg)
    BY <1>5, <1>6, <1>7, BlockIsGood
  <2>2. FactsShaped(tr[b].facts)
    BY <1>5, <1>7, EmitBlockKeeps
  <2>3. FactsNamed(tr[b].facts)
    BY <1>5, <1>6, <1>7, EmitIsNamed
  <2> QED
    BY <2>1, <2>2, <2>3
<1> HIDE DEF Fine
<1> DEFINE T == {i \in 0 .. k : Fine(tr[i])}
<1>8. 0 \in T
  BY <1>1, <1>2
<1>9. ASSUME NEW i \in 0 .. k, i < k, i \in T PROVE i + 1 \in T
  <2>1. i + 1 \in 1 .. n /\ (i + 1) - 1 = i /\ i + 1 \in 0 .. k
    BY <1>1, <1>9 DEF n
  <2> QED
    BY <1>7, <1>9, <2>1
<1> HIDE DEF T
<1>10. k \in T
  <2>1. k \in Nat /\ 0 \in Nat /\ 0 <= k
    BY <1>1 DEF n
  <2> QED
    BY <1>8, <1>9, <2>1, Passing!StepsFrom
<1> QED
  BY <1>10 DEF T, Fine

LEMMA MergeIsNamed ==
    ASSUME NEW x, NEW y, FactsShaped(x), FactsShaped(y), FactsNamed(x), FactsNamed(y)
    PROVE  FactsNamed(MergeFacts(x, y))
<1> DEFINE m == MergeFacts(x, y)
<1>1. /\ m.entry_locks = x.entry_locks \cup y.entry_locks
      /\ m.return_locks = x.return_locks \cup y.return_locks
      /\ m.callsites = x.callsites \o y.callsites
  BY DEF MergeFacts
<1> HIDE DEF m
<1>2. ToSet(m.callsites) \subseteq ToSet(x.callsites) \cup ToSet(y.callsites)
  <2>1. x.callsites \in Seq(ToSet(x.callsites)) /\ y.callsites \in Seq(ToSet(y.callsites))
    BY Zenon DEF FactsShaped
  <2> DEFINE p == x.callsites
             q == y.callsites
  <2>2. m.callsites = p \o q
    BY <1>1
  <2> HIDE DEF p, q
  <2> QED
    BY <2>1, <2>2, ConcatKeeps DEF p, q
<1>3. IsFiniteSet(m.entry_locks)
  BY <1>1, FS_Union DEF FactsNamed
<1>4. FactsNamed(m)
  BY <1>1, <1>2, <1>3 DEF FactsNamed
<1> QED
  BY <1>4 DEF m

\* What the analysis of a function reports.
LEMMA FunctionIsNamed ==
    ASSUME NEW fn, IsBody(fn), NEW known, LocksKnown(known),
           NEW contexts, IsFiniteSet(contexts)
    PROVE  FactsNamed(AnalyzeFunction(fn, contexts, known))
<1> DEFINE env == [fn |-> fn, known |-> known]
           q == SetToSeq(contexts)
           n == Len(q)
           body(i) == AnalyzeBody(fn, q[i], known)
           Fine(x) == FactsShaped(x) /\ FactsNamed(x)
<1>1. q \in Seq(contexts)
  BY FiniteAsSequence
<1>2. env.fn = fn /\ env.known = known
  OBVIOUS
<1>3. AnalyzeFunction(fn, contexts, known) = Merging!Loop(env, NoFacts, q)
  BY <1>2 DEF AnalyzeFunction, ContextStep, FoldLeft, MapThenFoldSet, Max, Merging!Loop,
              Merging!FoldLeft, Merging!MapThenFoldSet, Merging!Max
<1> HIDE DEF env, q
<1>4. PICK tr : /\ tr[0] = NoFacts /\ tr[n] = Merging!Loop(env, NoFacts, q)
                /\ \A i \in 1 .. n : tr[i] = ContextStep(env, tr[i - 1], q[i])
  <2>1. PICK tr : Merging!IsTrace(env, NoFacts, q, tr)
    BY <1>1, Merging!FoldLeftTrace, Zenon
  <2> QED
    BY <2>1 DEF Merging!IsTrace
<1>5. n \in Nat
  BY <1>1, LenProperties
<1> HIDE DEF n
<1>6. \A i \in 1 .. n : tr[i] = MergeFacts(tr[i - 1], body(i))
  BY <1>2, <1>4 DEF ContextStep
<1>7. ASSUME NEW i \in 1 .. n PROVE Fine(body(i))
  <2>1. fn.blocks \in Seq(ToSet(fn.blocks))
    BY BodyBlocks
  <2>2. PICK r : IsRun(fn, q[i], known, r) /\ body(i) = r[Len(fn.blocks)].facts
    BY <2>1, RunExists
  <2>3. Len(fn.blocks) \in 0 .. Len(fn.blocks)
    BY <2>1, LenProperties
  <2> QED
    BY <2>2, <2>3, RunIsGood
<1> HIDE DEF body
<1>8. Fine(NoFacts)
  <2>1. IsFiniteSet(NoFacts.entry_locks)
    BY FS_EmptySet DEF NoFacts
  <2> QED
    BY <2>1 DEF FactsShaped, FactsNamed, NoFacts, ToSet
<1>9. \A i \in 1 .. n : Fine(tr[i - 1]) => Fine(tr[i])
  BY <1>6, <1>7, MergeKeeps, MergeIsNamed
<1> HIDE DEF Fine
<1> DEFINE T == {i \in 0 .. n : Fine(tr[i])}
<1>10. 0 \in T
  BY <1>4, <1>5, <1>8
<1>11. ASSUME NEW i \in 0 .. n, i < n, i \in T PROVE i + 1 \in T
  <2>1. i + 1 \in 1 .. n /\ (i + 1) - 1 = i /\ i + 1 \in 0 .. n
    BY <1>5, <1>11
  <2> QED
    BY <1>9, <1>11, <2>1
<1> HIDE DEF T
<1>12. n \in T
  <2>1. 0 \in Nat /\ 0 <= n
    BY <1>5
  <2> QED
    BY <1>5, <1>10, <1>11, <2>1, Merging!StepsFrom
<1> QED
  BY <1>3, <1>4, <1>12 DEF T, Fine

\* The state of a frame, before and after the statements of its block.
LEMMA FrameIsGood ==
    ASSUME BodiesInv, LocksKnown(returns), NEW frame, Tracked(frame)
    PROVE  /\ IsBlock(crate[frame.fn].blocks[frame.at])
           /\ Good(frame.state, frame.context, crate[frame.fn].irq_guard_arg)
           /\ Good(Here(frame), frame.context, crate[frame.fn].irq_guard_arg)
<1> DEFINE fn == crate[frame.fn]
<1>1. /\ IsBody(fn) /\ fn.blocks \in Seq(ToSet(fn.blocks)) /\ frame.at \in DOMAIN fn.blocks
      /\ \A tr : IsRun(fn, frame.context, returns, tr) => frame.state = tr[frame.at - 1].state
  BY DEF Tracked, BodiesInv
<1>2. IsBlock(fn.blocks[frame.at])
  BY <1>1, BodyIsBlocks
<1>3. PICK tr : IsRun(fn, frame.context, returns, tr)
  BY <1>1, RunExists
<1>4. frame.at - 1 \in 0 .. Len(fn.blocks)
  BY <1>1, LenProperties
<1>5. Good(frame.state, frame.context, fn.irq_guard_arg)
  <2> DEFINE k == frame.at - 1
  <2>1. frame.state = tr[k].state /\ k \in 0 .. Len(fn.blocks)
    BY <1>1, <1>3, <1>4
  <2> HIDE DEF k, fn
  <2>2. Good(tr[k].state, frame.context, fn.irq_guard_arg)
    BY <1>1, <1>3, <2>1, RunIsGood
  <2> QED
    BY <2>1, <2>2
<1>6. Good(Here(frame), frame.context, fn.irq_guard_arg)
  BY <1>2, <1>5, StatementsAreGood, Zenon DEF Here
<1> QED
  BY <1>2, <1>5, <1>6

-----------------------------------------------------------------------------
(* The rounds that summarise the functions. *)

FoundLocks(results, known, sites, f) ==
    UNION {SummaryLocks(results, f, site, known) : site \in Sites(results, f) \cap sites}
Grown(results, known, sites, f) ==
    [known EXCEPT ![f] = @ \cup FoundLocks(results, known, sites, f)]
RoundStep(env, acc, f) == Grown(env.results, acc, env.sites, f)
Rounding == INSTANCE FoldInduction WITH Op <- RoundStep, P <- Anything

\* A summary for every function, of locks.
IsSummary(known) == DOMAIN known = Fns /\ LocksKnown(known)
AllFinite(known) == \A f \in Fns : IsFiniteSet(known[f])

\* The summaries that a round goes through.
IsRound(results, known, sites, n, tr) ==
    /\ tr[0] = known /\ tr[n] = Round(results, known, sites)
    /\ \E q \in Seq(Fns) :
          /\ n = Len(q) /\ \A f \in Fns : \E i \in 1 .. n : q[i] = f
          /\ \A i \in 1 .. n : tr[i] = Grown(results, tr[i - 1], sites, q[i])

LEMMA RoundExists ==
    ASSUME NEW results, NEW known, NEW sites
    PROVE  \E n \in Nat : \E tr : IsRound(results, known, sites, n, tr)
<1> DEFINE env == [results |-> results, sites |-> sites]
           q == SetToSeq(Fns)
           n == Len(q)
<1>1. q \in Seq(Fns) /\ \A f \in Fns : \E i \in 1 .. n : q[i] = f
  BY CratesAssumption, FiniteAsSequence
<1>2. env.results = results /\ env.sites = sites
  OBVIOUS
<1>3. Round(results, known, sites) = Rounding!Loop(env, known, q)
  BY <1>2 DEF Round, RoundStep, Grown, FoundLocks, FoldLeft, MapThenFoldSet, Max, Rounding!Loop,
              Rounding!FoldLeft, Rounding!MapThenFoldSet, Rounding!Max
<1> HIDE DEF env, q
<1>4. PICK tr : Rounding!IsTrace(env, known, q, tr)
  BY <1>1, Rounding!FoldLeftTrace, Zenon
<1>5. /\ tr[0] = known /\ tr[n] = Rounding!Loop(env, known, q)
      /\ \A i \in 1 .. n : tr[i] = RoundStep(env, tr[i - 1], q[i])
  BY <1>4 DEF Rounding!IsTrace
<1>6. n \in Nat
  BY <1>1, LenProperties
<1>7. IsRound(results, known, sites, n, tr)
  <2>1. \A i \in 1 .. n : tr[i] = Grown(results, tr[i - 1], sites, q[i])
    BY <1>2, <1>5, Zenon DEF RoundStep
  <2> QED
    BY <1>1, <1>3, <1>5, <2>1 DEF IsRound
<1> QED
  BY <1>6, <1>7

\* What a site adds: the locks of its callees' summaries, renamed.
LEMMA FoundAreLocks ==
    ASSUME NEW results, NEW f \in Fns, FactsShaped(results[f]), FactsNamed(results[f]),
           NEW known, IsSummary(known), NEW site \in Sites(results, f)
    PROVE  /\ \A lock \in SummaryLocks(results, f, site, known) : IsLock(lock)
           /\ AllFinite(known) => IsFiniteSet(SummaryLocks(results, f, site, known))
<1> DEFINE G == Callees(results, f, site) \cap Fns
           L == UNION {known[g] : g \in G}
           R(lock) == Rebound(lock, site.bindings)
           S == UNION {R(lock) : lock \in L}
<1>1. SummaryLocks(results, f, site, known) = S
  BY Zenon DEF SummaryLocks
<1>2. BoundNames(site.bindings)
  BY DEF FactsNamed, Sites
<1>3. \A lock \in L : IsLock(lock)
  <2> HIDE DEF G
  <2>1. \A g \in G : g \in DOMAIN known
    BY DEF G, IsSummary
  <2> QED
    BY <2>1 DEF IsSummary, LocksKnown
<1>4. \A lock \in S : IsLock(lock)
  <2> SUFFICES ASSUME NEW l \in L, NEW other \in R(l) PROVE IsLock(other)
    OBVIOUS
  <2> HIDE DEF L
  <2> QED
    BY <1>2, <1>3, ReboundIsLock
<1>5. ASSUME AllFinite(known) PROVE IsFiniteSet(S)
  <2>1. IsFiniteSet(L)
    <3> DEFINE h == [g \in G |-> known[g]]
               sets == {known[g] : g \in G}
    <3> HIDE DEF G
    <3>1. IsFiniteSet(G)
      BY CratesAssumption, FS_Subset DEF G
    <3>2. h \in Surjection(G, sets)
      BY DEF Surjection
    <3>3. IsFiniteSet(sets)
      BY <3>1, <3>2, FS_Surjection, Zenon
    <3>4. \A x \in sets : IsFiniteSet(x)
      BY <1>5 DEF G, AllFinite
    <3> HIDE DEF sets
    <3>5. IsFiniteSet(UNION sets)
      BY <3>3, <3>4, FS_UNION
    <3> QED
      BY <3>5 DEF sets
  <2> HIDE DEF L
  <2>2. ASSUME NEW lock \in L PROVE IsFiniteSet(R(lock))
    <3> DEFINE C == ReboundClass(lock.class, site.bindings)
    <3>1. \A x \in C : \A y \in C : x = y
      BY DEF ReboundClass
    <3>2. R(lock) = {[lock EXCEPT !.class = class] : class \in C}
      BY DEF Rebound
    <3> HIDE DEF C
    <3>3. \A x \in R(lock) : \A y \in R(lock) : x = y
      BY <3>1, <3>2
    <3>4. R(lock) = {} \/ \E x : R(lock) = {x}
      <4> HIDE DEF R
      <4>1. ASSUME R(lock) # {} PROVE \E x : R(lock) = {x}
        <5>1. PICK x : x \in R(lock)
          BY <4>1
        <5>2. R(lock) = {x}
          BY <3>3, <5>1
        <5> QED
          BY <5>2
      <4> QED
        BY <4>1
    <3> HIDE DEF R
    <3> QED
      BY <3>4, FS_EmptySet, FS_Singleton
  <2> HIDE DEF R
  <2> DEFINE h == [lock \in L |-> R(lock)]
             sets == {R(lock) : lock \in L}
  <2>3. h \in Surjection(L, sets)
    BY DEF Surjection
  <2>4. IsFiniteSet(sets)
    BY <2>1, <2>3, FS_Surjection, Zenon
  <2>5. \A x \in sets : IsFiniteSet(x)
    BY <2>2
  <2> HIDE DEF sets
  <2>6. IsFiniteSet(UNION sets)
    BY <2>4, <2>5, FS_UNION
  <2> QED
    BY <2>6 DEF sets
<1> HIDE DEF S
<1> QED
  BY <1>1, <1>4, <1>5

\* One function of a round: its summary grows, the others stay.
LEMMA RoundStepKeeps ==
    ASSUME NEW results, \A f \in Fns : FactsShaped(results[f]) /\ FactsNamed(results[f]),
           NEW known, IsSummary(known), NEW sites, NEW g \in Fns, NEW next,
           next = Grown(results, known, sites, g)
    PROVE  /\ IsSummary(next) /\ \A f \in Fns : known[f] \subseteq next[f]
           /\ next[g] = known[g] \cup FoundLocks(results, known, sites, g)
           /\ AllFinite(known) => AllFinite(next)
<1> DEFINE S == Sites(results, g) \cap sites
           F(site) == SummaryLocks(results, g, site, known)
           found == FoundLocks(results, known, sites, g)
<1>1. found = UNION {F(site) : site \in S}
  BY Zenon DEF FoundLocks
<1>2. \A site \in S : \A lock \in F(site) : IsLock(lock)
  BY FoundAreLocks
<1>3. \A lock \in found : IsLock(lock)
  <2> HIDE DEF S, F, found
  <2> QED
    BY <1>1, <1>2
<1>4. ASSUME AllFinite(known) PROVE IsFiniteSet(found)
  <2>1. IsFiniteSet(S)
    <3>1. IsFiniteSet(Sites(results, g))
      BY ListFinite, Zenon DEF Sites, FactsShaped
    <3> QED
      BY <3>1, FS_Subset
  <2>2. \A site \in S : IsFiniteSet(F(site))
    BY <1>4, FoundAreLocks
  <2> HIDE DEF S, F, found
  <2> DEFINE h == [site \in S |-> F(site)]
             sets == {F(site) : site \in S}
  <2>3. h \in Surjection(S, sets)
    BY DEF Surjection
  <2>4. IsFiniteSet(sets)
    BY <2>1, <2>3, FS_Surjection, Zenon
  <2>5. \A x \in sets : IsFiniteSet(x)
    BY <2>2
  <2> HIDE DEF sets
  <2>6. IsFiniteSet(UNION sets)
    BY <2>4, <2>5, FS_UNION
  <2> QED
    BY <1>1, <2>6 DEF sets
<1> HIDE DEF found
<1>5. /\ DOMAIN next = Fns /\ next[g] = known[g] \cup found
      /\ \A f \in Fns : f # g => next[f] = known[f]
  <2>1. next = [known EXCEPT ![g] = @ \cup found]
    BY Zenon DEF found, Grown
  <2>2. DOMAIN known = Fns
    BY DEF IsSummary
  <2> QED
    BY <2>1, <2>2
<1>6. IsSummary(next)
  BY <1>3, <1>5 DEF IsSummary, LocksKnown
<1>7. ASSUME AllFinite(known) PROVE AllFinite(next)
  <2>1. IsFiniteSet(known[g] \cup found)
    BY <1>4, <1>7, FS_Union DEF AllFinite
  <2> QED
    BY <1>5, <1>7, <2>1 DEF AllFinite
<1>8. \A f \in Fns : known[f] \subseteq next[f]
  BY <1>5
<1> QED
  BY <1>5, <1>6, <1>7, <1>8 DEF found

\* A round keeps what the summaries have.
LEMMA RoundKeeps ==
    ASSUME NEW results, \A f \in Fns : FactsShaped(results[f]) /\ FactsNamed(results[f]),
           NEW known, IsSummary(known), NEW sites
    PROVE  LET round == Round(results, known, sites)
           IN  /\ IsSummary(round) /\ \A f \in Fns : known[f] \subseteq round[f]
               /\ AllFinite(known) => AllFinite(round)
<1> DEFINE Fine(x) == /\ IsSummary(x) /\ \A f \in Fns : known[f] \subseteq x[f]
                      /\ AllFinite(known) => AllFinite(x)
<1>1. PICK n \in Nat : \E tr : IsRound(results, known, sites, n, tr)
  BY RoundExists
<1>2. PICK tr : IsRound(results, known, sites, n, tr)
  BY <1>1
<1>3. PICK q \in Seq(Fns) :
         /\ n = Len(q)
         /\ \A i \in 1 .. n : tr[i] = Grown(results, tr[i - 1], sites, q[i])
  BY <1>2 DEF IsRound
<1>4. tr[0] = known /\ tr[n] = Round(results, known, sites)
  BY <1>2 DEF IsRound
<1> DEFINE T == {i \in 0 .. n : Fine(tr[i])}
<1>5. 0 \in T
  BY <1>4
<1>6. ASSUME NEW i \in 0 .. n, i < n, i \in T PROVE i + 1 \in T
  <2> DEFINE x == tr[i]
             g == q[i + 1]
             next == tr[i + 1]
  <2>1. i + 1 \in 1 .. n /\ (i + 1) - 1 = i /\ i + 1 \in 0 .. n
    BY <1>6
  <2>2. g \in Fns /\ next = Grown(results, x, sites, g)
    BY <1>3, <2>1, LenProperties
  <2>3. Fine(x)
    BY <1>6
  <2> HIDE DEF x, g, next, T
  <2>4. /\ IsSummary(next) /\ \A f \in Fns : x[f] \subseteq next[f]
        /\ AllFinite(x) => AllFinite(next)
    BY <2>2, <2>3, RoundStepKeeps
  <2>5. Fine(next)
    BY <2>3, <2>4
  <2> QED
    BY <2>1, <2>5 DEF T, next
<1> HIDE DEF Fine
<1>7. n \in T
  <2> HIDE DEF T
  <2>1. 0 \in Nat /\ 0 <= n
    OBVIOUS
  <2> QED
    BY <1>5, <1>6, <2>1, Rounding!StepsFrom
<1>8. Fine(Round(results, known, sites))
  BY <1>4, <1>7
<1> QED
  BY <1>8 DEF Fine

\* A round that changes nothing has nothing to add.
LEMMA RoundAddsNothing ==
    ASSUME NEW results, \A f \in Fns : FactsShaped(results[f]) /\ FactsNamed(results[f]),
           NEW known, IsSummary(known), NEW sites, Round(results, known, sites) = known,
           NEW g \in Fns, NEW site \in Sites(results, g) \cap sites
    PROVE  SummaryLocks(results, g, site, known) \subseteq known[g]
<1>1. PICK n \in Nat : \E tr : IsRound(results, known, sites, n, tr)
  BY RoundExists
<1>2. PICK tr : IsRound(results, known, sites, n, tr)
  BY <1>1
<1>3. PICK q \in Seq(Fns) :
         /\ n = Len(q) /\ \A f \in Fns : \E i \in 1 .. n : q[i] = f
         /\ \A i \in 1 .. n : tr[i] = Grown(results, tr[i - 1], sites, q[i])
  BY <1>2 DEF IsRound
<1>4. tr[0] = known /\ tr[n] = known
  BY <1>2 DEF IsRound
<1> DEFINE Fine(x) == IsSummary(x) /\ \A f \in Fns : known[f] \subseteq x[f]
<1>5. ASSUME NEW i \in 1 .. n, IsSummary(tr[i - 1])
      PROVE  /\ IsSummary(tr[i]) /\ \A f \in Fns : tr[i - 1][f] \subseteq tr[i][f]
             /\ FoundLocks(results, tr[i - 1], sites, q[i]) \subseteq tr[i][q[i]]
  <2> DEFINE x == tr[i - 1]
             h == q[i]
             next == tr[i]
  <2>1. h \in Fns /\ next = Grown(results, x, sites, h)
    BY <1>3, LenProperties
  <2> HIDE DEF x, h, next
  <2>2. /\ IsSummary(next) /\ \A f \in Fns : x[f] \subseteq next[f]
        /\ next[h] = x[h] \cup FoundLocks(results, x, sites, h)
    BY <1>5, <2>1, RoundStepKeeps DEF x
  <2> QED
    BY <2>2 DEF x, h, next
<1>6. ASSUME NEW k \in 0 .. n PROVE Fine(tr[k])
  <2> DEFINE T == {i \in 0 .. k : Fine(tr[i])}
  <2>1. 0 \in T
    BY <1>4
  <2>2. ASSUME NEW i \in 0 .. k, i < k, i \in T PROVE i + 1 \in T
    <3>1. i + 1 \in 1 .. n /\ (i + 1) - 1 = i /\ i + 1 \in 0 .. k
      BY <2>2
    <3>2. IsSummary(tr[i + 1]) /\ \A f \in Fns : tr[i][f] \subseteq tr[i + 1][f]
      BY <1>5, <2>2, <3>1
    <3> QED
      BY <2>2, <3>1, <3>2
  <2> HIDE DEF T
  <2>3. k \in T
    <3>1. k \in Nat /\ 0 \in Nat /\ 0 <= k
      OBVIOUS
    <3> QED
      BY <2>1, <2>2, <3>1, Rounding!StepsFrom
  <2> QED
    BY <2>3 DEF T
<1>7. ASSUME NEW k \in 0 .. n, NEW f \in Fns PROVE tr[k][f] \subseteq known[f]
  <2> DEFINE T == {i \in k .. n : tr[k][f] \subseteq tr[i][f]}
  <2>1. k \in T
    OBVIOUS
  <2>2. ASSUME NEW i \in k .. n, i < n, i \in T PROVE i + 1 \in T
    <3>1. i + 1 \in 1 .. n /\ (i + 1) - 1 = i /\ i + 1 \in k .. n /\ i \in 0 .. n
      BY <2>2
    <3>2. IsSummary(tr[i])
      BY <1>6, <3>1
    <3>3. tr[i][f] \subseteq tr[i + 1][f]
      BY <1>5, <3>1, <3>2
    <3> QED
      BY <2>2, <3>1, <3>3
  <2> HIDE DEF T
  <2>3. n \in T
    <3>1. k \in Nat /\ k <= n
      OBVIOUS
    <3> QED
      BY <2>1, <2>2, <3>1, Rounding!StepsFrom
  <2> QED
    BY <1>4, <2>3 DEF T
<1>8. PICK i \in 1 .. n : q[i] = g
  BY <1>3
<1> DEFINE x == tr[i - 1]
<1>9. i - 1 \in 0 .. n /\ i \in 0 .. n
  OBVIOUS
<1>10. \A f \in Fns : x[f] = known[f]
  BY <1>6, <1>7, <1>9
<1>11. IsSummary(x)
  BY <1>6, <1>9
<1>12. FoundLocks(results, x, sites, g) \subseteq known[g]
  <2>1. FoundLocks(results, x, sites, g) \subseteq tr[i][g]
    BY <1>5, <1>8, <1>11
  <2> QED
    BY <1>7, <1>9, <2>1
<1> HIDE DEF x
<1>13. SummaryLocks(results, g, site, x) = SummaryLocks(results, g, site, known)
  <2> DEFINE G == Callees(results, g, site) \cap Fns
  <2>1. {x[h] : h \in G} = {known[h] : h \in G}
    BY <1>10
  <2>2. \A s : SummaryLocks(results, g, site, s)
          = UNION {Rebound(lock, site.bindings) : lock \in UNION {s[h] : h \in G}}
    BY Zenon DEF SummaryLocks
  <2> HIDE DEF G
  <2> QED
    BY <2>1, <2>2, Zenon
<1>14. SummaryLocks(results, g, site, x) \subseteq FoundLocks(results, x, sites, g)
  BY Zenon DEF FoundLocks
<1> QED
  BY <1>12, <1>13, <1>14

\* The summaries in the making, and what they start from.
SummaryInv ==
    /\ LocksKnown(returns)
    /\ \A f \in Fns : FactsNamed(analyses[f])
    /\ phase # "contexts" => IsSummary(summaries)
    /\ phase \in {"entries", "done"} =>
          /\ AllFinite(summaries)
          /\ \A f \in Fns : analyses[f].entry_locks \subseteq summaries[f]

LEMMA InitSummary == ASSUME Init PROVE SummaryInv
<1>1. returns = <<>> /\ phase = "contexts" /\ analyses = [f \in Fns |-> NoFacts]
  BY DEF Init
<1>2. LocksKnown(returns)
  BY <1>1 DEF LocksKnown
<1>3. FactsNamed(NoFacts)
  <2>1. IsFiniteSet(NoFacts.entry_locks)
    BY FS_EmptySet DEF NoFacts
  <2> QED
    BY <2>1 DEF FactsNamed, NoFacts, ToSet
<1>4. \A f \in Fns : FactsNamed(analyses[f])
  BY <1>1, <1>3, Zenon
<1> QED
  BY <1>1, <1>2, <1>4 DEF SummaryInv

LEMMA SummaryGrows ==
    ASSUME SummaryInv, FoundInv, phase \in {"returns", "entries"}, NEW sites,
           GrowSummaries(Round(analyses, summaries, sites))
    PROVE  SummaryInv'
<1> DEFINE round == Round(analyses, summaries, sites)
<1>1. summaries' = round /\ UNCHANGED <<returns, analyses, phase>>
  BY DEF GrowSummaries
<1>2. \A f \in Fns : FactsShaped(analyses[f]) /\ FactsNamed(analyses[f])
  BY DEF FoundInv, SummaryInv
<1>3. IsSummary(summaries)
  BY DEF SummaryInv
<1>4. /\ IsSummary(round) /\ \A f \in Fns : summaries[f] \subseteq round[f]
      /\ AllFinite(summaries) => AllFinite(round)
  BY <1>2, <1>3, RoundKeeps
<1> HIDE DEF round
<1>5. IsSummary(summaries)' /\ (AllFinite(summaries) => AllFinite(summaries)')
  BY <1>1, <1>4 DEF IsSummary, AllFinite
<1>6. LocksKnown(returns)'
  BY <1>1 DEF LocksKnown, SummaryInv
<1>7. phase \in {"entries", "done"} =>
         /\ AllFinite(summaries)
         /\ \A f \in Fns : analyses[f].entry_locks \subseteq summaries[f]
  BY DEF SummaryInv
<1>8. phase \in {"entries", "done"} => \A f \in Fns : analyses[f].entry_locks \subseteq round[f]
  BY <1>4, <1>7
<1> QED
  BY <1>1, <1>2, <1>5, <1>6, <1>7, <1>8 DEF SummaryInv

LEMMA SummaryStep ==
    ASSUME BodiesInv, FoundInv, SummaryInv, [Next]_vars
    PROVE  SummaryInv'
<1> USE DEF analysisVars
<1>1. CASE UNCHANGED <<returns, analyses, phase, summaries>>
  BY <1>1 DEF SummaryInv, LocksKnown, IsSummary, AllFinite
<1>2. CASE PropagateContexts
  BY <1>1, <1>2 DEF PropagateContexts
<1>3. CASE Analyze
  <2>1. /\ analyses' = [f \in Fns |-> AnalyzeFunction(crate[f], ContextsOf(f), returns)]
        /\ summaries' = [f \in Fns |-> analyses'[f].return_locks]
        /\ phase' = "returns" /\ returns' = returns
    BY <1>3 DEF Analyze
  <2>2. ASSUME NEW f \in Fns
        PROVE  FactsNamed(AnalyzeFunction(crate[f], ContextsOf(f), returns))
    <3>1. IsBody(crate[f]) /\ IsFiniteSet(ContextsOf(f)) /\ LocksKnown(returns)
      BY ContextsOfFinite DEF BodiesInv, FoundInv, SummaryInv
    <3> QED
      BY <3>1, FunctionIsNamed
  <2>3. \A f \in Fns : FactsNamed(analyses'[f])
    BY <2>1, <2>2
  <2>4. LocksKnown(returns)'
    BY <2>1 DEF LocksKnown, SummaryInv
  <2>5. IsSummary(summaries)'
    <3>1. \A f \in Fns : \A lock \in analyses'[f].return_locks : IsLock(lock)
      BY <2>3, Zenon DEF FactsNamed
    <3> QED
      BY <2>1, <3>1 DEF IsSummary, LocksKnown
  <2> QED
    BY <2>1, <2>3, <2>4, <2>5 DEF SummaryInv
<1>4. CASE SummarizeReturns
  <2> DEFINE round == Round(analyses, summaries, ReturnsResult(analyses))
  <2>1. phase = "returns" /\ IsSummary(summaries)
    BY <1>4 DEF SummarizeReturns, SummaryInv
  <2>2. GrowSummaries(round) \/ AnalyzeAgain(round) \/ Reseed(round) \/ Settle(round)
    BY <1>4, Zenon DEF SummarizeReturns
  <2>3. CASE GrowSummaries(round)
    BY <2>1, <2>3, SummaryGrows
  <2> HIDE DEF round
  <2>4. CASE AnalyzeAgain(round)
    <3>1. returns' = summaries /\ phase' = "contexts" /\ analyses' = analyses
      BY <2>4 DEF AnalyzeAgain
    <3>2. LocksKnown(returns)'
      BY <2>1, <3>1 DEF IsSummary, LocksKnown
    <3> QED
      BY <3>1, <3>2 DEF SummaryInv
  <2>5. CASE Reseed(round)
    <3>1. returns' = <<>> /\ phase' = "contexts" /\ analyses' = analyses
      BY <2>5 DEF Reseed
    <3>2. LocksKnown(returns)'
      BY <3>1 DEF LocksKnown
    <3> QED
      BY <3>1, <3>2 DEF SummaryInv
  <2>6. CASE Settle(round)
    <3>1. /\ summaries' = [f \in Fns |-> analyses[f].entry_locks]
          /\ returns' = returns /\ phase' = "entries" /\ analyses' = analyses
      BY <2>6 DEF Settle
    <3>2. \A f \in Fns : FactsNamed(analyses[f])
      BY DEF SummaryInv
    <3>3. IsSummary(summaries)' /\ AllFinite(summaries)'
      BY <3>1, <3>2 DEF IsSummary, LocksKnown, AllFinite, FactsNamed
    <3>4. LocksKnown(returns)'
      BY <3>1 DEF LocksKnown, SummaryInv
    <3> QED
      BY <3>1, <3>2, <3>3, <3>4 DEF SummaryInv
  <2> QED
    BY <2>2, <2>3, <2>4, <2>5, <2>6
<1>5. CASE SummarizeEntries
  <2> DEFINE round == Round(analyses, summaries, HoldsNothing(analyses))
  <2>1. phase = "entries" /\ (GrowSummaries(round) \/ Finalize(round))
    BY <1>5, Zenon DEF SummarizeEntries
  <2>2. CASE GrowSummaries(round)
    BY <2>1, <2>2, SummaryGrows
  <2> HIDE DEF round
  <2>3. CASE Finalize(round)
    <3>1. phase' = "done" /\ UNCHANGED <<returns, analyses, summaries>>
      BY <2>3 DEF Finalize
    <3> QED
      BY <2>1, <3>1 DEF SummaryInv, LocksKnown, IsSummary, AllFinite
  <2> QED
    BY <2>1, <2>2, <2>3
<1>6. CASE Enter \/ Call \/ Advance \/ Finished \/ UNCHANGED vars
  BY <1>1, <1>6 DEF Enter, Call, Advance, Finished, vars
<1> QED
  BY <1>2, <1>3, <1>4, <1>5, <1>6 DEF Next

-----------------------------------------------------------------------------
(* What a class names. *)

FieldStep(env, acc, p) == IF p = "Deref" THEN acc ELSE Append(acc, p)
Reading == INSTANCE FoldInduction WITH Op <- FieldStep, P <- Anything

LEMMA ExtendedIsLoop ==
    ASSUME NEW fields, NEW proj
    PROVE  Extended(fields, proj) = Reading!Loop(0, fields, proj)
BY DEF Extended, FieldStep, FoldLeft, MapThenFoldSet, Max, Reading!Loop, Reading!FoldLeft,
       Reading!MapThenFoldSet, Reading!Max

\* The projections of a list that follow the first k, and their reading.
IsRest(rest, proj, k) ==
    /\ rest \in Seq(STRING) /\ Len(rest) = Len(proj) - k
    /\ \A i \in 1 .. Len(rest) : rest[i] = proj[i + k]
ReadsFrom(tr, k, proj) ==
    \A i \in k + 1 .. Len(proj) : tr[i] = FieldStep(0, tr[i - 1], proj[i])

\* They are read alike in the list and alone.
LEMMA ExtendedSame ==
    ASSUME NEW proj \in Seq(STRING), NEW k \in 0 .. Len(proj), NEW tr, ReadsFrom(tr, k, proj),
           NEW rest, IsRest(rest, proj, k)
    PROVE  tr[Len(proj)] = Extended(tr[k], rest)
<1> DEFINE n == Len(proj)
           m == Len(rest)
           fields == tr[k]
<1>0. rest \in Seq(STRING) /\ \A i \in 1 .. m : rest[i] = proj[i + k]
  BY DEF IsRest
<1>1. n \in Nat /\ m \in Nat /\ k \in Nat /\ m = n - k
  BY <1>0, LenProperties DEF IsRest
<1>2. PICK s : /\ s[0] = fields /\ s[m] = Extended(fields, rest)
               /\ \A i \in 1 .. m : s[i] = FieldStep(0, s[i - 1], rest[i])
  <2> HIDE DEF fields
  <2>1. PICK s : Reading!IsTrace(0, fields, rest, s)
    BY <1>0, Reading!FoldLeftTrace, Zenon
  <2> QED
    BY <2>1, ExtendedIsLoop DEF Reading!IsTrace
<1> HIDE DEF n, m
<1> DEFINE T == {i \in 0 .. m : s[i] = tr[i + k]}
<1>3. 0 \in T
  BY <1>1, <1>2
<1>4. ASSUME NEW i \in 0 .. m, i < m, i \in T PROVE i + 1 \in T
  <2> DEFINE j == i + k + 1
  <2>1. /\ i + 1 \in 1 .. m /\ (i + 1) - 1 = i /\ i + 1 \in 0 .. m
        /\ j \in k + 1 .. n /\ j - 1 = i + k /\ j = (i + 1) + k
    BY <1>1, <1>4
  <2>2. s[i] = tr[i + k]
    BY <1>4
  <2> HIDE DEF T, j
  <2>3. s[i + 1] = FieldStep(0, s[i], rest[i + 1])
    BY <1>2, <2>1
  <2>4. rest[i + 1] = proj[j]
    BY <1>0, <2>1
  <2>5. tr[j] = FieldStep(0, tr[j - 1], proj[j])
    BY <2>1 DEF n, ReadsFrom
  <2>6. s[i + 1] = tr[(i + 1) + k]
    BY <2>1, <2>2, <2>3, <2>4, <2>5
  <2> QED
    BY <2>1, <2>6 DEF T
<1> HIDE DEF T
<1>5. m \in T
  <2>1. 0 \in Nat /\ 0 <= m
    BY <1>1
  <2> QED
    BY <1>1, <1>3, <1>4, <2>1, Reading!StepsFrom
<1>6. s[m] = tr[m + k] /\ m + k = n
  BY <1>1, <1>5 DEF T
<1> QED
  BY <1>2, <1>6 DEF n

\* A list of projections read after another.
LEMMA ExtendedTwice ==
    ASSUME NEW fields, NEW left \in Seq(STRING), NEW right \in Seq(STRING)
    PROVE  Extended(Extended(fields, left), right) = Extended(fields, left \o right)
<1> DEFINE both == left \o right
           n == Len(both)
           k == Len(left)
<1>1. /\ both \in Seq(STRING) /\ n = k + Len(right)
      /\ \A i \in 1 .. n : both[i] = IF i <= k THEN left[i] ELSE right[i - k]
  BY ConcatProperties
<1>2. n \in Nat /\ k \in Nat /\ Len(right) \in Nat
  BY <1>1, LenProperties
<1>3. PICK tr : /\ tr[0] = fields /\ tr[n] = Extended(fields, both)
                /\ \A i \in 1 .. n : tr[i] = FieldStep(0, tr[i - 1], both[i])
  <2>1. PICK tr : Reading!IsTrace(0, fields, both, tr)
    BY <1>1, Reading!FoldLeftTrace, Zenon
  <2> QED
    BY <2>1, ExtendedIsLoop DEF Reading!IsTrace
<1> HIDE DEF both, n, k
<1>4. tr[k] = Extended(fields, left)
  <2>1. ReadsFrom(tr, 0, left)
    BY <1>1, <1>2, <1>3 DEF k, ReadsFrom
  <2>2. IsRest(left, left, 0) /\ 0 \in 0 .. Len(left)
    BY <1>2 DEF k, IsRest
  <2>3. tr[Len(left)] = Extended(tr[0], left)
    BY <2>1, <2>2, ExtendedSame
  <2> QED
    BY <1>3, <2>3 DEF k
<1>5. tr[n] = Extended(tr[k], right)
  <2>1. k \in 0 .. Len(both) /\ Len(right) = Len(both) - k
    BY <1>1, <1>2 DEF n
  <2>2. ReadsFrom(tr, k, both)
    BY <1>2, <1>3 DEF n, ReadsFrom
  <2>3. \A i \in 1 .. Len(right) : right[i] = both[i + k]
    <3> SUFFICES ASSUME NEW i \in 1 .. Len(right) PROVE right[i] = both[i + k]
      OBVIOUS
    <3>1. i + k \in 1 .. n /\ ~(i + k <= k) /\ (i + k) - k = i
      BY <1>1, <1>2
    <3> QED
      BY <1>1, <3>1
  <2>4. IsRest(right, both, k)
    BY <2>1, <2>3 DEF IsRest
  <2>5. tr[Len(both)] = Extended(tr[k], right)
    BY <1>1, <2>1, <2>2, <2>4, ExtendedSame
  <2> QED
    BY <2>5 DEF n
<1> QED
  BY <1>3, <1>4, <1>5 DEF both

\* A Deref in front reads nothing.
LEMMA ExtendedDeref ==
    ASSUME NEW fields, NEW proj \in Seq(STRING), proj # <<>>, Head(proj) = "Deref"
    PROVE  Extended(fields, proj) = Extended(fields, Tail(proj))
<1> DEFINE n == Len(proj)
           rest == Tail(proj)
<1>1. /\ rest \in Seq(STRING) /\ Len(rest) = n - 1 /\ n \in Nat /\ n # 0
      /\ \A i \in 1 .. Len(rest) : rest[i] = proj[i + 1]
      /\ proj[1] = "Deref"
  BY HeadTailProperties, LenProperties, EmptySeq
<1>2. PICK tr : /\ tr[0] = fields /\ tr[n] = Extended(fields, proj)
                /\ \A i \in 1 .. n : tr[i] = FieldStep(0, tr[i - 1], proj[i])
  <2>1. PICK tr : Reading!IsTrace(0, fields, proj, tr)
    BY Reading!FoldLeftTrace, Zenon
  <2> QED
    BY <2>1, ExtendedIsLoop DEF Reading!IsTrace
<1>3. tr[1] = fields
  <2>1. tr[1] = FieldStep(0, tr[1 - 1], proj[1])
    BY <1>1, <1>2
  <2> QED
    BY <1>1, <1>2, <2>1 DEF FieldStep
<1> HIDE DEF rest
<1>4. 1 \in 0 .. Len(proj) /\ ReadsFrom(tr, 1, proj) /\ IsRest(rest, proj, 1)
  BY <1>1, <1>2 DEF ReadsFrom, IsRest
<1>5. tr[Len(proj)] = Extended(tr[1], rest)
  BY <1>4, ExtendedSame
<1> QED
  BY <1>2, <1>3, <1>5 DEF rest

\* So the projections that are joined to rename a class name what the two name in turn.
LEMMA SplicedReads ==
    ASSUME NEW fields, NEW left \in Seq(STRING), NEW right \in Seq(STRING)
    PROVE  Extended(fields, Spliced(left, right)) = Extended(Extended(fields, left), right)
<1>1. CASE left # <<>> /\ right # <<>> /\ Last(left) = "Deref" /\ Head(right) = "Deref"
  <2>1. Spliced(left, right) = left \o Tail(right)
    BY <1>1 DEF Spliced
  <2>2. Tail(right) \in Seq(STRING)
    BY <1>1, HeadTailProperties
  <2>3. Extended(fields, left \o Tail(right)) = Extended(Extended(fields, left), Tail(right))
    BY <2>2, ExtendedTwice
  <2>4. Extended(Extended(fields, left), right) = Extended(Extended(fields, left), Tail(right))
    BY <1>1, ExtendedDeref
  <2> QED
    BY <2>1, <2>3, <2>4
<1>2. CASE ~(left # <<>> /\ right # <<>> /\ Last(left) = "Deref" /\ Head(right) = "Deref")
  <2>1. Spliced(left, right) = left \o right
    BY <1>2, Zenon DEF Spliced
  <2> QED
    BY <2>1, ExtendedTwice
<1> QED
  BY <1>1, <1>2

-----------------------------------------------------------------------------
(* What is acquired under the calls of an execution. *)

\* A block that acquires a lock reports it: its order after what is held, that it is
\* acquired on entry when nothing is, and its use.
Reported(facts, s, lock) ==
    /\ \A held \in Held(s) : DeadlockRelevant(held, lock) =>
          \E edge \in facts.edges : edge.from = held /\ edge.to = lock
    /\ Held(s) = {} => lock \in facts.entry_locks
    /\ lock \in DOMAIN facts.usage
    /\ UsageBits(ForAcquire(s.irq, lock)) \subseteq DOMAIN facts.usage[lock]

LEMMA ReportedKept ==
    ASSUME NEW x, NEW y, Kept(x, y), NEW s, NEW lock, Reported(x, s, lock)
    PROVE  Reported(y, s, lock)
BY DEF Kept, UsageKept, Reported

LEMMA BlockAcquires ==
    ASSUME NEW fn, NEW x, FactsShaped(x), NEW in, NEW b, NEW known,
           NEW s, s = AfterStatements(fn, in, fn.blocks[b]),
           NEW e, e = CallEffect(fn, s, fn.blocks[b].term, known), e.kind = "Acquire"
    PROVE  Reported(EmitBlock(fn, Fns, x, in, b, known), s, e.lock)
<1> DEFINE term == fn.blocks[b].term
           S == CallSites(fn, Fns, s, term, b)
           q == SetToSeq(S)
           x1 == [x EXCEPT !.callsites = @ \o q]
           y == EmitAcquire(x1, s, e, b)
<1>1. EmitBlock(fn, Fns, x, in, b, known) = y
  <2>1. EmitBlock(fn, Fns, x, in, b, known) = EmitEffect(x1, s, e, term, b)
    BY Zenon DEF EmitBlock, EmitTerminator
  <2>2. e.kind # "Release" /\ e # NoEffect
    BY DEF NoEffect
  <2> HIDE DEF x1, term
  <2>3. EmitEffect(x1, s, e, term, b) = EmitAcquire(x1, s, e, b)
    BY <2>2 DEF EmitEffect
  <2> QED
    BY <2>1, <2>3
<1>2. q \in Seq(S)
  BY OneSite, OneAsSequence
<1> HIDE DEF term, S, q
<1>3. DOMAIN x1 = DOMAIN x /\ x1.callsites = x.callsites \o q
  BY DEF FactsShaped
<1> HIDE DEF x1
<1>4. x1.callsites \in Seq(ToSet(x1.callsites))
  <2>1. x.callsites \o q \in Seq(ToSet(x.callsites \o q))
    BY <1>2, ConcatKeeps, Zenon DEF FactsShaped
  <2> QED
    BY <1>3, <2>1, Zenon
<1>5. FactsShaped(x1)
  BY <1>3, <1>4, Zenon DEF FactsShaped
<1>6. /\ \A held \in Held(s) : DeadlockRelevant(held, e.lock) =>
            \E edge \in y.edges : edge.from = held /\ edge.to = e.lock
      /\ DOMAIN s.guards = {} => e.lock \in y.entry_locks
      /\ e.lock \in DOMAIN y.usage
      /\ UsageBits(ForAcquire(s.irq, e.lock)) \subseteq DOMAIN y.usage[e.lock]
  BY <1>5, EmitAcquireKeeps
<1>7. Held(s) = {} => DOMAIN s.guards = {}
  BY DEF Held
<1> HIDE DEF y
<1>8. Reported(y, s, e.lock)
  BY <1>6, <1>7, Zenon DEF Reported
<1> QED
  BY <1>1, <1>8

\* What a frame acquires its function reports.
LEMMA FrameAcquires ==
    ASSUME BodiesInv, FoundInv, AnalysesStand, NEW frame, Tracked(frame),
           NEW e, e = CallEffect(crate[frame.fn], Here(frame), TermOf(frame), returns),
           e.kind = "Acquire"
    PROVE  Reported(analyses[frame.fn], Here(frame), e.lock)
<1> DEFINE fn == crate[frame.fn]
           at == frame.at
           s == AfterStatements(fn, frame.state, fn.blocks[at])
<1>1. PICK x : /\ FactsShaped(x)
               /\ Kept(EmitBlock(fn, Fns, x, frame.state, at, returns), analyses[frame.fn])
  BY BlockReported
<1>2. Here(frame) = s /\ e = CallEffect(fn, s, fn.blocks[at].term, returns)
  BY Zenon DEF Here, TermOf
<1> HIDE DEF s
<1>3. Reported(EmitBlock(fn, Fns, x, frame.state, at, returns), s, e.lock)
  <2>1. s = AfterStatements(fn, frame.state, fn.blocks[at])
    BY DEF s
  <2> QED
    BY <1>1, <1>2, <2>1, BlockAcquires
<1> DEFINE y == EmitBlock(fn, Fns, x, frame.state, at, returns)
<1> HIDE DEF y
<1>4. Reported(analyses[frame.fn], s, e.lock)
  <2>1. Kept(y, analyses[frame.fn]) /\ Reported(y, s, e.lock)
    BY <1>1, <1>3 DEF y
  <2> QED
    BY <2>1, ReportedKept
<1> QED
  BY <1>2, <1>4

\* A class of a callee and its name at the caller are the address of the same lock.
LEMMA AddressThrough ==
    ASSUME NEW frame, NEW next, Entered(frame, next),
           NEW bindings, bindings = ArgBindings(crate[frame.fn], Here(frame), TermOf(frame).args),
           BoundNames(bindings),
           NEW class, class.proj \in Seq(STRING), Address(next, class).root # NoRoot
    PROVE  \E other \in ReboundClass(class, bindings) :
              Address(frame, other) = Address(next, class)
<1> DEFINE args == TermOf(frame).args
           From(fr, c) == IF c.root.kind = "Arg" THEN Get(fr.env, c.root.index, NoAddress)
                          ELSE [root |-> c.root, fields |-> <<>>]
<1>1. \A fr, c : Address(fr, c)
         = [root |-> From(fr, c).root, fields |-> Extended(From(fr, c).fields, c.proj)]
  BY Zenon DEF Address
<1>2. next.env = [i \in DOMAIN args |->
                    IF i \in DOMAIN bindings THEN Address(frame, bindings[i]) ELSE NoAddress]
  <2> DEFINE here == Here(frame)
             term == TermOf(frame)
             bound == ArgBindings(crate[frame.fn], here, term.args)
             env == [i \in DOMAIN term.args |->
                       IF i \in DOMAIN bound THEN Address(frame, bound[i]) ELSE NoAddress]
  <2>1. PICK p : p = Pushed(frame, next.fn, here, term) /\ next.env = p.env
    BY DEF Entered
  <2>2. \E c, st, cs : p = [fn |-> next.fn, at |-> 1, context |-> c, state |-> st, env |-> env,
                            callables |-> cs]
    BY <2>1, Zenon DEF Pushed
  <2> HIDE DEF env
  <2>3. p.env = env
    BY <2>2
  <2> QED
    BY <2>1, <2>3 DEF env
<1>3. CASE class.root.kind # "Arg"
  <2>1. class \in ReboundClass(class, bindings)
    BY <1>3 DEF ReboundClass
  <2>2. From(frame, class) = From(next, class)
    BY <1>3
  <2>3. Address(frame, class) = Address(next, class)
    BY <1>1, <2>2, Zenon
  <2> QED
    BY <2>1, <2>3
<1>4. CASE class.root.kind = "Arg"
  <2> DEFINE i == class.root.index
             b == bindings[i]
             proj == Spliced(b.proj, class.proj)
             other == [root |-> b.root, proj |-> proj]
             base == From(frame, b)
  <2>1. Address(next, class).root = From(next, class).root
    BY <1>1
  <2>2. From(next, class) = Get(next.env, i, NoAddress)
    BY <1>4
  <2>3. Get(next.env, i, NoAddress) # NoAddress
    <3>1. NoAddress.root = NoRoot
      BY DEF NoAddress
    <3> QED
      BY <2>1, <2>2, <3>1
  <2>4. i \in DOMAIN next.env /\ next.env[i] # NoAddress
    BY <2>3 DEF Get
  <2>5. i \in DOMAIN bindings /\ next.env[i] = Address(frame, b)
    BY <1>2, <2>4
  <2>6. From(next, class) = Address(frame, b)
    BY <2>2, <2>4, <2>5 DEF Get
  <2>7. other \in ReboundClass(class, bindings)
    BY <1>4, <2>5 DEF ReboundClass
  <2>8. b.proj \in Seq(STRING)
    BY <2>5 DEF BoundNames
  <2>9. other.root = b.root /\ other.proj = proj
    OBVIOUS
  <2>10. From(frame, other) = base
    BY <2>9
  <2> HIDE DEF From, base, other, b, proj
  <2>11. Address(frame, other) = [root |-> base.root, fields |-> Extended(base.fields, proj)]
    BY <1>1, <2>9, <2>10, Zenon
  <2>12. Address(frame, b).root = base.root
         /\ Address(frame, b).fields = Extended(base.fields, b.proj)
    BY <1>1 DEF base
  <2>13. Address(next, class)
           = [root |-> base.root, fields |-> Extended(Extended(base.fields, b.proj), class.proj)]
    BY <1>1, <2>6, <2>12, Zenon
  <2>14. Extended(base.fields, proj) = Extended(Extended(base.fields, b.proj), class.proj)
    BY <2>8, SplicedReads DEF proj
  <2> QED
    BY <2>7, <2>11, <2>13, <2>14
<1> QED
  BY <1>3, <1>4

\* What a frame's callee acquires is summarised at the frame's callsite, under the name the
\* frame gives it.
SameKind(other, lock) ==
    <<other.primitive, other.acquire, other.behavior>> =
       <<lock.primitive, lock.acquire, lock.behavior>>
LEMMA RenamedAtSite ==
    ASSUME Standing, SummaryInv, phase = "done",
           NEW frame, Tracked(frame), NEW next, Entered(frame, next),
           NEW lock \in summaries[next.fn], Address(next, lock.class).root # NoRoot
    PROVE  \E site \in Sites(analyses, frame.fn) :
              /\ site.held = Held(Here(frame)) /\ site.irq = Here(frame).irq
              /\ \E other \in SummaryLocks(analyses, frame.fn, site, summaries) :
                    /\ Address(frame, other.class) = Address(next, lock.class)
                    /\ SameKind(other, lock)
<1> DEFINE f == frame.fn
           g == next.fn
<1>1. PICK t \in CalledTarget(crate[f], TermOf(frame).func) : g \in Denotes(frame, t)
  BY DEF Entered
<1>2. g \in Fns /\ TermOf(frame).kind = "call" /\ f \in Fns
  BY DEF Entered, Tracked
<1>3. PICK site \in Sites(analyses, f) :
         IsSite(site, frame, t) /\ g \in Callees(analyses, f, site)
  BY <1>1, <1>2, SiteOfCall DEF Standing
<1>4. /\ site.bindings = ArgBindings(crate[f], Here(frame), TermOf(frame).args)
      /\ site.held = Held(Here(frame)) /\ site.irq = Here(frame).irq
  BY <1>3 DEF IsSite
<1>5. BoundNames(site.bindings)
  BY <1>2, <1>3 DEF SummaryInv, FactsNamed, Sites
<1>6. IsLock(lock)
  BY <1>2 DEF SummaryInv, IsSummary, LocksKnown
<1>7. PICK class \in ReboundClass(lock.class, site.bindings) :
         Address(frame, class) = Address(next, lock.class)
  BY <1>4, <1>5, <1>6, AddressThrough DEF IsLock
<1> DEFINE other == [lock EXCEPT !.class = class]
<1>8. other \in Rebound(lock, site.bindings)
  BY DEF Rebound
<1>9. other.class = class /\ SameKind(other, lock)
  BY <1>6 DEF IsLock, LockFields, SameKind
<1> HIDE DEF other
<1>10. other \in SummaryLocks(analyses, f, site, summaries)
  BY <1>2, <1>3, <1>8 DEF SummaryLocks
<1> QED
  BY <1>3, <1>4, <1>7, <1>9, <1>10

\* The lock as a function's summary knows it.
Summarised(frame, lock, address) ==
    \E other \in summaries[frame.fn] :
       Address(frame, other.class) = address /\ SameKind(other, lock)

\* A frame that holds nothing passes on what its callee's summary knows.
LEMMA SummarisedBelow ==
    ASSUME Standing, ReportStands, SummaryInv, phase = "done",
           NEW frame, Tracked(frame), NEW next, Entered(frame, next), Held(Here(frame)) = {},
           NEW lock, NEW address, address.root # NoRoot, Summarised(next, lock, address)
    PROVE  Summarised(frame, lock, address)
<1> DEFINE f == frame.fn
<1>1. PICK known \in summaries[next.fn] :
         Address(next, known.class) = address /\ SameKind(known, lock)
  BY DEF Summarised
<1>2. PICK site \in Sites(analyses, f) :
         /\ site.held = Held(Here(frame))
         /\ \E other \in SummaryLocks(analyses, f, site, summaries) :
               Address(frame, other.class) = Address(next, known.class) /\ SameKind(other, known)
  BY <1>1, RenamedAtSite
<1>3. PICK other \in SummaryLocks(analyses, f, site, summaries) :
         Address(frame, other.class) = address /\ SameKind(other, known)
  BY <1>1, <1>2
<1>4. f \in Fns
  BY DEF Tracked
<1>5. site \in Sites(analyses, f) \cap HoldsNothing(analyses)
  BY <1>2, <1>4 DEF HoldsNothing, AllSites
<1>6. \A h \in Fns : FactsShaped(analyses[h]) /\ FactsNamed(analyses[h])
  BY DEF SummaryInv, Standing, FoundInv
<1>7. IsSummary(summaries) /\ Round(analyses, summaries, HoldsNothing(analyses)) = summaries
  BY DEF SummaryInv, ReportStands
<1>8. SummaryLocks(analyses, f, site, summaries) \subseteq summaries[f]
  BY <1>4, <1>5, <1>6, <1>7, RoundAddsNothing
<1> QED
  BY <1>1, <1>3, <1>8 DEF Summarised, SameKind

\* What stands when an execution goes on.
Executing ==
    /\ Standing /\ ReportStands /\ SummaryInv /\ phase = "done"
    /\ StackInv /\ stack # <<>>

\* What the innermost frame acquires.
LEMMA AcquiredByTop ==
    ASSUME Executing, NEW lock \in Acquired
    PROVE  /\ Tracked(Top) /\ Top = stack[Len(stack)] /\ Len(stack) \in Nat \ {0}
           /\ Address(Top, lock.class).root # NoRoot
           /\ Reported(analyses[Top.fn], Here(Top), lock)
<1>1. Len(stack) \in Nat \ {0} /\ Tracked(Top) /\ Top = stack[Len(stack)]
  BY LenProperties, EmptySeq DEF Executing, StackInv, Top, Last
<1>2. PICK e : /\ e = CallEffect(crate[Top.fn], Here(Top), TermOf(Top), returns)
               /\ e.kind = "Acquire" /\ Address(Top, e.lock.class).root # NoRoot /\ e.lock = lock
  BY DEF Acquired, Executing
<1>3. Reported(analyses[Top.fn], Here(Top), e.lock)
  BY <1>1, <1>2, FrameAcquires DEF Executing, Standing
<1> QED
  BY <1>1, <1>2, <1>3

\* The frames that hold nothing above one that may see it know it by their summaries.
LEMMA SummarisedAbove ==
    ASSUME Executing, NEW lock \in Acquired, NEW k \in Seeing, k # Len(stack)
    PROVE  /\ k \in 1 .. Len(stack) - 1
           /\ Summarised(stack[k + 1], lock, Address(Top, lock.class))
<1> DEFINE n == Len(stack)
           address == Address(Top, lock.class)
<1>1. /\ Tracked(Top) /\ Top = stack[n] /\ n \in Nat \ {0}
      /\ address.root # NoRoot /\ Reported(analyses[Top.fn], Here(Top), lock)
  BY AcquiredByTop
<1>2. k \in 1 .. n - 1 /\ \A j \in k + 1 .. n : Held(Here(stack[j])) = {}
  <2>1. k \in DOMAIN stack /\ \A j \in k + 1 .. n : Held(Here(stack[j])) = {}
    BY DEF Seeing
  <2>2. DOMAIN stack = 1 .. n
    BY LenProperties DEF Executing, StackInv
  <2> HIDE DEF n
  <2>3. k \in 1 .. n /\ n \in Nat /\ k # n
    BY <1>1, <2>1, <2>2 DEF n
  <2>4. k \in 1 .. n - 1
    BY <2>3
  <2> QED
    BY <2>1, <2>4
<1>3. /\ \A j \in 1 .. n : Tracked(stack[j])
      /\ \A j \in 1 .. n - 1 : Entered(stack[j], stack[j + 1])
  BY DEF Executing, StackInv
<1>4. Summarised(Top, lock, address)
  <2>1. Held(Here(Top)) = {}
    BY <1>1, <1>2
  <2>2. lock \in analyses[Top.fn].entry_locks
    BY <1>1, <2>1 DEF Reported
  <2>3. lock \in summaries[Top.fn]
    BY <1>1, <2>2 DEF Executing, SummaryInv, Tracked
  <2> QED
    BY <2>3 DEF Summarised, SameKind
<1> HIDE DEF n, address
<1> DEFINE last == n - (k + 1)
           T == {m \in 0 .. last : Summarised(stack[n - m], lock, address)}
<1>5. last \in Nat /\ n - last = k + 1
  BY <1>1, <1>2
<1>6. 0 \in T
  <2>1. n - 0 = n
    BY <1>1
  <2> QED
    BY <1>1, <1>4, <1>5, <2>1
<1>7. ASSUME NEW m \in 0 .. last, m < last, m \in T PROVE m + 1 \in T
  <2> DEFINE j == n - (m + 1)
  <2>1. /\ j \in k + 1 .. n /\ j \in 1 .. n - 1 /\ j \in 1 .. n /\ j + 1 = n - m
        /\ m + 1 \in 0 .. last
    <3> HIDE DEF T
    <3>1. n \in Nat \ {0} /\ k \in 1 .. n - 1 /\ m \in 0 .. last /\ m < last
      BY <1>1, <1>2, <1>7
    <3> QED
      BY <3>1
  <2>2. Summarised(stack[j + 1], lock, address)
    BY <1>7, <2>1
  <2> HIDE DEF T, j, last
  <2>3. Tracked(stack[j]) /\ Entered(stack[j], stack[j + 1]) /\ Held(Here(stack[j])) = {}
    BY <1>2, <1>3, <2>1 DEF n
  <2>4. Summarised(stack[j], lock, address)
    BY <1>1, <2>2, <2>3, SummarisedBelow DEF Executing
  <2> QED
    BY <2>1, <2>4 DEF T, j
<1> HIDE DEF T
<1>8. last \in T
  <2> HIDE DEF last
  <2>1. 0 \in Nat /\ 0 <= last
    BY <1>5
  <2> QED
    BY <1>5, <1>6, <1>7, <2>1, Reading!StepsFrom
<1>9. Summarised(stack[k + 1], lock, address)
  BY <1>5, <1>8 DEF T
<1> QED
  BY <1>2, <1>9 DEF n, address

\* The frame that sees it finds it at its callsite.
LEMMA SeenAtSite ==
    ASSUME Executing, NEW lock \in Acquired, NEW k \in Seeing, k # Len(stack)
    PROVE  /\ stack[k].fn \in Fns
           /\ \E site \in Sites(analyses, stack[k].fn) :
                /\ site.held = Held(Here(stack[k])) /\ site.irq = Here(stack[k]).irq
                /\ \E other \in SummaryLocks(analyses, stack[k].fn, site, summaries) :
                      SameLock(stack[k], other, lock)
<1>1. /\ k \in 1 .. Len(stack) - 1
      /\ Summarised(stack[k + 1], lock, Address(Top, lock.class))
  BY SummarisedAbove
<1>2. Len(stack) \in Nat \ {0} /\ Address(Top, lock.class).root # NoRoot
  BY AcquiredByTop
<1> DEFINE frame == stack[k]
           next == stack[k + 1]
<1>3. Tracked(frame) /\ Entered(frame, next)
  BY <1>1, <1>2 DEF Executing, StackInv
<1>4. PICK known \in summaries[next.fn] :
         Address(next, known.class) = Address(Top, lock.class) /\ SameKind(known, lock)
  BY <1>1 DEF Summarised
<1> HIDE DEF frame, next
<1>5. PICK site \in Sites(analyses, frame.fn) :
         /\ site.held = Held(Here(frame)) /\ site.irq = Here(frame).irq
         /\ \E other \in SummaryLocks(analyses, frame.fn, site, summaries) :
               Address(frame, other.class) = Address(next, known.class) /\ SameKind(other, known)
  BY <1>2, <1>3, <1>4, RenamedAtSite DEF Executing
<1>6. \A other : /\ Address(frame, other.class) = Address(next, known.class)
                 /\ SameKind(other, known)
                 => SameLock(frame, other, lock)
  BY <1>4 DEF SameLock, SameKind
<1>7. frame.fn \in Fns
  BY <1>3 DEF Tracked
<1> QED
  BY <1>5, <1>6, <1>7 DEF frame

LEMMA OrdersReported == ASSUME Executing PROVE EveryOrderReported
<1> SUFFICES ASSUME NEW lock \in Acquired, NEW k \in Seeing, NEW held \in Held(Here(stack[k])),
                    DeadlockRelevant(held, lock)
             PROVE  \E edge \in functions[stack[k].fn].edges :
                       edge.from = held /\ SameLock(stack[k], edge.to, lock)
  BY DEF EveryOrderReported
<1> DEFINE f == stack[k].fn
<1>1. /\ Tracked(Top) /\ Top = stack[Len(stack)] /\ Reported(analyses[Top.fn], Here(Top), lock)
  BY AcquiredByTop
<1>2. f \in Fns => functions[f].edges = Orders(analyses, summaries, f)
  <2>1. f \in Fns => functions[f] = Finalized(analyses, summaries, f)
    BY DEF Executing, ReportStands
  <2>2. Finalized(analyses, summaries, f).edges = Orders(analyses, summaries, f)
    BY DEF Finalized
  <2> QED
    BY <2>1, <2>2
<1>3. CASE k = Len(stack)
  <2>1. f \in Fns /\ stack[k] = Top
    BY <1>1, <1>3 DEF Tracked
  <2>2. PICK edge \in analyses[f].edges : edge.from = held /\ edge.to = lock
    BY <1>1, <2>1 DEF Reported
  <2>3. edge \in Orders(analyses, summaries, f)
    BY Zenon DEF Orders
  <2>4. SameLock(stack[k], edge.to, lock)
    BY <2>1, <2>2 DEF SameLock
  <2> QED
    BY <1>2, <2>1, <2>2, <2>3, <2>4
<1>4. CASE k # Len(stack)
  <2>1. f \in Fns
    BY <1>4, SeenAtSite
  <2>2. PICK site \in Sites(analyses, f) :
           /\ site.held = Held(Here(stack[k]))
           /\ \E other \in SummaryLocks(analyses, f, site, summaries) :
                 SameLock(stack[k], other, lock)
    BY <1>4, SeenAtSite
  <2>3. PICK other \in SummaryLocks(analyses, f, site, summaries) : SameLock(stack[k], other, lock)
    BY <2>2
  <2>4. DeadlockRelevant(held, other)
    BY <2>3 DEF SameLock, DeadlockRelevant, SharedRead
  <2> DEFINE new(s) == {[context |-> s.context, from |-> pair[1], to |-> pair[2],
                         location |-> s.location] :
                          pair \in {p \in s.held \X SummaryLocks(analyses, f, s, summaries) :
                                       DeadlockRelevant(p[1], p[2])}}
             edge == [context |-> site.context, from |-> held, to |-> other,
                      location |-> site.location]
  <2>5. edge \in new(site)
    <3> DEFINE pair == <<held, other>>
    <3>1. /\ pair \in site.held \X SummaryLocks(analyses, f, site, summaries)
          /\ pair[1] = held /\ pair[2] = other
      BY <2>2, <2>3
    <3> HIDE DEF pair
    <3>2. pair \in {p \in site.held \X SummaryLocks(analyses, f, site, summaries) :
                       DeadlockRelevant(p[1], p[2])}
      BY <2>4, <3>1
    <3> QED
      BY <3>1, <3>2
  <2>6. Orders(analyses, summaries, f)
          = analyses[f].edges \cup UNION {new(s) : s \in Sites(analyses, f)}
    BY Zenon DEF Orders
  <2>7. edge.from = held /\ edge.to = other
    OBVIOUS
  <2> HIDE DEF edge, new
  <2>8. edge \in Orders(analyses, summaries, f)
    BY <2>5, <2>6
  <2> QED
    BY <1>2, <2>1, <2>3, <2>7, <2>8
<1> QED
  BY <1>3, <1>4

\* The loops and the frames, and the summaries the report is made with.
ReportInv == CallsInv /\ SummaryInv

LEMMA ReportStep == ASSUME ReportInv, [Next]_vars PROVE ReportInv'
BY CallsStep, SummaryStep DEF ReportInv, CallsInv

LEMMA ReportExecuting == ASSUME ReportInv, stack # <<>> PROVE Executing
BY DEF ReportInv, CallsInv, Executing, Standing, StackInv, FixpointInv, LoopsStand, PropagateInv

\* However many calls and callbacks lie between, when an execution of any crate acquires a
\* lock while a caller holds another, and those between hold none, the caller reports the
\* order of the two: the summaries hide no lock behind a call, and renaming a class from
\* callee to caller loses nothing of what it is the address of.
THEOREM OrdersOfExecutions ==
    ASSUME CallbacksPassedDirectly
    PROVE  Spec => []EveryOrderReported
<1>1. ReportInv => EveryOrderReported
  <2> SUFFICES ASSUME ReportInv PROVE EveryOrderReported
    OBVIOUS
  <2>1. CASE stack = <<>>
    <3>1. Acquired = {}
      BY <2>1 DEF Acquired
    <3> QED
      BY <3>1 DEF EveryOrderReported
  <2>2. CASE stack # <<>>
    BY <2>2, ReportExecuting, OrdersReported
  <2> QED
    BY <2>1, <2>2
<1>2. Init => ReportInv
  BY InitCalls, InitSummary DEF ReportInv
<1>3. ReportInv /\ [Next]_vars => ReportInv'
  BY ReportStep
<1> QED
  BY <1>1, <1>2, <1>3, PTL DEF Spec

-----------------------------------------------------------------------------
(* The uses that a function reports of what it calls. *)

UseStep(env, acc, lock) == RecordUsage(acc, lock, ForAcquire(env.irq, lock), env.location)
Using == INSTANCE FoldInduction WITH Op <- UseStep, P <- Anything

\* A use that a collection has.
Used(usage, lock, irq) ==
    lock \in DOMAIN usage /\ UsageBits(ForAcquire(irq, lock)) \subseteq DOMAIN usage[lock]

LEMMA UsedKept ==
    ASSUME NEW u, NEW v, UsageKept(u, v)
    PROVE  /\ \A lock, irq : Used(u, lock, irq) => Used(v, lock, irq)
           /\ \A t : UsageKept(t, u) => UsageKept(t, v)
BY DEF UsageKept, Used

\* The uses at one callsite.
LEMMA SiteUses ==
    ASSUME NEW usage, NEW site, NEW S, IsFiniteSet(S),
           NEW next, next = SiteUsages(usage, site, S)
    PROVE  UsageKept(usage, next) /\ \A lock \in S : Used(next, lock, site.irq)
<1> DEFINE q == SetToSeq(S)
           n == Len(q)
<1>1. q \in Seq(S) /\ \A lock \in S : \E k \in 1 .. n : q[k] = lock
  BY FiniteAsSequence
<1>2. next = Using!Loop(site, usage, q)
  BY DEF SiteUsages, UseStep, FoldLeft, MapThenFoldSet, Max,
         Using!Loop, Using!FoldLeft, Using!MapThenFoldSet, Using!Max
<1> HIDE DEF q
<1>3. PICK tr : Using!IsTrace(site, usage, q, tr)
  BY <1>1, Using!FoldLeftTrace, Zenon
<1>4. /\ tr[0] = usage /\ tr[n] = next
      /\ \A i \in 1 .. n : tr[i] = UseStep(site, tr[i - 1], q[i])
  BY <1>3, <1>2 DEF Using!IsTrace
<1>5. n \in Nat
  BY <1>1, LenProperties
<1> HIDE DEF n
<1>6. \A i \in 1 .. n : UsageKept(tr[i - 1], tr[i]) /\ Used(tr[i], q[i], site.irq)
  BY <1>4, Recorded DEF UseStep, Used
<1>7. ASSUME NEW k \in 0 .. n PROVE UsageKept(tr[k], next)
  <2> DEFINE T == {m \in k .. n : UsageKept(tr[k], tr[m])}
  <2>1. k \in T
    BY <1>5 DEF UsageKept
  <2>2. ASSUME NEW m \in k .. n, m < n, m \in T PROVE m + 1 \in T
    <3>1. m + 1 \in 1 .. n /\ (m + 1) - 1 = m /\ m + 1 \in k .. n
      BY <1>5, <2>2
    <3>2. UsageKept(tr[m], tr[m + 1])
      BY <1>6, <3>1
    <3> QED
      BY <2>2, <3>1, <3>2, UsedKept
  <2> HIDE DEF T
  <2>3. n \in T
    BY <1>5, <2>1, <2>2, Using!StepsFrom
  <2> QED
    BY <1>4, <2>3 DEF T
<1>8. UsageKept(usage, next)
  BY <1>4, <1>5, <1>7
<1>9. ASSUME NEW lock \in S PROVE Used(next, lock, site.irq)
  <2>1. PICK k \in 1 .. n : q[k] = lock
    BY <1>1 DEF n
  <2>2. UsageKept(tr[k], next) /\ Used(tr[k], lock, site.irq)
    BY <1>5, <1>6, <1>7, <2>1
  <2> QED
    BY <2>2, UsedKept
<1> QED
  BY <1>8, <1>9

SiteStep(env, acc, site) ==
    SiteUsages(acc, site, SummaryLocks(env.results, env.f, site, env.entries))
Finding == INSTANCE FoldInduction WITH Op <- SiteStep, P <- Anything

\* A function reports its own uses, and those of the locks that it finds at its callsites.
LEMMA UsagesReport ==
    ASSUME NEW results, NEW f \in Fns, FactsShaped(results[f]), FactsNamed(results[f]),
           NEW entries, IsSummary(entries), AllFinite(entries)
    PROVE  /\ UsageKept(results[f].usage, Usages(results, entries, f))
           /\ \A site \in Sites(results, f) :
                 \A lock \in SummaryLocks(results, f, site, entries) :
                    Used(Usages(results, entries, f), lock, site.irq)
<1> DEFINE env == [results |-> results, entries |-> entries, f |-> f]
           q == results[f].callsites
           n == Len(q)
           S(site) == SummaryLocks(results, f, site, entries)
           u == Usages(results, entries, f)
<1>1. q \in Seq(ToSet(q)) /\ Sites(results, f) = ToSet(q)
  BY DEF FactsShaped, Sites
<1>2. n \in Nat /\ DOMAIN q = 1 .. n
  BY <1>1, LenProperties
<1>3. env.results = results /\ env.entries = entries /\ env.f = f
  OBVIOUS
<1>4. u = Finding!Loop(env, results[f].usage, q)
  BY <1>3 DEF Usages, SiteStep, FoldLeft, MapThenFoldSet, Max,
              Finding!Loop, Finding!FoldLeft, Finding!MapThenFoldSet, Finding!Max
<1> HIDE DEF env, q, u
<1>5. PICK tr : Finding!IsTrace(env, results[f].usage, q, tr)
  BY <1>1, Finding!FoldLeftTrace, Zenon
<1>6. /\ tr[0] = results[f].usage /\ tr[n] = u
      /\ \A i \in 1 .. n : tr[i] = SiteStep(env, tr[i - 1], q[i])
  BY <1>4, <1>5 DEF Finding!IsTrace
<1>7. ASSUME NEW i \in 1 .. n
      PROVE  /\ UsageKept(tr[i - 1], tr[i])
             /\ \A lock \in S(q[i]) : Used(tr[i], lock, q[i].irq)
  <2>1. q[i] \in Sites(results, f)
    BY <1>1, <1>2 DEF ToSet
  <2>2. IsFiniteSet(S(q[i]))
    BY <2>1, FoundAreLocks
  <2>3. tr[i] = SiteUsages(tr[i - 1], q[i], S(q[i]))
    BY <1>3, <1>6, Zenon DEF SiteStep
  <2> HIDE DEF S, n
  <2> QED
    BY <2>2, <2>3, SiteUses
<1> HIDE DEF S, n
<1>8. ASSUME NEW k \in 0 .. n PROVE UsageKept(tr[k], u)
  <2> DEFINE T == {m \in k .. n : UsageKept(tr[k], tr[m])}
  <2>1. k \in T
    BY <1>2 DEF UsageKept
  <2>2. ASSUME NEW m \in k .. n, m < n, m \in T PROVE m + 1 \in T
    <3>1. m + 1 \in 1 .. n /\ (m + 1) - 1 = m /\ m + 1 \in k .. n
      BY <1>2, <2>2
    <3>2. UsageKept(tr[m], tr[m + 1])
      BY <1>7, <3>1
    <3> QED
      BY <2>2, <3>1, <3>2, UsedKept
  <2> HIDE DEF T
  <2>3. n \in T
    BY <1>2, <2>1, <2>2, Using!StepsFrom
  <2> QED
    BY <1>6, <2>3 DEF T
<1>9. UsageKept(results[f].usage, u)
  BY <1>2, <1>6, <1>8
<1>10. ASSUME NEW site \in Sites(results, f), NEW lock \in S(site)
       PROVE  Used(u, lock, site.irq)
  <2>1. PICK k \in 1 .. n : q[k] = site
    BY <1>1, <1>2 DEF ToSet
  <2>2. UsageKept(tr[k], u) /\ Used(tr[k], lock, site.irq)
    BY <1>2, <1>7, <1>8, <2>1
  <2> QED
    BY <2>2, UsedKept
<1> QED
  BY <1>9, <1>10 DEF S, u

-----------------------------------------------------------------------------
(* The interrupt state under the calls of an execution. *)

Contexts == {"Task", "TaskIrqDisabled", "BottomHalfL1", "BottomHalfL1IrqDisabled",
             "BottomHalfL2", "HardIrqTopHalf"}

\* What a use tells apart.
SameIrq(a, b) ==
    /\ a.hard = b.hard /\ a.soft = b.soft
    /\ a.hard_depth = b.hard_depth /\ a.soft_depth = b.soft_depth

LEMMA SameUses ==
    ASSUME NEW a, NEW b, DOMAIN a = IrqFields, DOMAIN b = IrqFields, SameIrq(a, b),
           NEW lock, NEW other, SameKind(other, lock)
    PROVE  UsageBits(ForAcquire(a, lock)) = UsageBits(ForAcquire(b, other))
<1>1. DisablesIrq(other) = DisablesIrq(lock)
  BY DEF SameKind, DisablesIrq
<1> DEFINE x == ForAcquire(a, lock)
           y == ForAcquire(b, other)
<1>2. SameIrq(x, y)
  BY <1>1 DEF ForAcquire, SameIrq, IrqFields
<1> HIDE DEF x, y
<1>3. UsageBits(x) = UsageBits(y)
  BY <1>2 DEF SameIrq, UsageBits
<1> QED
  BY <1>3 DEF x, y

\* The interrupt state that a context starts with, and the context that a state is in.
StartsAs(c, base, hard, soft, hard_depth, soft_depth) ==
    LET irq == FromContext(c)
    IN  /\ irq.base = base /\ irq.base_hard = hard /\ irq.base_soft = soft
        /\ irq.hard_depth = hard_depth /\ irq.soft_depth = soft_depth
LEMMA OfContexts ==
    /\ StartsAs("Task", "Task", TRUE, TRUE, 0, 0)
    /\ StartsAs("TaskIrqDisabled", "Task", FALSE, FALSE, 0, 0)
    /\ StartsAs("BottomHalfL1", "BottomHalfL1", TRUE, FALSE, 0, 1)
    /\ StartsAs("BottomHalfL1IrqDisabled", "BottomHalfL1", FALSE, FALSE, 0, 1)
    /\ StartsAs("BottomHalfL2", "BottomHalfL2", FALSE, FALSE, 2, 0)
    /\ StartsAs("HardIrqTopHalf", "HardIrqTopHalf", FALSE, FALSE, 1, 0)
<1>1. \A c : c # "TaskIrqDisabled" /\ c # "BottomHalfL1IrqDisabled" => FromContext(c).base = c
  BY DEF FromContext
<1>2. FromContext("TaskIrqDisabled").base = "Task"
  BY DEF FromContext
<1>3. FromContext("BottomHalfL1IrqDisabled").base = "BottomHalfL1"
  <2>1. "BottomHalfL1IrqDisabled" # "TaskIrqDisabled"
    OBVIOUS
  <2> QED
    BY <2>1 DEF FromContext
<1>4. \A c : /\ c \in {"Task", "BottomHalfL1"} => FromContext(c).base_hard = TRUE
             /\ c \notin {"Task", "BottomHalfL1"} => FromContext(c).base_hard = FALSE
             /\ c = "Task" => FromContext(c).base_soft = TRUE
             /\ c # "Task" => FromContext(c).base_soft = FALSE
             /\ FromContext(c).soft_depth = IF FromContext(c).base = "BottomHalfL1" THEN 1 ELSE 0
  <2>1. \A c : /\ FromContext(c).base_hard = (c \in {"Task", "BottomHalfL1"})
               /\ FromContext(c).base_soft = (c = "Task")
               /\ FromContext(c).soft_depth
                     = IF FromContext(c).base = "BottomHalfL1" THEN 1 ELSE 0
    BY DEF FromContext
  <2>2. ASSUME NEW c PROVE /\ c \in {"Task", "BottomHalfL1"} => FromContext(c).base_hard = TRUE
                          /\ c \notin {"Task", "BottomHalfL1"} => FromContext(c).base_hard = FALSE
    <3> DEFINE on == c \in {"Task", "BottomHalfL1"}
    <3>1. FromContext(c).base_hard = on
      BY <2>1
    <3>2. on \in BOOLEAN
      OBVIOUS
    <3> HIDE DEF on
    <3>3. (on => FromContext(c).base_hard = TRUE) /\ (~on => FromContext(c).base_hard = FALSE)
      BY <3>1, <3>2
    <3> QED
      BY <3>3 DEF on
  <2>3. ASSUME NEW c PROVE /\ c = "Task" => FromContext(c).base_soft = TRUE
                          /\ c # "Task" => FromContext(c).base_soft = FALSE
    <3> DEFINE on == c = "Task"
    <3>1. FromContext(c).base_soft = on
      BY <2>1
    <3>2. on \in BOOLEAN
      OBVIOUS
    <3> HIDE DEF on
    <3>3. (on => FromContext(c).base_soft = TRUE) /\ (~on => FromContext(c).base_soft = FALSE)
      BY <3>1, <3>2
    <3> QED
      BY <3>3 DEF on
  <2> QED
    BY <2>1, <2>2, <2>3
<1>5. \A c : c # "HardIrqTopHalf" /\ c # "BottomHalfL2" => FromContext(c).hard_depth = 0
  BY DEF FromContext
<1>6. FromContext("HardIrqTopHalf").hard_depth = 1
  BY DEF FromContext
<1>7. FromContext("BottomHalfL2").hard_depth = 2
  <2>1. "BottomHalfL2" # "HardIrqTopHalf"
    OBVIOUS
  <2> QED
    BY <2>1 DEF FromContext
<1> QED
  BY <1>1, <1>2, <1>3, <1>4, <1>5, <1>6, <1>7 DEF StartsAs

LEMMA CurrentOf ==
    ASSUME NEW irq
    PROVE  /\ ~irq.hard /\ irq.base = "Task" => CurrentContext(irq) = "TaskIrqDisabled"
           /\ ~irq.hard /\ irq.base = "BottomHalfL1" =>
                 CurrentContext(irq) = "BottomHalfL1IrqDisabled"
           /\ irq.hard \/ irq.base \notin {"Task", "BottomHalfL1"} =>
                 CurrentContext(irq) = irq.base
<1>1. CASE ~irq.hard /\ irq.base = "Task"
  <2>1. irq.base # "BottomHalfL1"
    BY <1>1
  <2> QED
    BY <1>1, <2>1 DEF CurrentContext
<1>2. CASE ~irq.hard /\ irq.base = "BottomHalfL1"
  <2>1. irq.base # "Task"
    BY <1>2
  <2> QED
    BY <1>2, <2>1 DEF CurrentContext
<1>3. CASE irq.hard \/ irq.base \notin {"Task", "BottomHalfL1"}
  <2>1. ~(~irq.hard /\ irq.base = "Task") /\ ~(~irq.hard /\ irq.base = "BottomHalfL1")
    BY <1>3
  <2> QED
    BY <1>3, <2>1 DEF CurrentContext
<1> QED
  BY <1>1, <1>2, <1>3

\* A callee starts with the interrupt state that its callsite has, whatever turned
\* interrupts off there.
LEMMA ContextPassedOn ==
    ASSUME NEW s, NEW c \in Contexts, NEW given, Good(s, c, given)
    PROVE  LET now == FromContext(CurrentContext(s.irq))
           IN  /\ CurrentContext(s.irq) \in Contexts
               /\ now.base_hard = s.irq.hard /\ now.base_soft = s.irq.soft
               /\ now.hard_depth = s.irq.hard_depth /\ now.soft_depth = s.irq.soft_depth
<1> DEFINE m == Masked(s)
           d == CurrentContext(s.irq)
<1>1. /\ s.irq.base = FromContext(c).base
      /\ s.irq.hard = (FromContext(c).base_hard /\ ~m)
      /\ s.irq.soft = (FromContext(c).base_soft /\ ~m)
      /\ s.irq.hard_depth = FromContext(c).hard_depth
      /\ s.irq.soft_depth = FromContext(c).soft_depth
  BY Zenon DEF Good, Stale, FromBase
<1> HIDE DEF m
<1>2. d \in Contexts /\ FromContext(d).base_hard = s.irq.hard
      /\ FromContext(d).base_soft = s.irq.soft
      /\ FromContext(d).hard_depth = s.irq.hard_depth
      /\ FromContext(d).soft_depth = s.irq.soft_depth
  <2>1. ASSUME NEW irq,
               irq.base = FromContext(c).base,
               irq.hard = (FromContext(c).base_hard /\ ~m),
               irq.soft = (FromContext(c).base_soft /\ ~m),
               irq.hard_depth = FromContext(c).hard_depth,
               irq.soft_depth = FromContext(c).soft_depth,
               NEW now, now = CurrentContext(irq)
        PROVE  /\ now \in Contexts /\ FromContext(now).base_hard = irq.hard
               /\ FromContext(now).base_soft = irq.soft
               /\ FromContext(now).hard_depth = irq.hard_depth
               /\ FromContext(now).soft_depth = irq.soft_depth
    <3>1. CASE c = "Task"
      <4>1. CASE m
        BY <2>1, <3>1, <4>1, OfContexts, CurrentOf DEF Contexts, StartsAs
      <4>2. CASE ~m
        BY <2>1, <3>1, <4>2, OfContexts, CurrentOf DEF Contexts, StartsAs
      <4> QED
        BY <4>1, <4>2
    <3>2. CASE c = "TaskIrqDisabled"
      BY <2>1, <3>2, OfContexts, CurrentOf DEF Contexts, StartsAs
    <3>3. CASE c = "BottomHalfL1"
      <4>1. CASE m
        <5>1. irq.base = "BottomHalfL1" /\ irq.hard = FALSE /\ irq.soft = FALSE
              /\ irq.hard_depth = 0 /\ irq.soft_depth = 1
          BY <2>1, <3>3, <4>1, OfContexts DEF StartsAs
        <5>2. now = "BottomHalfL1IrqDisabled"
          BY <2>1, <5>1, CurrentOf
        <5> QED
          BY <5>1, <5>2, OfContexts DEF Contexts, StartsAs
      <4>2. CASE ~m
        BY <2>1, <3>3, <4>2, OfContexts, CurrentOf DEF Contexts, StartsAs
      <4> QED
        BY <4>1, <4>2
    <3>4. CASE c = "BottomHalfL1IrqDisabled"
      BY <2>1, <3>4, OfContexts, CurrentOf DEF Contexts, StartsAs
    <3>5. CASE c = "BottomHalfL2"
      BY <2>1, <3>5, OfContexts, CurrentOf DEF Contexts, StartsAs
    <3>6. CASE c = "HardIrqTopHalf"
      BY <2>1, <3>6, OfContexts, CurrentOf DEF Contexts, StartsAs
    <3> QED
      BY <3>1, <3>2, <3>3, <3>4, <3>5, <3>6 DEF Contexts
  <2> QED
    BY <1>1, <2>1
<1> QED
  BY <1>2

\* And has it still while it holds nothing, when it is given no guard.
LEMMA IrqPassedOn ==
    ASSUME NEW s, NEW c \in Contexts, NEW given, Good(s, c, given),
           NEW next, Good(next, CurrentContext(s.irq), FALSE), Held(next) = {}
    PROVE  CurrentContext(s.irq) \in Contexts /\ SameIrq(next.irq, s.irq)
<1> DEFINE d == CurrentContext(s.irq)
<1>1. /\ d \in Contexts /\ FromContext(d).base_hard = s.irq.hard
      /\ FromContext(d).base_soft = s.irq.soft
      /\ FromContext(d).hard_depth = s.irq.hard_depth
      /\ FromContext(d).soft_depth = s.irq.soft_depth
  BY ContextPassedOn
<1>2. ~Masked(next)
  <2>1. next.irq_locals = {}
    BY DEF Good, Stale
  <2> QED
    BY <2>1 DEF Masked, Held
<1>3. /\ next.irq.hard = FromContext(d).base_hard /\ next.irq.soft = FromContext(d).base_soft
      /\ next.irq.hard_depth = FromContext(d).hard_depth
      /\ next.irq.soft_depth = FromContext(d).soft_depth
  <2>1. /\ next.irq.hard = (next.irq.base_hard /\ ~Masked(next))
        /\ next.irq.soft = (next.irq.base_soft /\ ~Masked(next))
        /\ FromBase(next, d)
    BY Zenon DEF Good, Stale
  <2>2. FromContext(d).base_hard \in BOOLEAN /\ FromContext(d).base_soft \in BOOLEAN
    <3> HIDE DEF d
    <3> QED
      BY DEF FromContext
  <2> HIDE DEF d
  <2> QED
    BY <1>2, <2>1, <2>2 DEF FromBase
<1> QED
  BY <1>1, <1>3 DEF SameIrq

\* The outermost frame is entered in the context of an entry, with no callable.
BottomInv ==
    stack # <<>> => stack[1].context \in Kinds /\ DOMAIN stack[1].callables = {}

LEMMA BottomStep ==
    ASSUME StackInv, BottomInv, [Next]_vars
    PROVE  BottomInv'
<1> USE DEF analysisVars
<1>1. CASE stack' = stack
  BY <1>1 DEF BottomInv
<1>2. CASE Enter
  <2>1. PICK p \in Entries :
           stack' = <<[fn |-> p[1], at |-> 1, context |-> p[2],
                       state |-> EntryState(crate[p[1]], p[2]),
                       env |-> [i \in 1 .. crate[p[1]].args |->
                                  [root |-> Root("Arg", p[1], i), fields |-> <<>>]],
                       callables |-> <<>>]>>
    BY <1>2 DEF Enter
  <2>2. p[2] \in Kinds
    BY EntryKinds DEF Entries
  <2>3. stack'[1].context = p[2] /\ stack'[1].callables = <<>>
    BY <2>1
  <2> QED
    BY <2>2, <2>3 DEF BottomInv
<1>3. CASE Call
  <2>1. PICK frame : stack # <<>> /\ stack' = Append(stack, frame)
    BY <1>3 DEF Call
  <2>2. 1 \in 1 .. Len(stack)
    BY <2>1, LenProperties, EmptySeq DEF StackInv
  <2>3. stack'[1] = stack[1]
    BY <2>1, <2>2, Appended DEF StackInv
  <2> QED
    BY <2>1, <2>3 DEF BottomInv
<1>4. CASE Advance
  <2> DEFINE n == Len(stack)
             next == Advanced(stack[n])
  <2>1. stack # <<>> /\ stack' = [stack EXCEPT ![n] = next]
    BY <1>4 DEF Advance, Top, Last
  <2>2. n \in 1 .. n /\ 1 \in 1 .. n /\ DOMAIN stack = 1 .. n
    BY <2>1, LenProperties, EmptySeq DEF StackInv
  <2>3. next.context = stack[n].context /\ next.callables = stack[n].callables
    <3>1. DOMAIN stack[n] = FrameFields
      BY <2>2 DEF StackInv, Tracked
    <3> QED
      BY <3>1 DEF Advanced, FrameFields
  <2> HIDE DEF next, n
  <2>4. stack'[1].context = stack[1].context /\ stack'[1].callables = stack[1].callables
    BY <2>1, <2>2, <2>3
  <2> QED
    BY <2>1, <2>4 DEF BottomInv
<1>5. CASE PropagateContexts \/ Analyze \/ SummarizeReturns \/ SummarizeEntries
  BY <1>1, <1>5 DEF PropagateContexts, Analyze, SummarizeReturns, GrowSummaries, AnalyzeAgain,
                    Reseed, Settle, SummarizeEntries, Finalize
<1>6. CASE Finished \/ UNCHANGED vars
  BY <1>1, <1>6 DEF Finished, vars
<1> QED
  BY <1>2, <1>3, <1>4, <1>5, <1>6 DEF Next

\* A function that is given no guard, and that calls and callbacks reach no other.
Plain(f) == ~crate[f].irq_guard_arg
GuardsInv ==
    \A f \in Fns : \A b \in DOMAIN crate[f].blocks : LET term == crate[f].blocks[b].term IN
       term.kind = "call" =>
          \A t \in CalledTarget(crate[f], term.func) : t.kind = "Direct" /\ t.fn \in Fns =>
             /\ Plain(t.fn)
             /\ \A i \in DOMAIN term.args : \A u \in CalledTarget(crate[f], term.args[i]) :
                   u.kind = "Direct" /\ u.fn \in Fns => Plain(u.fn)

LEMMA InitGuards == ASSUME Init, GuardsOnlyRegistered PROVE GuardsInv
<1>1. PICK c \in Crates : crate = [f \in Fns |-> Resolved(c[f])]
  BY DEF Init
<1>2. \A f \in Fns : crate[f] = Resolved(c[f]) /\ IsBody(c[f])
  BY <1>1, CratesAssumption
<1>3. \A f \in Fns : crate[f].irq_guard_arg = c[f].irq_guard_arg
  BY <1>2 DEF Resolved, With, IsBody
<1>4. \A f \in Fns : Plain(f) <=> ~c[f].irq_guard_arg
  BY <1>3 DEF Plain
<1> QED
  BY <1>2, <1>4 DEF GuardsOnlyRegistered, GuardsInv

\* What a frame is called in, and that what it is passed is given no guard.
Called(frame) ==
    /\ frame.context \in Contexts
    /\ \A i \in DOMAIN frame.callables : frame.callables[i] \in Fns => Plain(frame.callables[i])

LEMMA CalledPlain ==
    ASSUME GuardsInv, PassingInv, NEW frame, frame.fn \in Fns,
           frame.at \in DOMAIN crate[frame.fn].blocks, Called(frame),
           NEW next, Entered(frame, next)
    PROVE  /\ Plain(next.fn)
           /\ \A i \in DOMAIN next.callables : next.callables[i] \in Fns => Plain(next.callables[i])
<1> DEFINE fn == crate[frame.fn]
           term == TermOf(frame)
           Passed(i) == UNION {Denotes(frame, u) : u \in CalledTarget(fn, term.args[i])}
<1>1. PICK t \in CalledTarget(fn, term.func) : next.fn \in Denotes(frame, t)
  BY DEF Entered
<1>2. next.fn \in Fns /\ term.kind = "call" /\ term = fn.blocks[frame.at].term
  BY DEF Entered, TermOf
<1>3. \A i \in DOMAIN next.callables : i \in DOMAIN term.args /\ next.callables[i] \in Passed(i)
  <2>1. PICK p \in {Pushed(frame, next.fn, Here(frame), term)} : next.callables = p.callables
    BY DEF Entered
  <2> QED
    BY <2>1, PushedFields
<1>4. CASE t.kind = "Direct"
  <2>1. next.fn = t.fn
    BY <1>1, <1>4 DEF Denotes
  <2>2. /\ Plain(t.fn)
        /\ \A i \in DOMAIN term.args : \A u \in CalledTarget(fn, term.args[i]) :
              u.kind = "Direct" /\ u.fn \in Fns => Plain(u.fn)
    BY <1>1, <1>2, <1>4, <2>1, Zenon DEF GuardsInv
  <2>3. ASSUME NEW i \in DOMAIN next.callables, next.callables[i] \in Fns
        PROVE  Plain(next.callables[i])
    <3>1. PICK u \in CalledTarget(fn, term.args[i]) : next.callables[i] \in Denotes(frame, u)
      BY <1>3
    <3>2. CASE u.kind = "Direct"
      BY <1>3, <2>2, <2>3, <3>1, <3>2 DEF Denotes
    <3>3. CASE u.kind # "Direct"
      BY <2>3, <3>1, <3>3 DEF Denotes, Called
    <3> QED
      BY <3>2, <3>3
  <2> QED
    BY <2>1, <2>2, <2>3
<1>5. CASE t.kind # "Direct"
  <2>1. Plain(next.fn)
    BY <1>1, <1>2, <1>5 DEF Denotes, Called
  <2>2. \A i \in DOMAIN term.args : CalledTarget(fn, term.args[i]) = {}
    BY <1>1, <1>2, <1>5, Zenon DEF PassingInv
  <2>3. \A i \in DOMAIN next.callables : FALSE
    BY <1>3, <2>2
  <2> QED
    BY <2>1, <2>3
<1> QED
  BY <1>4, <1>5

LEMMA CalledNext ==
    ASSUME Standing, SummaryInv, PassingInv, GuardsInv,
           NEW frame, Tracked(frame), Called(frame), NEW next, Tracked(next), Entered(frame, next)
    PROVE  /\ Called(next)
           /\ Held(Here(next)) = {} => SameIrq(Here(next).irq, Here(frame).irq)
<1> DEFINE s == Here(frame)
           r == Here(next)
           given == crate[frame.fn].irq_guard_arg
<1>1. BodiesInv /\ LocksKnown(returns)
  BY DEF Standing, SummaryInv
<1>2. Good(s, frame.context, given) /\ Good(r, next.context, crate[next.fn].irq_guard_arg)
  BY <1>1, FrameIsGood
<1>3. next.context = CurrentContext(s.irq)
  <2>1. PICK p : p = Pushed(frame, next.fn, s, TermOf(frame)) /\ next.context = p.context
    BY DEF Entered
  <2> HIDE DEF s
  <2>2. p.context = CurrentContext(s.irq)
    BY <2>1, PushedFields
  <2> QED
    BY <2>1, <2>2
<1>4. /\ Plain(next.fn)
      /\ \A i \in DOMAIN next.callables : next.callables[i] \in Fns => Plain(next.callables[i])
  BY CalledPlain DEF Tracked
<1>5. frame.context \in Contexts
  BY DEF Called
<1> HIDE DEF s, r, given
<1>6. Called(next)
  BY <1>2, <1>3, <1>4, <1>5, ContextPassedOn DEF Called
<1>7. Good(r, next.context, FALSE)
  <2>1. ~crate[next.fn].irq_guard_arg
    BY <1>4 DEF Plain
  <2> QED
    BY <1>2, <2>1, Zenon DEF Good, Stale
<1>8. Held(r) = {} => SameIrq(r.irq, s.irq)
  BY <1>2, <1>3, <1>5, <1>7, IrqPassedOn
<1> QED
  BY <1>6, <1>8 DEF r, s

\* What stands when an execution goes on in which guards are given to entries only.
ExecutingPlain == Executing /\ PassingInv /\ GuardsInv /\ BottomInv

LEMMA CalledFrames ==
    ASSUME ExecutingPlain, NEW i \in 1 .. Len(stack) PROVE Called(stack[i])
<1> DEFINE T == {m \in 1 .. i : Called(stack[m])}
<1>1. Len(stack) \in Nat /\ i \in Nat /\ 1 <= i
  BY LenProperties DEF ExecutingPlain, Executing, StackInv
<1>2. 1 \in T
  <2>1. stack[1].context \in Kinds /\ DOMAIN stack[1].callables = {}
    BY DEF ExecutingPlain, Executing, BottomInv
  <2>2. Called(stack[1])
    BY <2>1 DEF Called, Kinds, Contexts
  <2> QED
    BY <1>1, <2>2
<1>3. ASSUME NEW m \in 1 .. i, m < i, m \in T PROVE m + 1 \in T
  <2>1. m \in 1 .. Len(stack) /\ m \in 1 .. Len(stack) - 1 /\ m + 1 \in 1 .. Len(stack)
        /\ m + 1 \in 1 .. i
    BY <1>1, <1>3
  <2>2. Tracked(stack[m]) /\ Tracked(stack[m + 1]) /\ Entered(stack[m], stack[m + 1])
    BY <2>1 DEF ExecutingPlain, Executing, StackInv
  <2>3. Called(stack[m])
    BY <1>3
  <2>4. Called(stack[m + 1])
    BY <2>2, <2>3, CalledNext DEF ExecutingPlain, Executing
  <2> QED
    BY <2>1, <2>4
<1> HIDE DEF T
<1>4. i \in T
  BY <1>1, <1>2, <1>3, Using!StepsFrom
<1> QED
  BY <1>4 DEF T

\* The interrupt state of the innermost frame is that of the frames that see it.
LEMMA SameAbove ==
    ASSUME ExecutingPlain, NEW k \in Seeing
    PROVE  SameIrq(Here(Top).irq, Here(stack[k]).irq)
<1> DEFINE n == Len(stack)
           T == {m \in k .. n : SameIrq(Here(stack[m]).irq, Here(stack[k]).irq)}
<1>1. n \in Nat /\ k \in 1 .. n /\ Top = stack[n]
  BY LenProperties DEF ExecutingPlain, Executing, StackInv, Seeing, Top, Last
<1>2. k \in T
  BY <1>1 DEF SameIrq
<1>3. ASSUME NEW m \in k .. n, m < n, m \in T PROVE m + 1 \in T
  <2>1. m \in 1 .. n /\ m \in 1 .. n - 1 /\ m + 1 \in 1 .. n /\ m + 1 \in k .. n
        /\ m + 1 \in k + 1 .. n
    BY <1>1, <1>3
  <2>2. Tracked(stack[m]) /\ Tracked(stack[m + 1]) /\ Entered(stack[m], stack[m + 1])
    BY <2>1 DEF ExecutingPlain, Executing, StackInv
  <2>3. Held(Here(stack[m + 1])) = {}
    BY <2>1 DEF Seeing
  <2>4. Called(stack[m])
    BY <2>1, CalledFrames
  <2>5. SameIrq(Here(stack[m + 1]).irq, Here(stack[m]).irq)
    BY <2>2, <2>3, <2>4, CalledNext DEF ExecutingPlain, Executing
  <2>6. SameIrq(Here(stack[m]).irq, Here(stack[k]).irq)
    BY <1>3
  <2>7. SameIrq(Here(stack[m + 1]).irq, Here(stack[k]).irq)
    BY <2>5, <2>6 DEF SameIrq
  <2> QED
    BY <2>1, <2>7
<1> HIDE DEF T
<1>4. n \in T
  <2>1. k \in Nat /\ k <= n
    BY <1>1
  <2> HIDE DEF n
  <2> QED
    BY <1>1, <1>2, <1>3, <2>1, Using!StepsFrom
<1> QED
  BY <1>1, <1>4 DEF T

LEMMA UsesReported == ASSUME ExecutingPlain PROVE EveryUsageReported
<1> SUFFICES ASSUME NEW lock \in Acquired, NEW k \in Seeing
             PROVE  \E used \in DOMAIN functions[stack[k].fn].usage :
                       /\ SameLock(stack[k], used, lock)
                       /\ UsageBits(ForAcquire(Here(Top).irq, lock))
                             \subseteq DOMAIN functions[stack[k].fn].usage[used]
  BY DEF EveryUsageReported
<1> DEFINE f == stack[k].fn
           u == Usages(analyses, summaries, f)
<1>1. /\ Tracked(Top) /\ Top = stack[Len(stack)] /\ Len(stack) \in Nat \ {0}
      /\ Reported(analyses[Top.fn], Here(Top), lock)
  BY AcquiredByTop DEF ExecutingPlain
<1>2. k \in 1 .. Len(stack) /\ Tracked(stack[k]) /\ f \in Fns
  <2>1. k \in 1 .. Len(stack)
    BY LenProperties DEF Seeing, ExecutingPlain, Executing, StackInv
  <2> QED
    BY <2>1 DEF ExecutingPlain, Executing, StackInv, Tracked
<1>3. functions[f].usage = u
  <2>1. functions[f] = Finalized(analyses, summaries, f)
    BY <1>2 DEF ExecutingPlain, Executing, ReportStands
  <2>2. Finalized(analyses, summaries, f).usage = u
    BY DEF Finalized
  <2> QED
    BY <2>1, <2>2
<1>4. /\ UsageKept(analyses[f].usage, u)
      /\ \A site \in Sites(analyses, f) :
            \A other \in SummaryLocks(analyses, f, site, summaries) : Used(u, other, site.irq)
  <2>1. FactsShaped(analyses[f]) /\ FactsNamed(analyses[f])
    BY <1>2 DEF ExecutingPlain, Executing, Standing, FoundInv, SummaryInv
  <2>2. IsSummary(summaries) /\ AllFinite(summaries)
    BY DEF ExecutingPlain, Executing, SummaryInv
  <2> QED
    BY <1>2, <2>1, <2>2, UsagesReport
<1> HIDE DEF u
<1>5. CASE k = Len(stack)
  <2>1. stack[k] = Top
    BY <1>1, <1>5
  <2>2. Used(analyses[f].usage, lock, Here(Top).irq)
    BY <1>1, <2>1 DEF Reported, Used
  <2>3. Used(u, lock, Here(Top).irq)
    BY <1>4, <2>2, UsedKept
  <2>4. SameLock(stack[k], lock, lock)
    BY <2>1 DEF SameLock
  <2> QED
    BY <1>3, <2>3, <2>4 DEF Used
<1>6. CASE k # Len(stack)
  <2>1. PICK site \in Sites(analyses, f) :
           /\ site.irq = Here(stack[k]).irq
           /\ \E other \in SummaryLocks(analyses, f, site, summaries) :
                 SameLock(stack[k], other, lock)
    BY <1>6, SeenAtSite DEF ExecutingPlain
  <2>2. PICK other \in SummaryLocks(analyses, f, site, summaries) : SameLock(stack[k], other, lock)
    BY <2>1
  <2>3. Used(u, other, Here(stack[k]).irq)
    BY <1>4, <2>1
  <2>4. UsageBits(ForAcquire(Here(Top).irq, lock)) = UsageBits(ForAcquire(Here(stack[k]).irq, other))
    <3>1. DOMAIN Here(Top).irq = IrqFields /\ DOMAIN Here(stack[k]).irq = IrqFields
      BY <1>1, <1>2, FrameIsGood DEF ExecutingPlain, Executing, Standing, SummaryInv, Good, Stale
    <3>2. SameIrq(Here(Top).irq, Here(stack[k]).irq)
      BY SameAbove
    <3>3. SameKind(other, lock)
      BY <2>2 DEF SameLock, SameKind
    <3> QED
      BY <3>1, <3>2, <3>3, SameUses
  <2> QED
    BY <1>3, <2>2, <2>3, <2>4 DEF Used
<1> QED
  BY <1>5, <1>6

\* However many calls and callbacks lie between, the use that an execution of any crate makes
\* of a lock is reported, with the interrupt state it is made in, by the function that
\* acquires the lock and by every caller above which nothing is held; as long as the functions
\* that are given an interrupt guard are registered and not called.
THEOREM UsesOfExecutions ==
    ASSUME CallbacksPassedDirectly, GuardsOnlyRegistered
    PROVE  Spec => []EveryUsageReported
<1> DEFINE IInv == ReportInv /\ GuardsInv /\ BottomInv
<1>1. IInv => EveryUsageReported
  <2> SUFFICES ASSUME IInv PROVE EveryUsageReported
    OBVIOUS
  <2>1. CASE stack = <<>>
    <3>1. Acquired = {}
      BY <2>1 DEF Acquired
    <3> QED
      BY <3>1 DEF EveryUsageReported
  <2>2. CASE stack # <<>>
    BY <2>2, ReportExecuting, UsesReported DEF ExecutingPlain, ReportInv, CallsInv
  <2> QED
    BY <2>1, <2>2
<1>2. Init => IInv
  <2> SUFFICES ASSUME Init PROVE IInv
    OBVIOUS
  <2>1. BottomInv
    BY DEF Init, BottomInv
  <2> QED
    BY <2>1, InitCalls, InitSummary, InitGuards DEF ReportInv
<1>3. IInv /\ [Next]_vars => IInv'
  <2> SUFFICES ASSUME IInv, [Next]_vars PROVE IInv'
    OBVIOUS
  <2>1. ReportInv'
    BY ReportStep
  <2>2. GuardsInv'
    BY CrateSame DEF GuardsInv, Plain
  <2>3. BottomInv'
    BY BottomStep DEF ReportInv, CallsInv
  <2> QED
    BY <2>1, <2>2, <2>3
<1> HIDE DEF IInv
<1> QED
  BY <1>1, <1>2, <1>3, PTL DEF Spec
=============================================================================
