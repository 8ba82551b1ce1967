---------------------------- MODULE LockdepCalls ----------------------------
(***************************************************************************)
(* The analysis of a crate: collect_artifact (collect.rs) and the          *)
(* summaries of collect/summary.rs.                                        *)
(*                                                                         *)
(* Three loops are nested.  The outer one propagates contexts along direct *)
(* calls, analyses every function in its contexts, and starts again from   *)
(* the contexts met at the callsites.  The analysis itself is repeated     *)
(* until the locks that functions return are stable.  The locks that       *)
(* functions acquire on entry are summarised last, and give the orders     *)
(* and usages of the callers.                                              *)
(*                                                                         *)
(* Bodies have no branches here: merges are the matter of LockdepBody.     *)
(*                                                                         *)
(* Once the crate is analysed an execution descends its calls.  A frame    *)
(* knows the addresses of its arguments, so that a class is compared by    *)
(* what it names and not by how the analysis renamed it.                   *)
(***************************************************************************)
EXTENDS LockdepContexts, LockdepMir

CONSTANTS
    Crates,         \* the crates: functions of Fns with their bodies
    MaxRounds,      \* bound on the rounds of the nested loops
    MaxDepth        \* bound on the execution's call stack

\* A body is a list of blocks, a block a list of statements and a call a list of operands;
\* the projections of a place are names.
IsOperand(o) == IsPlace(o) => o.place.proj \in Seq(STRING)
IsStatement(st) ==
    st.op \in StatementOps /\ (st.op = "ref" => st.src.place.proj \in Seq(STRING))
IsBlock(block) ==
    /\ block.stmts \in Seq({st \in ToSet(block.stmts) : IsStatement(st)})
    /\ block.term.kind = "call" =>
          block.term.args \in Seq({o \in ToSet(block.term.args) : IsOperand(o)})
IsBody(fn) ==
    /\ {"blocks", "irq_guard_arg"} \subseteq DOMAIN fn
    /\ fn.blocks \in Seq({block \in ToSet(fn.blocks) : IsBlock(block)}) \ {<<>>}

ASSUME CratesAssumption ==
    IsFiniteSet(Fns) /\ \A c \in Crates : \A f \in Fns : IsBody(c[f])

\* A call through a callable passes no callable.  build_inbound_callable_bindings keeps what
\* direct calls pass and nothing else, so that a callback given to a callback is lost.
CallbacksPassedDirectly ==
    \A c \in Crates : \A f \in Fns : LET fn == Resolved(c[f]) IN
       \A b \in DOMAIN fn.blocks : LET term == fn.blocks[b].term IN
          /\ term.kind = "call"
          /\ \E t \in CalledTarget(fn, term.func) : t.kind # "Direct"
          => \A i \in DOMAIN term.args : CalledTarget(fn, term.args[i]) = {}

\* A function that is given the interrupt guard is registered and never called.  A callsite
\* reports what its callee acquires with the caller's interrupt state, which knows nothing
\* of a guard that the callee takes for given.
GuardsOnlyRegistered ==
    \A c \in Crates : \A f \in Fns : LET fn == Resolved(c[f]) IN
       \A b \in DOMAIN fn.blocks : LET term == fn.blocks[b].term IN
          term.kind = "call" =>
             \A t \in CalledTarget(fn, term.func) : t.kind = "Direct" /\ t.fn \in Fns =>
                /\ ~c[t.fn].irq_guard_arg
                /\ \A i \in DOMAIN term.args : \A u \in CalledTarget(fn, term.args[i]) :
                      u.kind = "Direct" /\ u.fn \in Fns => ~c[u.fn].irq_guard_arg

VARIABLES
    crate,          \* the functions
    phase,          \* the loop the analysis is in
    returns,        \* return_lock_summaries of the analysis in progress
    analyses,       \* what each function's analysis collected
    summaries,      \* the summaries being computed
    functions,      \* the artifact: the orders and usages of each function
    rounds,         \* the rounds made, for the bound
    stack           \* the execution's frames, the innermost last

analysisVars == <<phase, returns, analyses, summaries, functions, rounds>>
vars == <<seeds, calls, propagated, queue, crate, analysisVars, stack>>

-----------------------------------------------------------------------------
(* Where contexts come from. *)

Terms(f) == {crate[f].blocks[b].term : b \in DOMAIN crate[f].blocks}
CallsOf(f) == {t \in Terms(f) : t.kind = "call"}

\* The registration functions: the context of the callback and its position.
IrqEntries ==
    [name \in {"register_bottom_half_handler_l1", "register_bottom_half_handler_l2",
               "on_active"} |->
        CASE name = "register_bottom_half_handler_l1" -> [context |-> "BottomHalfL1", arg |-> 1]
          [] name = "register_bottom_half_handler_l2" -> [context |-> "BottomHalfL2", arg |-> 1]
          [] name = "on_active" -> [context |-> "HardIrqTopHalf", arg |-> 2]]

\* The callbacks that a call registers, each with its context.
Registered(f, term) ==
    IF term.func.kind # "fn" \/ term.func.fn \notin DOMAIN IrqEntries THEN {}
    ELSE LET entry == IrqEntries[term.func.fn]
         IN  {<<t.fn, entry.context>> :
                t \in {u \in UNION {CalledTarget(crate[f], term.args[i]) :
                                      i \in {entry.arg} \cap DOMAIN term.args} :
                         u.kind = "Direct"}}

EntryContexts ==
    {<<f, "Task">> : f \in {g \in Fns : crate[g].public}}
    \cup UNION {UNION {Registered(f, term) : term \in CallsOf(f)} : f \in Fns}

DirectCalls ==
    UNION {{<<f, g>> : g \in Fns \cap UNION {CalledFn(crate[f], t) : t \in CallsOf(f)}} :
              f \in Fns}

\* A function no context reaches is analysed as a task.
ContextsOf(f) ==
    LET found == {p[2] : p \in {q \in propagated : q[1] = f}}
    IN  IF found = {} THEN {"Task"} ELSE found

-----------------------------------------------------------------------------
(* The analysis of the functions. *)

AnalyzeBody(fn, context, known) ==
    FoldLeft(LAMBDA acc, b :
               [state |-> AfterBlock(fn, acc.state, fn.blocks[b], known),
                facts |-> EmitBlock(fn, Fns, acc.facts, acc.state, b, known)],
             [state |-> EntryState(fn, context), facts |-> NoFacts],
             [b \in DOMAIN fn.blocks |-> b]).facts

MergeFacts(a, b) ==
    [events |-> a.events \o b.events, edges |-> a.edges \cup b.edges,
     usage |-> MergeUsage(a.usage, b.usage),
     entry_locks |-> a.entry_locks \cup b.entry_locks,
     return_locks |-> a.return_locks \cup b.return_locks,
     callsites |-> a.callsites \o b.callsites]

AnalyzeFunction(fn, contexts, known) ==
    FoldLeft(LAMBDA acc, context : MergeFacts(acc, AnalyzeBody(fn, context, known)),
             NoFacts, SetToSeq(contexts))

Sites(results, f) == ToSet(results[f].callsites)

-----------------------------------------------------------------------------
(* Callable arguments. *)

\* What direct calls of a function pass as callables.  A call through a callable passes
\* nothing on.
Inbound(results, f) ==
    UNION {{[caller |-> g, bindings |-> site.callables] :
               site \in {s \in Sites(results, g) : s.target.kind = "Direct" /\ s.target.fn = f}} :
             g \in Fns}

\* The targets bound to an argument, given as a pair of a function and an index.
Bound(results, p) ==
    UNION {{[caller |-> b.caller, target |-> b.bindings[i]] :
               i \in {p[2]} \cap DOMAIN b.bindings} : b \in Inbound(results, p[1])}

\* The functions an argument may stand for, through the callers that pass on theirs: what
\* is bound to the arguments of the least set that has this one and follows the callers.
Callers(results, p) ==
    {<<b.caller, b.target.index>> : b \in {c \in Bound(results, p) : c.target.kind # "Direct"}}

CallableArgCallees(results, f, index) ==
    LET args == {<<f, index>>} \cup UNION {UNION {{<<g, site.callables[i].index>> :
                    i \in DOMAIN site.callables} : site \in Sites(results, g)} : g \in Fns}
        Follows(S) == <<f, index>> \in S /\ \A p \in S : Callers(results, p) \subseteq S
        visited == {p \in args : \A S \in SUBSET args : Follows(S) => p \in S}
    IN  {b.target.fn : b \in {c \in UNION {Bound(results, p) : p \in visited} :
                                 c.target.kind = "Direct"}}

Callees(results, f, site) ==
    IF site.target.kind = "Direct" THEN {site.target.fn}
    ELSE CallableArgCallees(results, f, site.target.index)

CallsiteContexts(results) ==
    UNION {UNION {{<<g, site.context>> : g \in Callees(results, f, site)} :
                     site \in Sites(results, f)} : f \in Fns}

NextSeedsOfEntries == EntryContexts                     \* mutant

NextSeeds == EntryContexts \cup CallsiteContexts(analyses)

-----------------------------------------------------------------------------
(* Summaries. *)

\* The callee's summary, named as the caller names it.  A callback may be a function of
\* another crate, which has none.
SummaryLocks(results, f, site, known) ==
    UNION {Rebound(lock, site.bindings) :
             lock \in UNION {known[g] : g \in Callees(results, f, site) \cap Fns}}

\* One round over the functions in their order; each sees what those before it found.
Round(results, known, sites) ==
    FoldLeft(LAMBDA acc, f :
               [acc EXCEPT ![f] = @ \cup
                  UNION {SummaryLocks(results, f, site, acc) :
                           site \in Sites(results, f) \cap sites}],
             known, SetToSeq(Fns))

AllSites(results) == UNION {Sites(results, f) : f \in Fns}
HoldsNothing(results) == {site \in AllSites(results) : site.held = {}}
ReturnsResult(results) == {site \in AllSites(results) : site.dest = Place(0, <<>>)}

\* The orders and usages of a function and of what it calls: finalize_function_analysis.
Orders(results, entries, f) ==
    results[f].edges \cup
    UNION {{[context |-> site.context, from |-> pair[1], to |-> pair[2],
             location |-> site.location] :
               pair \in {p \in site.held \X SummaryLocks(results, f, site, entries) :
                            DeadlockRelevant(p[1], p[2])}} : site \in Sites(results, f)}

\* mutant: the interrupt state of the callsite, not of the acquisition
SiteUsagesAtCall(usage, site, locks) ==
    FoldLeft(LAMBDA acc, lock : RecordUsage(acc, lock, site.irq, site.location),
             usage, SetToSeq(locks))

\* The locks of one callsite, with the interrupt state there.
SiteUsages(usage, site, locks) ==
    FoldLeft(LAMBDA acc, lock : RecordUsage(acc, lock, ForAcquire(site.irq, lock), site.location),
             usage, SetToSeq(locks))

Usages(results, entries, f) ==
    FoldLeft(LAMBDA usage, site :
               SiteUsages(usage, site, SummaryLocks(results, f, site, entries)),
             results[f].usage, results[f].callsites)

Finalized(results, entries, f) ==
    [edges |-> Orders(results, entries, f), usage |-> Usages(results, entries, f)]

-----------------------------------------------------------------------------
(* The analysis. *)

Init ==
    /\ crate \in {[f \in Fns |-> Resolved(c[f])] : c \in Crates}
    /\ seeds = EntryContexts
    /\ calls = DirectCalls
    /\ propagated = seeds
    /\ queue = seeds
    /\ phase = "contexts"
    /\ returns = <<>>
    /\ analyses = [f \in Fns |-> NoFacts]
    /\ summaries = <<>>
    /\ functions = <<>>
    /\ rounds = 0
    /\ stack = <<>>

CountRound == rounds < MaxRounds /\ rounds' = rounds + 1

PropagateContexts ==
    /\ phase = "contexts"
    /\ Propagate
    /\ UNCHANGED <<crate, analysisVars, stack>>

\* Every function is analysed in its contexts; its summary starts from its own locks.
Analyze ==
    /\ phase = "contexts"
    /\ queue = {}
    /\ CountRound
    /\ analyses' = [f \in Fns |-> AnalyzeFunction(crate[f], ContextsOf(f), returns)]
    /\ summaries' = [f \in Fns |-> analyses'[f].return_locks]
    /\ phase' = "returns"
    /\ UNCHANGED <<seeds, calls, propagated, queue, crate, returns, functions, stack>>

\* A round that changes something is followed by another.
GrowSummaries(round) ==
    /\ round # summaries
    /\ CountRound
    /\ summaries' = round
    /\ UNCHANGED <<seeds, calls, propagated, queue, crate, phase, returns, analyses, functions,
                   stack>>

\* The helpers now known to return a lock make the bodies that call them acquire it.
AnalyzeAgain(round) ==
    /\ round = summaries
    /\ round # returns
    /\ returns' = round
    /\ phase' = "contexts"
    /\ UNCHANGED <<seeds, calls, propagated, queue, crate, analyses, summaries, functions,
                   rounds, stack>>

\* mutant: the next round keeps the contexts of the last
ReseedKeeping(round) ==
    /\ round = summaries
    /\ round = returns
    /\ NextSeeds # seeds
    /\ seeds' = NextSeeds
    /\ propagated' = propagated \cup NextSeeds
    /\ queue' = NextSeeds
    /\ returns' = <<>>
    /\ phase' = "contexts"
    /\ UNCHANGED <<calls, crate, analyses, summaries, functions, rounds, stack>>

\* The contexts of the callsites are not the ones the round started from: another round.
Reseed(round) ==
    /\ round = summaries
    /\ round = returns
    /\ NextSeeds # seeds
    /\ StartFrom(NextSeeds)
    /\ returns' = <<>>
    /\ phase' = "contexts"
    /\ UNCHANGED <<calls, crate, analyses, summaries, functions, rounds, stack>>

\* They are: the analysis stands, and the locks acquired on entry are summarised.
Settle(round) ==
    /\ round = summaries
    /\ round = returns
    /\ NextSeeds = seeds
    /\ summaries' = [f \in Fns |-> analyses[f].entry_locks]
    /\ phase' = "entries"
    /\ UNCHANGED <<seeds, calls, propagated, queue, crate, returns, analyses, functions, rounds,
                   stack>>

SummarizeReturns ==
    /\ phase = "returns"
    /\ \E round \in {Round(analyses, summaries, ReturnsResult(analyses))} :
          \/ GrowSummaries(round)
          \/ AnalyzeAgain(round)
          \/ Reseed(round)
          \/ Settle(round)

Finalize(round) ==
    /\ round = summaries
    /\ functions' = [f \in Fns |-> Finalized(analyses, summaries, f)]
    /\ phase' = "done"
    /\ UNCHANGED <<seeds, calls, propagated, queue, crate, returns, analyses, summaries, rounds,
                   stack>>

SummarizeEntries ==
    /\ phase = "entries"
    /\ \E round \in {Round(analyses, summaries, HoldsNothing(analyses))} :
          \/ GrowSummaries(round)
          \/ Finalize(round)

-----------------------------------------------------------------------------
(* An execution of the crate. *)

Here(frame) == AfterStatements(crate[frame.fn], frame.state, crate[frame.fn].blocks[frame.at])
TermOf(frame) == crate[frame.fn].blocks[frame.at].term
Top == Last(stack)

\* What a class names: a root and the fields that lead from it.  An argument is at the
\* address it was passed; one that is not the address of anything has no root.
NoAddress == [root |-> NoRoot, fields |-> <<>>]

Extended(fields, proj) ==
    FoldLeft(LAMBDA acc, p : IF p = "Deref" THEN acc ELSE Append(acc, p), fields, proj)

Address(frame, class) ==
    LET from == IF class.root.kind = "Arg" THEN Get(frame.env, class.root.index, NoAddress)
                ELSE [root |-> class.root, fields |-> <<>>]
    IN  [root |-> from.root, fields |-> Extended(from.fields, class.proj)]

\* The function a target stands for in a frame.
Denotes(frame, target) ==
    IF target.kind = "Direct" THEN {target.fn}
    ELSE {frame.callables[i] : i \in {target.index} \cap DOMAIN frame.callables}

\* The execution starts in a function the program or an interrupt enters.
Entries == {p \in EntryContexts : p[1] \in Fns}
Enter ==
    /\ phase = "done"
    /\ stack = <<>>
    /\ \E p \in Entries :
         stack' = <<[fn |-> p[1], at |-> 1, context |-> p[2],
                     state |-> EntryState(crate[p[1]], p[2]),
                     env |-> [i \in 1 .. crate[p[1]].args |->
                                [root |-> Root("Arg", p[1], i), fields |-> <<>>]],
                     callables |-> <<>>]>>
    /\ UNCHANGED <<seeds, calls, propagated, queue, crate, analysisVars>>

\* The frame a call pushes.
Pushed(frame, g, here, term) ==
    LET fn == crate[frame.fn]
        bound == ArgBindings(fn, here, term.args)
        Passed(i) == UNION {Denotes(frame, t) : t \in CalledTarget(fn, term.args[i])}
    IN  [fn |-> g, at |-> 1, context |-> CurrentContext(here.irq),
         state |-> EntryState(crate[g], CurrentContext(here.irq)),
         env |-> [i \in DOMAIN term.args |->
                   IF i \in DOMAIN bound THEN Address(frame, bound[i]) ELSE NoAddress],
         callables |-> [i \in {j \in DOMAIN term.args : Passed(j) # {}} |->
                          CHOOSE h \in Passed(i) : TRUE]]

Call ==
    /\ stack # <<>>
    /\ Len(stack) < MaxDepth
    /\ TermOf(Top).kind = "call"
    /\ \E g \in Fns \cap
                 UNION {Denotes(Top, t) : t \in CalledTarget(crate[Top.fn], TermOf(Top).func)} :
         stack' = Append(stack, Pushed(Top, g, Here(Top), TermOf(Top)))
    /\ UNCHANGED <<seeds, calls, propagated, queue, crate, analysisVars>>

\* The frame at the next block.
Advanced(frame) ==
    [frame EXCEPT !.at = frame.at + 1,
                  !.state = AfterBlock(crate[frame.fn], frame.state,
                                       crate[frame.fn].blocks[frame.at], returns)]

\* The innermost function goes on, the call it was at having returned.
Advance ==
    /\ stack # <<>>
    /\ Top.at < Len(crate[Top.fn].blocks)
    /\ stack' = [stack EXCEPT ![Len(stack)] = Advanced(Top)]
    /\ UNCHANGED <<seeds, calls, propagated, queue, crate, analysisVars>>

\* The analysis has ended and so has the execution.
Finished ==
    /\ phase = "done"
    /\ IF stack = <<>> THEN Entries = {} ELSE Top.at = Len(crate[Top.fn].blocks)
    /\ UNCHANGED vars

Next ==
    \/ PropagateContexts \/ Analyze \/ SummarizeReturns \/ SummarizeEntries
    \/ Enter \/ Call \/ Advance \/ Finished

Spec == Init /\ [][Next]_vars

-----------------------------------------------------------------------------
(* Properties. *)

\* The state has its types: what is queued has been found, and a summary names the classes
\* of its own function's arguments only, however many calls its locks were renamed through.
TypeOK ==
    /\ queue \subseteq propagated /\ calls \subseteq Fns \X Fns
    /\ phase \in {"contexts", "returns", "entries", "done"}
    /\ rounds \in 0 .. MaxRounds
    /\ \A f \in DOMAIN summaries : \A lock \in summaries[f] :
         lock.class.root.kind = "Arg" =>
            lock.class.root.fn = f /\ lock.class.root.index \in 1 .. crate[f].args
    /\ Len(stack) <= MaxDepth

\* A function is analysed in every context an execution enters it in, through calls,
\* registered callbacks and callable arguments: its guards and usages in that context are
\* in the artifact.
EveryContextAnalysed ==
    \A i \in DOMAIN stack : <<stack[i].fn, stack[i].context>> \in propagated

\* What the innermost frame acquires at its block.  A constant is not the address of a lock.
Acquired ==
    IF stack = <<>> THEN {}
    ELSE {e.lock : e \in {c \in {CallEffect(crate[Top.fn], Here(Top), TermOf(Top), returns)} :
                             /\ c.kind = "Acquire"
                             /\ Address(Top, c.lock.class).root # NoRoot}}

SameLock(frame, other, lock) ==
    /\ Address(frame, other.class) = Address(Top, lock.class)
    /\ <<other.primitive, other.acquire, other.behavior>> =
          <<lock.primitive, lock.acquire, lock.behavior>>

\* The frames that may see what is acquired: those above them hold nothing.
Seeing == {k \in DOMAIN stack : \A j \in k + 1 .. Len(stack) : Held(Here(stack[j])) = {}}

\* When an execution acquires a lock, the innermost function that holds another reports
\* the order of the two, however many calls and callbacks lie between.
EveryOrderReported ==
    \A lock \in Acquired : \A k \in Seeing : \A held \in Held(Here(stack[k])) :
       DeadlockRelevant(held, lock) =>
          \E edge \in functions[stack[k].fn].edges :
             edge.from = held /\ SameLock(stack[k], edge.to, lock)

\* And that function and those it called report the use, with the interrupt state of
\* the execution.
EveryUsageReported ==
    \A lock \in Acquired : \A k \in Seeing :
       \E used \in DOMAIN functions[stack[k].fn].usage :
          /\ SameLock(stack[k], used, lock)
          /\ UsageBits(ForAcquire(Here(Top).irq, lock))
                \subseteq DOMAIN functions[stack[k].fn].usage[used]
=============================================================================
