----------------------------- MODULE LockdepMir -----------------------------
(***************************************************************************)
(* What lockdep knows at one point of a MIR body, and how a statement or a *)
(* terminator changes it: collect/mir.rs, collect/place.rs and the         *)
(* interrupt state of collect/context.rs.                                  *)
(*                                                                         *)
(* A place is a local and a sequence of projections; only Deref is told    *)
(* apart from the others, which are fields.  Types are kept where they     *)
(* decide something: the primitive and the guardian of a call's receiver,  *)
(* and which arguments are callable.  A ReceiverArg root is the Arg root   *)
(* of index 1, which is how it is rebound.                                 *)
(***************************************************************************)
EXTENDS Naturals, Sequences, FiniteSets, SequencesExt, Functions, TLC

NoLocal == 0
NoEffect == [kind |-> "None"]

With(f, x, v) == [y \in DOMAIN f \cup {x} |-> IF y = x THEN v ELSE f[y]]
Over(f, g) == [x \in DOMAIN f \cup DOMAIN g |-> IF x \in DOMAIN f THEN f[x] ELSE g[x]]
Without(f, x) == Restrict(f, DOMAIN f \ {x})
Get(f, x, default) == IF x \in DOMAIN f THEN f[x] ELSE default
Agreed(f, g) == Restrict(f, {x \in DOMAIN f \cap DOMAIN g : f[x] = g[x]})

-----------------------------------------------------------------------------
(* The interrupt state. *)

FromContext(c) ==
    LET base == CASE c = "TaskIrqDisabled" -> "Task"
                  [] c = "BottomHalfL1IrqDisabled" -> "BottomHalfL1"
                  [] OTHER -> c
        hard == c \in {"Task", "BottomHalfL1"}
        soft == c = "Task"
    IN  [base |-> base, base_hard |-> hard, base_soft |-> soft,
         hard_depth |-> CASE c = "HardIrqTopHalf" -> 1
                          [] c = "BottomHalfL2" -> 2
                          [] OTHER -> 0,
         soft_depth |-> IF base = "BottomHalfL1" THEN 1 ELSE 0,
         hard |-> hard, soft |-> soft]

CurrentContext(irq) ==
    CASE ~irq.hard /\ irq.base = "Task" -> "TaskIrqDisabled"
      [] ~irq.hard /\ irq.base = "BottomHalfL1" -> "BottomHalfL1IrqDisabled"
      [] OTHER -> irq.base

DisablesIrq(lock) ==
    \/ lock.behavior = "LocalIrqDisabled"
    \/ lock.behavior = "WriteIrqDisabled" /\ lock.acquire = "write"

ForAcquire(irq, lock) ==
    IF DisablesIrq(lock) THEN [irq EXCEPT !.hard = FALSE, !.soft = FALSE] ELSE irq

Larger(a, b) == IF a < b THEN b ELSE a

MergeIrq(l, r) ==
    [base |-> l.base,
     base_hard |-> l.base_hard \/ r.base_hard,
     base_soft |-> l.base_soft \/ r.base_soft,
     hard_depth |-> Larger(l.hard_depth, r.hard_depth),
     soft_depth |-> Larger(l.soft_depth, r.soft_depth),
     hard |-> l.hard \/ r.hard,
     soft |-> l.soft \/ r.soft]

\* Interrupts are off while the state holds a guard that turns them off.
Masked(s) == s.irq_locals # {} \/ \E l \in DOMAIN s.guards : DisablesIrq(s.guards[l])

SetMasked(s, masked) ==
    [s EXCEPT !.irq.hard = s.irq.base_hard /\ ~masked,
              !.irq.soft = s.irq.base_soft /\ ~masked]

RefreshIrq(s) == SetMasked(s, Masked(s))

-----------------------------------------------------------------------------
(* The state of a block: BlockState. *)

WithContext(c) ==
    [aliases |-> <<>>, guards |-> <<>>, irq_locals |-> {}, origins |-> <<>>,
     irq |-> FromContext(c)]

EmptyState == WithContext("Task")

\* An L1 bottom half is entered with the interrupt guard in its first argument.
EntryState(fn, c) ==
    IF c = "BottomHalfL1" /\ fn.irq_guard_arg
    THEN RefreshIrq([WithContext(c) EXCEPT !.irq_locals = {1}])
    ELSE WithContext(c)

JoinHoldingEither(l, r) ==                              \* mutant
    RefreshIrq([aliases |-> Agreed(l.aliases, r.aliases), guards |-> Over(l.guards, r.guards),
                irq_locals |-> l.irq_locals \cap r.irq_locals,
                origins |-> Agreed(l.origins, r.origins), irq |-> MergeIrq(l.irq, r.irq)])

JoinStates(l, r) ==
    RefreshIrq([aliases |-> Agreed(l.aliases, r.aliases),
                guards |-> Agreed(l.guards, r.guards),
                irq_locals |-> l.irq_locals \cap r.irq_locals,
                origins |-> Agreed(l.origins, r.origins),
                irq |-> MergeIrq(l.irq, r.irq)])

JoinMany(states) == FoldLeft(JoinStates, Head(states), Tail(states))

ReleaseOnly(s, l) ==                                    \* mutant: no refresh
    [s EXCEPT !.aliases = Without(@, l), !.guards = Without(@, l),
              !.irq_locals = @ \ {l}, !.origins = Without(@, l)]

Release(s, l) ==
    RefreshIrq([s EXCEPT !.aliases = Without(@, l), !.guards = Without(@, l),
                         !.irq_locals = @ \ {l}, !.origins = Without(@, l)])

-----------------------------------------------------------------------------
(* Places and lock classes. *)

Place(l, proj) == [local |-> l, proj |-> proj]
IsLocal(p) == p.proj = <<>>
IsPlace(operand) == operand.kind \in {"copy", "move"}

ResolveAlias(s, p) == IF IsLocal(p) THEN Get(s.aliases, p.local, p) ELSE p

Root(kind, fn, index) == [kind |-> kind, fn |-> fn, index |-> index]
Global(name) == Root("Global", name, 0)
NoRoot == Root("None", "", 0)
Origin(kind, root) == [kind |-> kind, root |-> root]
Unknown == Origin("Unknown", NoRoot)

\* A local that is neither an argument nor a static stands for what it was made
\* from, when that is known; otherwise for itself and how it was made.
RootKey(fn, s, l) ==
    LET origin == Get(s.origins, l, Unknown)
    IN  CASE l = 0 -> Root("ReturnValue", fn.name, 0)
          [] l \in 1 .. fn.args -> Root("Arg", fn.name, l)
          [] l \in DOMAIN fn.statics -> Global(fn.statics[l])
          [] origin.kind \in {"AliasOf", "RefOfPlace"} -> origin.root
          [] OTHER -> Root(IF origin.kind = "AggregateTemp" THEN "Temp" ELSE "Local", fn.name, l)

ClassKey(fn, s, p) == [root |-> RootKey(fn, s, p.local), proj |-> p.proj]

OperandOrigin(fn, s, operand) ==
    CASE operand.kind = "static" -> Origin("AliasOf", Global(operand.fn))
      [] IsPlace(operand) /\ IsLocal(operand.place) ->
            Origin("AliasOf", RootKey(fn, s, operand.place.local))
      [] OTHER -> Unknown

\* The classes bound to the arguments of a call.
ArgBindings(fn, s, args) ==
    [i \in {j \in DOMAIN args : IsPlace(args[j]) \/ args[j].kind = "static"} |->
        IF args[i].kind = "static"
        THEN [root |-> Global(args[i].fn), proj |-> <<>>]
        ELSE ClassKey(fn, s, ResolveAlias(s, args[i].place))]

SplicedArgument(left, right) == left                    \* mutant: the callee's fields are lost

\* Where the argument's class ends in the Deref the callee's begins with, one is kept.
Spliced(left, right) ==
    IF left # <<>> /\ right # <<>> /\ Last(left) = "Deref" /\ Head(right) = "Deref"
    THEN left \o Tail(right)
    ELSE left \o right

\* A class of the callee named as the caller does; empty when its argument is not bound.
ReboundClass(class, bindings) ==
    IF class.root.kind # "Arg" THEN {class}
    ELSE {[root |-> bindings[i].root, proj |-> Spliced(bindings[i].proj, class.proj)] :
            i \in {class.root.index} \cap DOMAIN bindings}

Rebound(lock, bindings) ==
    {[lock EXCEPT !.class = class] : class \in ReboundClass(lock.class, bindings)}

-----------------------------------------------------------------------------
(* Callable locals and the target of a call. *)

Direct(name) == [kind |-> "Direct", fn |-> name, index |-> 0]
Arg(i) == [kind |-> "Arg", fn |-> "", index |-> i]

Statements(fn) == FlattenSeq([b \in DOMAIN fn.blocks |-> fn.blocks[b].stmts])

\* One pass over the body's assignments.
CallableRound(fn, known) ==
    LET Assign(m, st) ==
          LET from == IF st.op \in {"use", "cast"} THEN st.src ELSE [kind |-> "none"]
              l == IF IsPlace(from) /\ IsLocal(from.place) THEN from.place.local ELSE NoLocal
          IN  CASE st.op = "closure" -> With(m, st.dst, Direct(st.src.fn))
                [] from.kind = "fn" -> With(m, st.dst, Direct(from.fn))
                [] l \in DOMAIN m -> With(m, st.dst, m[l])
                [] l \in fn.callables \ DOMAIN m -> With(m, st.dst, Arg(l))
                [] OTHER -> m
    IN  FoldLeft(Assign, known, Statements(fn))

\* The passes repeat until one changes nothing; a local of the bodies modelled here is
\* given one callable, so that a pass for each statement is enough.
CallableLocals(fn) ==
    LET n == Len(Statements(fn))
        pass[i \in 0 .. n] == IF i = 0 THEN [l \in DOMAIN fn.statics |-> Direct(fn.statics[l])]
                              ELSE CallableRound(fn, pass[i - 1])
    IN  pass[n]

\* A function with its callable locals, which the code computes again at every call.
Resolved(fn) == With(fn, "known", CallableLocals(fn))

\* What an operand calls: none, or one target.
CalledTarget(fn, operand) ==
    IF operand.kind = "fn" THEN {Direct(operand.fn)}
    ELSE LET l == IF IsPlace(operand) /\ IsLocal(operand.place)
                  THEN operand.place.local ELSE NoLocal
         IN  IF l \in DOMAIN fn.known THEN {fn.known[l]}
             ELSE {Arg(i) : i \in fn.callables \cap {l}}

\* The function a call names: none where the callee is an argument.
CalledFn(fn, term) ==
    {t.fn : t \in {u \in CalledTarget(fn, term.func) : u.kind = "Direct"}}

-----------------------------------------------------------------------------
(* Statements. *)

\* The kinds collect/mir.rs tells apart.
StatementOps == {"ref", "use", "cast", "aggregate", "closure", "other", "storage_dead",
                 "into_field"}

\* A guard that is moved is held by the local it moves to.
TransferGuard(s, dst, operand) ==
    IF operand.kind # "move" \/ ~IsLocal(operand.place) THEN s
    ELSE LET src == operand.place.local
         IN  RefreshIrq(
               CASE src \in DOMAIN s.guards ->
                      [s EXCEPT !.guards = With(Without(@, src), dst, s.guards[src])]
                 [] src \in s.irq_locals \ DOMAIN s.guards ->
                      [s EXCEPT !.irq_locals = (@ \ {src}) \cup {dst}]
                 [] OTHER -> s)

\* A local copied from another is an alias of what that one is an alias of, when that
\* is a local again.
AliasOperand(s, dst, operand) ==
    IF IsPlace(operand) /\ IsLocal(ResolveAlias(s, operand.place))
    THEN [s EXCEPT !.aliases = With(@, dst, ResolveAlias(s, operand.place))] ELSE s

WithOrigin(s, dst, origin) == [s EXCEPT !.origins = With(@, dst, origin)]
AliasedOperand(fn, s, st) ==
    WithOrigin(AliasOperand(s, st.dst, st.src), st.dst, OperandOrigin(fn, s, st.src))

\* The destination has been cleared of what was known of it.
Assign(fn, s, st) ==
    CASE st.op = "ref" ->
            WithOrigin([s EXCEPT !.aliases = With(@, st.dst, ResolveAlias(s, st.src.place))],
                       st.dst, Origin("RefOfPlace", RootKey(fn, s, st.src.place.local)))
      [] st.op = "use" -> AliasedOperand(fn, TransferGuard(s, st.dst, st.src), st)
      [] st.op = "cast" -> AliasedOperand(fn, s, st)
      [] st.op \in {"aggregate", "closure"} ->
            WithOrigin(s, st.dst, Origin("AggregateTemp", NoRoot))
      [] st.op = "other" -> WithOrigin(s, st.dst, Unknown)
      [] st.op = "storage_dead" -> s

ApplyStatement(fn, s, st) ==
    IF st.op = "into_field" THEN s          \* the destination is not a plain local
    ELSE Assign(fn, Release(s, st.dst), st)

AfterStatements(fn, s, block) ==
    FoldLeft(LAMBDA t, st : ApplyStatement(fn, t, st), s, block.stmts)

-----------------------------------------------------------------------------
(* Calls. *)

Methods(primitive) ==
    CASE primitive \in {"SpinLock", "Mutex"} -> {"lock", "try_lock"}
      [] primitive \in {"RwLock", "RwMutex"} -> {"read", "write", "try_read", "try_write"}
      [] OTHER -> {}

GuardBehavior(recv, method) ==
    CASE recv.primitive \in {"Mutex", "RwMutex"} -> "Sleeping"
      [] recv.primitive = "RwLock" /\ recv.guardian = "WriteIrqDisabled" /\ method = "read" ->
            "PreemptDisabled"
      [] OTHER -> recv.guardian

LockOf(fn, s, recv, place, method) ==
    [class |-> ClassKey(fn, s, place), primitive |-> recv.primitive,
     acquire |-> method, behavior |-> GuardBehavior(recv, method)]

Acquire(dest, lock) == [kind |-> "Acquire", dest |-> dest, lock |-> lock]

\* A helper that returns exactly one lock, with its argument bound, acquires it.
ReturnedLock(fn, s, callee, term, summaries) ==
    LET locks == Get(summaries, callee, {})
    IN  IF Cardinality(locks) # 1 THEN {}
        ELSE UNION {Rebound(lock, ArgBindings(fn, s, term.args)) : lock \in locks}

PlainCallEffect(fn, s, term, method, receiver) ==
    CASE method \in {"disable_irq", "deref"} ->
            [kind |-> "Alias", dest |-> term.dest.local, source |-> receiver]
      [] method \in Methods(term.recv.primitive) \ {"try_lock", "try_read", "try_write"} ->
            Acquire(term.dest.local, LockOf(fn, s, term.recv, receiver, method))
      [] OTHER -> NoEffect

MethodEffect(fn, s, term, method, returned, local) ==
    CASE method = "drop" ->
            IF \E p \in local : IsLocal(p)
            THEN [kind |-> "Release", local |-> term.args[1].place.local] ELSE NoEffect
      [] method # "drop" /\ IsLocal(term.dest) /\ returned # {} ->
            Acquire(term.dest.local, CHOOSE lock \in returned : TRUE)
      [] method # "drop" /\ IsLocal(term.dest) /\ returned = {} /\ local # {} ->
            PlainCallEffect(fn, s, term, method, ResolveAlias(s, term.args[1].place))
      [] OTHER -> NoEffect

\* The place the first argument is read from, if there is one.
Receiver(term) ==
    {term.args[i].place : i \in {j \in {1} \cap DOMAIN term.args : IsPlace(term.args[j])}}

CallEffect(fn, s, term, summaries) ==
    IF term.kind # "call" THEN NoEffect
    ELSE CHOOSE e \in
           IF CalledFn(fn, term) = {} THEN {NoEffect}
           ELSE {MethodEffect(fn, s, term, method, ReturnedLock(fn, s, method, term, summaries),
                              Receiver(term)) : method \in CalledFn(fn, term)} : TRUE

ApplyEffect(s, e) ==
    RefreshIrq(
      CASE e.kind = "Alias" ->
              [s EXCEPT !.aliases = With(@, e.dest, ResolveAlias(s, e.source)),
                        !.guards = Without(@, e.dest), !.origins = Without(@, e.dest)]
        [] e.kind = "Acquire" ->
              [s EXCEPT !.guards = With(@, e.dest, e.lock),
                        !.aliases = Without(@, e.dest), !.origins = Without(@, e.dest)]
        [] e.kind = "Release" -> Release(s, e.local))

AfterEffect(s, e, term) ==
    CASE e # NoEffect -> ApplyEffect(s, e)
      [] e = NoEffect /\ term.kind = "drop" /\ IsLocal(term.place) -> Release(s, term.place.local)
      [] OTHER -> s

AfterTerminator(fn, s, term, summaries) ==
    AfterEffect(s, CallEffect(fn, s, term, summaries), term)

AfterBlock(fn, s, block, summaries) ==
    AfterTerminator(fn, AfterStatements(fn, s, block), block.term, summaries)

-----------------------------------------------------------------------------
(* What the analysis of a body reports: BodyAnalysis. *)

SharedRead(lock) == lock.primitive \in {"RwLock", "RwMutex"} /\ lock.acquire = "read"
DeadlockRelevant(from, to) == ~(SharedRead(from) /\ SharedRead(to))

UsageBits(irq) ==
    {IF irq.hard THEN "hardirq_enabled" ELSE "hardirq_disabled",
     IF irq.soft THEN "softirq_enabled" ELSE "softirq_disabled"}
    \cup (IF irq.hard_depth > 0 THEN {"hardirq"} ELSE {})
    \cup (IF irq.soft_depth > 0 THEN {"softirq"} ELSE {})

\* A usage bit is kept with the first site that set it.
RecordUsage(usage, lock, irq, location) ==
    With(usage, lock,
         Over(Get(usage, lock, <<>>),
              [b \in UsageBits(irq) |-> [context |-> CurrentContext(irq), location |-> location]]))

MergeUsage(u, v) ==
    [lock \in DOMAIN u \cup DOMAIN v |-> Over(Get(u, lock, <<>>), Get(v, lock, <<>>))]

NoFacts == [events |-> <<>>, edges |-> {}, usage |-> <<>>, entry_locks |-> {},
            return_locks |-> {}, callsites |-> <<>>]

Event(kind, irq, lock, local, location) ==
    [kind |-> kind, context |-> CurrentContext(irq), lock |-> lock, local |-> local,
     location |-> location]

Held(s) == {s.guards[l] : l \in DOMAIN s.guards}

\* mutant: edges labelled with the context before the acquisition
EmitAcquireInOldContext(facts, s, e, location) ==
    LET irq == s.irq
    IN  [facts EXCEPT
           !.edges = @ \cup {[context |-> CurrentContext(irq), from |-> held, to |-> e.lock,
                              location |-> location] :
                                held \in {h \in Held(s) : DeadlockRelevant(h, e.lock)}},
           !.usage = RecordUsage(@, e.lock, irq, location),
           !.entry_locks = IF DOMAIN s.guards = {} THEN @ \cup {e.lock} ELSE @]

EmitAcquire(facts, s, e, location) ==
    LET irq == ForAcquire(s.irq, e.lock)
    IN  [facts EXCEPT
           !.events = Append(@, Event("acquire", irq, e.lock, e.dest, location)),
           !.edges = @ \cup {[context |-> CurrentContext(irq), from |-> held, to |-> e.lock,
                              location |-> location] :
                                held \in {h \in Held(s) : DeadlockRelevant(h, e.lock)}},
           !.usage = RecordUsage(@, e.lock, irq, location),
           !.entry_locks = IF DOMAIN s.guards = {} THEN @ \cup {e.lock} ELSE @]

EmitRelease(facts, s, local, location) ==
    IF local \notin DOMAIN s.guards THEN facts
    ELSE [facts EXCEPT !.events =
            Append(@, Event("release", s.irq, s.guards[local], local, location))]

\* A call of one of the crate's functions, or of a callable argument.
CallSites(fn, crate, s, term, location) ==
    IF term.kind # "call" THEN {}
    ELSE {[target |-> t, dest |-> term.dest,
           bindings |-> ArgBindings(fn, s, term.args),
           callables |-> [i \in {j \in DOMAIN term.args : CalledTarget(fn, term.args[j]) # {}} |->
                            CHOOSE u \in CalledTarget(fn, term.args[i]) : TRUE],
           held |-> Held(s), context |-> CurrentContext(s.irq), irq |-> s.irq,
           location |-> location] :
             t \in {u \in CalledTarget(fn, term.func) : u.kind = "Direct" => u.fn \in crate}}

EmitEffect(facts, s, e, term, b) ==
    CASE e.kind = "Acquire" -> EmitAcquire(facts, s, e, b)
      [] e.kind = "Release" -> EmitRelease(facts, s, e.local, b)
      [] e = NoEffect /\ term.kind = "drop" /\ IsLocal(term.place) ->
            EmitRelease(facts, s, term.place.local, b)
      [] e = NoEffect /\ term.kind = "return" ->
            [facts EXCEPT !.return_locks = @ \cup Held(s)]
      [] OTHER -> facts

EmitTerminator(fn, crate, facts, s, term, b, summaries) ==
    EmitEffect([facts EXCEPT !.callsites = @ \o SetToSeq(CallSites(fn, crate, s, term, b))],
               s, CallEffect(fn, s, term, summaries), term, b)

\* One block of the reporting pass of analyze_body.
EmitBlock(fn, crate, facts, in, b, summaries) ==
    EmitTerminator(fn, crate, facts, AfterStatements(fn, in, fn.blocks[b]),
                   fn.blocks[b].term, b, summaries)
=============================================================================
