------------------------- MODULE LockdepBody_Proofs --------------------------
(***************************************************************************)
(* The solver of compute_block_states, for every body and context: the     *)
(* interrupt flags of a block state follow its guards, a later visit of a  *)
(* block only takes facts from its state, what it ends with is a solution  *)
(* of its equations, no execution reaches a block without a state, and one *)
(* that comes through no merge acquires nothing in an order not reported.  *)
(***************************************************************************)
EXTENDS LockdepBody, FiniteSetTheorems, SequenceTheorems, TLAPS

IsMap(f) == f = [x \in DOMAIN f |-> f[x]]

\* A state as every transfer function expects it.
Shaped(s) ==
    /\ DOMAIN s = {"aliases", "guards", "irq_locals", "origins", "irq"}
    /\ DOMAIN s.irq = {"base", "base_hard", "base_soft", "hard_depth", "soft_depth",
                       "hard", "soft"}
    /\ IsMap(s.aliases) /\ IsMap(s.guards) /\ IsMap(s.origins)

\* What a state keeps of the context the body is analysed in.
FromBase(s, c) ==
    /\ s.irq.base_hard = FromContext(c).hard
    /\ s.irq.base_soft = FromContext(c).soft

Follows(s) ==
    /\ s.irq.hard = (s.irq.base_hard /\ ~Masked(s))
    /\ s.irq.soft = (s.irq.base_soft /\ ~Masked(s))

Good(s, c) == Shaped(s) /\ FromBase(s, c) /\ Follows(s) /\ IsMap(s) /\ IsMap(s.irq)

-----------------------------------------------------------------------------
(* Maps. *)

LEMMA WithIsMap ==
    ASSUME NEW f, NEW x, NEW v
    PROVE  IsMap(With(f, x, v))
BY DEF IsMap, With

LEMMA WithoutIsMap ==
    ASSUME NEW f, NEW x
    PROVE  IsMap(Without(f, x))
BY DEF IsMap, Without, Restrict

LEMMA AgreedIsMap ==
    ASSUME NEW f, NEW g
    PROVE  IsMap(Agreed(f, g))
BY DEF IsMap, Agreed, Restrict

-----------------------------------------------------------------------------
(* A refresh makes the flags follow the guards and changes nothing else; what *)
(* changes neither the guards nor the flags needs none.                       *)

LEMMA RefreshFields ==
    ASSUME NEW s, Shaped(s)
    PROVE  LET r == RefreshIrq(s)
           IN  /\ DOMAIN r = DOMAIN s /\ DOMAIN r.irq = DOMAIN s.irq
               /\ r.aliases = s.aliases /\ r.guards = s.guards
               /\ r.irq_locals = s.irq_locals /\ r.origins = s.origins
               /\ r.irq.base_hard = s.irq.base_hard /\ r.irq.base_soft = s.irq.base_soft
               /\ r.irq.hard = (s.irq.base_hard /\ ~Masked(s))
               /\ r.irq.soft = (s.irq.base_soft /\ ~Masked(s))
<1> DEFINE m == Masked(s)
<1> HIDE DEF m
<1>1. LET r == SetMasked(s, m)
      IN  /\ DOMAIN r = DOMAIN s /\ DOMAIN r.irq = DOMAIN s.irq
          /\ r.aliases = s.aliases /\ r.guards = s.guards
          /\ r.irq_locals = s.irq_locals /\ r.origins = s.origins
          /\ r.irq.base_hard = s.irq.base_hard /\ r.irq.base_soft = s.irq.base_soft
          /\ r.irq.hard = (s.irq.base_hard /\ ~m)
          /\ r.irq.soft = (s.irq.base_soft /\ ~m)
  BY DEF SetMasked, Shaped
<1> QED
  BY <1>1, Zenon DEF m, RefreshIrq

LEMMA MaskedByFields ==
    ASSUME NEW s, NEW t, s.guards = t.guards, s.irq_locals = t.irq_locals
    PROVE  Masked(s) = Masked(t)
BY Zenon DEF Masked

LEMMA RefreshIsMap ==
    ASSUME NEW s, Shaped(s)
    PROVE  IsMap(RefreshIrq(s)) /\ IsMap(RefreshIrq(s).irq)
<1> DEFINE m == Masked(s)
           r == SetMasked(s, m)
<1> HIDE DEF m
<1>1. IsMap(r) /\ IsMap(r.irq)
  BY DEF SetMasked, Shaped, IsMap
<1> QED
  BY <1>1, Zenon DEF m, RefreshIrq

LEMMA RefreshIsGood ==
    ASSUME NEW s, NEW c, Shaped(s), FromBase(s, c)
    PROVE  Good(RefreshIrq(s), c)
<1> DEFINE r == RefreshIrq(s)
<1>1. /\ DOMAIN r = DOMAIN s /\ DOMAIN r.irq = DOMAIN s.irq
      /\ r.aliases = s.aliases /\ r.guards = s.guards
      /\ r.irq_locals = s.irq_locals /\ r.origins = s.origins
      /\ r.irq.base_hard = s.irq.base_hard /\ r.irq.base_soft = s.irq.base_soft
      /\ r.irq.hard = (s.irq.base_hard /\ ~Masked(s))
      /\ r.irq.soft = (s.irq.base_soft /\ ~Masked(s))
  BY RefreshFields
<1> HIDE DEF r
<1>2. Masked(r) = Masked(s)
  BY <1>1, MaskedByFields
<1>3. Shaped(r)
  BY <1>1, Zenon DEF Shaped
<1>4. FromBase(r, c)
  BY <1>1, Zenon DEF FromBase
<1>5. Follows(r)
  BY <1>1, <1>2, Zenon DEF Follows
<1>6. IsMap(r) /\ IsMap(r.irq)
  BY RefreshIsMap DEF r
<1> QED
  BY <1>3, <1>4, <1>5, <1>6, Zenon DEF Good, r

LEMMA AliasesAreFree ==
    ASSUME NEW s, NEW c, Good(s, c), NEW f, IsMap(f)
    PROVE  Good([s EXCEPT !.aliases = f], c)
<1> DEFINE r == [s EXCEPT !.aliases = f]
<1>1. DOMAIN s = {"aliases", "guards", "irq_locals", "origins", "irq"}
  BY Zenon DEF Good, Shaped
<1>2. /\ DOMAIN r = DOMAIN s /\ r.irq = s.irq /\ r.aliases = f
      /\ r.guards = s.guards /\ r.irq_locals = s.irq_locals /\ r.origins = s.origins
  BY <1>1
<1>5. IsMap(r) /\ IsMap(r.irq)
  BY <1>2 DEF IsMap, Good
<1> HIDE DEF r
<1>3. Masked(r) = Masked(s)
  BY <1>2, MaskedByFields
<1>4. Shaped(r) /\ FromBase(r, c) /\ Follows(r)
  BY <1>2, <1>3, Zenon DEF Good, Shaped, FromBase, Follows
<1> QED
  BY <1>4, <1>5, Zenon DEF Good, r

LEMMA OriginsAreFree ==
    ASSUME NEW s, NEW c, Good(s, c), NEW f, IsMap(f)
    PROVE  Good([s EXCEPT !.origins = f], c)
<1> DEFINE r == [s EXCEPT !.origins = f]
<1>1. DOMAIN s = {"aliases", "guards", "irq_locals", "origins", "irq"}
  BY Zenon DEF Good, Shaped
<1>2. /\ DOMAIN r = DOMAIN s /\ r.irq = s.irq /\ r.aliases = s.aliases
      /\ r.guards = s.guards /\ r.irq_locals = s.irq_locals /\ r.origins = f
  BY <1>1
<1>5. IsMap(r) /\ IsMap(r.irq)
  BY <1>2 DEF IsMap, Good
<1> HIDE DEF r
<1>3. Masked(r) = Masked(s)
  BY <1>2, MaskedByFields
<1>4. Shaped(r) /\ FromBase(r, c) /\ Follows(r)
  BY <1>2, <1>3, Zenon DEF Good, Shaped, FromBase, Follows
<1> QED
  BY <1>4, <1>5, Zenon DEF Good, r

-----------------------------------------------------------------------------
(* The transfer functions. *)

\* The state before the refresh.
LEMMA KeptShape ==
    ASSUME NEW s, NEW c, Shaped(s), FromBase(s, c), NEW r,
           DOMAIN r = DOMAIN s, r.irq = s.irq,
           IsMap(r.aliases), IsMap(r.guards), IsMap(r.origins)
    PROVE  Shaped(r) /\ FromBase(r, c)
BY Zenon DEF Shaped, FromBase

LEMMA ReleaseIsGood ==
    ASSUME NEW s, NEW c, Shaped(s), FromBase(s, c), NEW l
    PROVE  Good(Release(s, l), c)
<1> DEFINE r == [s EXCEPT !.aliases = Without(@, l), !.guards = Without(@, l),
                          !.irq_locals = @ \ {l}, !.origins = Without(@, l)]
<1>1. DOMAIN s = {"aliases", "guards", "irq_locals", "origins", "irq"}
  BY Zenon DEF Shaped
<1>2. /\ DOMAIN r = DOMAIN s /\ r.irq = s.irq /\ r.aliases = Without(s.aliases, l)
      /\ r.guards = Without(s.guards, l) /\ r.origins = Without(s.origins, l)
  BY <1>1
<1> HIDE DEF r
<1>3. IsMap(r.aliases) /\ IsMap(r.guards) /\ IsMap(r.origins)
  BY <1>2, WithoutIsMap
<1>4. Shaped(r) /\ FromBase(r, c)
  BY <1>2, <1>3, KeptShape
<1>5. Good(RefreshIrq(r), c)
  BY <1>4, RefreshIsGood
<1> QED
  BY <1>5, Zenon DEF Release, r

LEMMA TransferIsGood ==
    ASSUME NEW s, NEW c, Good(s, c), NEW dst, NEW operand
    PROVE  Good(TransferGuard(s, dst, operand), c)
<1> DEFINE src == operand.place.local
           g == [s EXCEPT !.guards = With(Without(@, src), dst, s.guards[src])]
           i == [s EXCEPT !.irq_locals = (@ \ {src}) \cup {dst}]
           moved == CASE src \in DOMAIN s.guards -> g
                      [] src \in s.irq_locals \ DOMAIN s.guards -> i
                      [] OTHER -> s
<1>1. Shaped(s) /\ FromBase(s, c)
  BY Zenon DEF Good
<1>2. DOMAIN s = {"aliases", "guards", "irq_locals", "origins", "irq"}
      /\ IsMap(s.aliases) /\ IsMap(s.guards) /\ IsMap(s.origins)
  BY <1>1, Zenon DEF Shaped
<1>3. Shaped(g) /\ FromBase(g, c)
  <2>1. /\ DOMAIN g = DOMAIN s /\ g.irq = s.irq /\ g.aliases = s.aliases
        /\ g.guards = With(Without(s.guards, src), dst, s.guards[src])
        /\ g.origins = s.origins
    BY <1>2
  <2> HIDE DEF g
  <2>2. IsMap(g.guards)
    BY <2>1, WithIsMap
  <2> QED
    BY <1>1, <1>2, <2>1, <2>2, KeptShape
<1>4. Shaped(i) /\ FromBase(i, c)
  <2>1. /\ DOMAIN i = DOMAIN s /\ i.irq = s.irq /\ i.aliases = s.aliases
        /\ i.guards = s.guards /\ i.origins = s.origins
    BY <1>2
  <2> HIDE DEF i
  <2> QED
    BY <1>1, <1>2, <2>1, KeptShape
<1>5. TransferGuard(s, dst, operand) =
        IF operand.kind # "move" \/ ~IsLocal(operand.place) THEN s ELSE RefreshIrq(moved)
  BY Zenon DEF TransferGuard
<1>6. moved \in {g, i, s}
  <2> HIDE DEF g, i
  <2> QED
    OBVIOUS
<1> HIDE DEF moved, g, i
<1>7. Shaped(moved) /\ FromBase(moved, c)
  BY <1>1, <1>3, <1>4, <1>6
<1>8. Good(RefreshIrq(moved), c)
  BY <1>7, RefreshIsGood
<1> QED
  BY <1>5, <1>8, Zenon

LEMMA WithOriginIsGood ==
    ASSUME NEW s, NEW c, Good(s, c), NEW dst, NEW origin
    PROVE  Good(WithOrigin(s, dst, origin), c)
<1>1. IsMap(With(s.origins, dst, origin))
  BY WithIsMap
<1> QED
  BY <1>1, OriginsAreFree DEF WithOrigin

LEMMA AliasedIsGood ==
    ASSUME NEW fun, NEW s, NEW c, Good(s, c), NEW st
    PROVE  Good(AliasedOperand(fun, s, st), c)
<1>1. Good(AliasOperand(s, st.dst, st.src), c)
  <2>1. IsMap(With(s.aliases, st.dst, ResolveAlias(s, st.src.place)))
    BY WithIsMap
  <2>2. Good([s EXCEPT !.aliases = With(s.aliases, st.dst, ResolveAlias(s, st.src.place))], c)
    BY <2>1, AliasesAreFree
  <2> QED
    BY <2>2, Zenon DEF AliasOperand
<1> QED
  BY <1>1, WithOriginIsGood DEF AliasedOperand

LEMMA AssignIsGood ==
    ASSUME NEW fun, NEW s, NEW c, Good(s, c), NEW st,
           st.op \in StatementOps \ {"into_field"}
    PROVE  Good(Assign(fun, s, st), c)
<1>1. CASE st.op = "ref"
  <2> DEFINE r == [s EXCEPT !.aliases = With(@, st.dst, ResolveAlias(s, st.src.place))]
  <2>1. IsMap(With(s.aliases, st.dst, ResolveAlias(s, st.src.place)))
    BY WithIsMap
  <2>2. Good(r, c)
    BY <2>1, AliasesAreFree
  <2> HIDE DEF r
  <2>3. Good(WithOrigin(r, st.dst, Origin("RefOfPlace", RootKey(fun, s, st.src.place.local))), c)
    BY <2>2, WithOriginIsGood
  <2> QED
    BY <1>1, <2>3, Zenon DEF Assign, r
<1>2. CASE st.op = "use"
  <2>1. Good(AliasedOperand(fun, TransferGuard(s, st.dst, st.src), st), c)
    BY TransferIsGood, AliasedIsGood
  <2>2. Assign(fun, s, st) = AliasedOperand(fun, TransferGuard(s, st.dst, st.src), st)
    BY <1>2 DEF Assign
  <2> QED
    BY <2>1, <2>2, Zenon
<1>3. CASE st.op = "cast"
  <2>1. Assign(fun, s, st) = AliasedOperand(fun, s, st)
    BY <1>3 DEF Assign
  <2> QED
    BY <2>1, AliasedIsGood
<1>4. CASE st.op \in {"aggregate", "closure"}
  <2>1. Assign(fun, s, st) = WithOrigin(s, st.dst, Origin("AggregateTemp", NoRoot))
    BY <1>4 DEF Assign
  <2> QED
    BY <2>1, WithOriginIsGood
<1>5. CASE st.op = "other"
  <2>1. Assign(fun, s, st) = WithOrigin(s, st.dst, Unknown)
    BY <1>5 DEF Assign
  <2> QED
    BY <2>1, WithOriginIsGood
<1>6. CASE st.op = "storage_dead"
  <2>1. Assign(fun, s, st) = s
    BY <1>6 DEF Assign
  <2> QED
    BY <2>1
<1> QED
  BY <1>1, <1>2, <1>3, <1>4, <1>5, <1>6 DEF StatementOps

LEMMA StatementIsGood ==
    ASSUME NEW fun, NEW s, NEW c, Good(s, c), NEW st, st.op \in StatementOps
    PROVE  Good(ApplyStatement(fun, s, st), c)
<1>1. Good(Release(s, st.dst), c)
  BY ReleaseIsGood DEF Good
<1>2. CASE st.op = "into_field"
  BY <1>2 DEF ApplyStatement
<1>3. CASE st.op # "into_field"
  <2>1. Good(Assign(fun, Release(s, st.dst), st), c)
    BY <1>1, <1>3, AssignIsGood
  <2> QED
    BY <1>3, <2>1, Zenon DEF ApplyStatement
<1> QED
  BY <1>2, <1>3

-----------------------------------------------------------------------------
(* Calls and terminators. *)

LEMMA PlainEffects ==
    ASSUME NEW fun, NEW s, NEW term, NEW method, NEW receiver
    PROVE  LET e == PlainCallEffect(fun, s, term, method, receiver)
           IN  e = NoEffect \/ e.kind \in {"Alias", "Acquire", "Release"}
BY DEF PlainCallEffect, Acquire

LEMMA MethodEffects ==
    ASSUME NEW fun, NEW s, NEW term, NEW method, NEW returned, NEW local
    PROVE  LET e == MethodEffect(fun, s, term, method, returned, local)
           IN  e = NoEffect \/ e.kind \in {"Alias", "Acquire", "Release"}
<1> DEFINE e == MethodEffect(fun, s, term, method, returned, local)
           p == PlainCallEffect(fun, s, term, method, ResolveAlias(s, term.args[1].place))
           rel == [kind |-> "Release", local |-> term.args[1].place.local]
           acq == Acquire(term.dest.local, CHOOSE lock \in returned : TRUE)
<1>1. p = NoEffect \/ p.kind \in {"Alias", "Acquire", "Release"}
  BY PlainEffects
<1>2. rel.kind = "Release" /\ acq.kind = "Acquire"
  BY DEF Acquire
<1>3. e \in {rel, acq, p, NoEffect}
  <2>1. e = CASE method = "drop" -> IF \E q \in local : IsLocal(q) THEN rel ELSE NoEffect
              [] method # "drop" /\ IsLocal(term.dest) /\ returned # {} -> acq
              [] method # "drop" /\ IsLocal(term.dest) /\ returned = {} /\ local # {} -> p
              [] OTHER -> NoEffect
    BY Zenon DEF MethodEffect
  <2> HIDE DEF e, p, rel, acq
  <2> QED
    BY <2>1
<1> HIDE DEF e, p, rel, acq
<1>4. e = NoEffect \/ e.kind \in {"Alias", "Acquire", "Release"}
  BY <1>1, <1>2, <1>3
<1> QED
  BY <1>4, Zenon DEF e

LEMMA CallEffects ==
    ASSUME NEW fun, NEW s, NEW term, NEW summaries
    PROVE  LET e == CallEffect(fun, s, term, summaries)
           IN  e = NoEffect \/ e.kind \in {"Alias", "Acquire", "Release"}
<1> DEFINE m(method) == MethodEffect(fun, s, term, method,
                            ReturnedLock(fun, s, method, term, summaries), Receiver(term))
           S == IF CalledFn(fun, term) = {} THEN {NoEffect}
                ELSE {m(method) : method \in CalledFn(fun, term)}
           e == CallEffect(fun, s, term, summaries)
<1>1. \A x \in S : x = NoEffect \/ x.kind \in {"Alias", "Acquire", "Release"}
  <2>1. \A method : m(method) = NoEffect
                    \/ m(method).kind \in {"Alias", "Acquire", "Release"}
    BY MethodEffects
  <2> HIDE DEF m
  <2> QED
    BY <2>1
<1>2. S # {}
  <2> HIDE DEF m
  <2> QED
    OBVIOUS
<1>3. e = IF term.kind # "call" THEN NoEffect ELSE CHOOSE x \in S : TRUE
  BY Zenon DEF CallEffect
<1> HIDE DEF S, e
<1>4. e = NoEffect \/ e \in S
  BY <1>2, <1>3
<1>5. e = NoEffect \/ e.kind \in {"Alias", "Acquire", "Release"}
  BY <1>1, <1>4
<1> QED
  BY <1>5, Zenon DEF e

LEMMA ApplyIsGood ==
    ASSUME NEW s, NEW c, Good(s, c), NEW e, e.kind \in {"Alias", "Acquire", "Release"}
    PROVE  Good(ApplyEffect(s, e), c)
<1> DEFINE a == [s EXCEPT !.aliases = With(@, e.dest, ResolveAlias(s, e.source)),
                          !.guards = Without(@, e.dest), !.origins = Without(@, e.dest)]
           q == [s EXCEPT !.guards = With(@, e.dest, e.lock),
                          !.aliases = Without(@, e.dest), !.origins = Without(@, e.dest)]
           d == Release(s, e.local)
           t == CASE e.kind = "Alias" -> a [] e.kind = "Acquire" -> q [] e.kind = "Release" -> d
<1>1. Shaped(s) /\ FromBase(s, c)
  BY Zenon DEF Good
<1>2. DOMAIN s = {"aliases", "guards", "irq_locals", "origins", "irq"}
      /\ IsMap(s.aliases) /\ IsMap(s.guards) /\ IsMap(s.origins)
  BY <1>1, Zenon DEF Shaped
<1>3. Shaped(a) /\ FromBase(a, c)
  <2>1. /\ DOMAIN a = DOMAIN s /\ a.irq = s.irq
        /\ a.aliases = With(s.aliases, e.dest, ResolveAlias(s, e.source))
        /\ a.guards = Without(s.guards, e.dest)
        /\ a.origins = Without(s.origins, e.dest)
    BY <1>2
  <2> HIDE DEF a
  <2>2. IsMap(a.aliases) /\ IsMap(a.guards) /\ IsMap(a.origins)
    BY <2>1, WithIsMap, WithoutIsMap
  <2> QED
    BY <1>1, <2>1, <2>2, KeptShape
<1>4. Shaped(q) /\ FromBase(q, c)
  <2>1. /\ DOMAIN q = DOMAIN s /\ q.irq = s.irq
        /\ q.aliases = Without(s.aliases, e.dest)
        /\ q.guards = With(s.guards, e.dest, e.lock)
        /\ q.origins = Without(s.origins, e.dest)
    BY <1>2
  <2> HIDE DEF q
  <2>2. IsMap(q.aliases) /\ IsMap(q.guards) /\ IsMap(q.origins)
    BY <2>1, WithIsMap, WithoutIsMap
  <2> QED
    BY <1>1, <2>1, <2>2, KeptShape
<1>5. Shaped(d) /\ FromBase(d, c)
  BY <1>1, ReleaseIsGood, Zenon DEF Good
<1>6. ApplyEffect(s, e) = RefreshIrq(t)
  BY Zenon DEF ApplyEffect
<1>7. t \in {a, q, d}
  <2> HIDE DEF a, q, d
  <2> QED
    OBVIOUS
<1> HIDE DEF t, a, q, d
<1>8. Shaped(t) /\ FromBase(t, c)
  BY <1>3, <1>4, <1>5, <1>7
<1> QED
  BY <1>6, <1>8, RefreshIsGood

LEMMA TerminatorIsGood ==
    ASSUME NEW fun, NEW s, NEW c, Good(s, c), NEW term, NEW summaries
    PROVE  Good(AfterTerminator(fun, s, term, summaries), c)
<1> DEFINE e == CallEffect(fun, s, term, summaries)
<1>1. e = NoEffect \/ e.kind \in {"Alias", "Acquire", "Release"}
  BY CallEffects
<1>2. AfterTerminator(fun, s, term, summaries) = AfterEffect(s, e, term)
  BY Zenon DEF AfterTerminator
<1> HIDE DEF e
<1>3. Good(Release(s, term.place.local), c)
  BY ReleaseIsGood, Zenon DEF Good
<1>4. e # NoEffect => Good(ApplyEffect(s, e), c)
  BY <1>1, ApplyIsGood
<1>5. Good(AfterEffect(s, e, term), c)
  <2>1. CASE e # NoEffect
    <3>1. AfterEffect(s, e, term) = ApplyEffect(s, e)
      BY <2>1 DEF AfterEffect
    <3> QED
      BY <1>4, <2>1, <3>1
  <2>2. CASE e = NoEffect /\ term.kind = "drop" /\ IsLocal(term.place)
    <3>1. AfterEffect(s, e, term) = Release(s, term.place.local)
      BY <2>2 DEF AfterEffect
    <3> QED
      BY <1>3, <3>1
  <2>3. CASE e = NoEffect /\ ~(term.kind = "drop" /\ IsLocal(term.place))
    <3>1. AfterEffect(s, e, term) = s
      BY <2>3 DEF AfterEffect
    <3> QED
      BY <3>1
  <2> QED
    BY <2>1, <2>2, <2>3
<1> QED
  BY <1>2, <1>5

-----------------------------------------------------------------------------
(* The statements of a block. *)

Statement(fun, t, st) == ApplyStatement(fun, t, st)
GoodSoFar(fun, i, t) == Good(t, base)
Folded == INSTANCE FoldInduction WITH Op <- Statement, P <- GoodSoFar

LEMMA StatementsAreGood ==
    ASSUME NEW s, Good(s, base), NEW blk,
           blk.stmts \in Seq({st \in ToSet(blk.stmts) : st.op \in StatementOps})
    PROVE  Good(AfterStatements(fn, s, blk), base)
<1> DEFINE D == {st \in ToSet(blk.stmts) : st.op \in StatementOps}
           stmts == blk.stmts
<1>1. \A st \in D : st.op \in StatementOps
  OBVIOUS
<1> HIDE DEF D
<1>2. \A i \in 0..Len(stmts) : \A t :
         i < Len(stmts) /\ GoodSoFar(fn, i, t)
         => GoodSoFar(fn, i + 1, Statement(fn, t, stmts[i + 1]))
  <2> SUFFICES ASSUME NEW i \in 0..Len(stmts), NEW t, i < Len(stmts), Good(t, base)
               PROVE  Good(ApplyStatement(fn, t, stmts[i + 1]), base)
    BY Zenon DEF GoodSoFar, Statement
  <2>1. stmts \in Seq(D)
    BY Zenon DEF D
  <2>2. stmts[i + 1] \in D
    BY <2>1, LenProperties
  <2>3. stmts[i + 1].op \in StatementOps
    BY <1>1, <2>2
  <2> QED
    BY <2>3, StatementIsGood
<1>3. GoodSoFar(fn, 0, s)
  BY Zenon DEF GoodSoFar
<1>4. GoodSoFar(fn, Len(stmts), Folded!Loop(fn, s, stmts))
  <2>1. stmts \in Seq(D)
    BY Zenon DEF D
  <2> QED
    BY <1>2, <1>3, <2>1, Folded!FoldLeftKeeps
<1>5. AfterStatements(fn, s, blk) = Folded!Loop(fn, s, stmts)
  BY DEF AfterStatements, Statement, FoldLeft, MapThenFoldSet,
         Max, Folded!Loop, Folded!FoldLeft, Folded!MapThenFoldSet, Folded!Max
<1> QED
  BY <1>4, <1>5, Zenon DEF GoodSoFar

-----------------------------------------------------------------------------
(* States that say at most what another says. *)

Part(f, g) == f = Restrict(g, DOMAIN f \cap DOMAIN g)

LEMMA PartOfPart ==
    ASSUME NEW f, NEW g, Part(f, g)
    PROVE  DOMAIN f \subseteq DOMAIN g /\ \A x \in DOMAIN f : f[x] = g[x]
BY DEF Part, Restrict

LEMMA PartByValues ==
    ASSUME NEW f, NEW g, IsMap(f), DOMAIN f \subseteq DOMAIN g,
           \A x \in DOMAIN f : f[x] = g[x]
    PROVE  Part(f, g)
<1>1. Restrict(g, DOMAIN f \cap DOMAIN g) = [x \in DOMAIN f |-> f[x]]
  BY DEF Restrict
<1> QED
  BY <1>1, Zenon DEF Part, IsMap

LEMMA PartReflexive == ASSUME NEW f, IsMap(f) PROVE Part(f, f)
BY PartByValues

LEMMA PartIsMap == ASSUME NEW f, NEW g, Part(f, g) PROVE IsMap(f)
BY DEF Part, Restrict, IsMap

LEMMA PartTransitive ==
    ASSUME NEW f, NEW g, NEW h, Part(f, g), Part(g, h)
    PROVE  Part(f, h)
<1>1. DOMAIN f \subseteq DOMAIN g /\ \A x \in DOMAIN f : f[x] = g[x]
  BY PartOfPart
<1>2. DOMAIN g \subseteq DOMAIN h /\ \A x \in DOMAIN g : g[x] = h[x]
  BY PartOfPart
<1>3. IsMap(f)
  BY PartIsMap
<1>4. DOMAIN f \subseteq DOMAIN h /\ \A x \in DOMAIN f : f[x] = h[x]
  BY <1>1, <1>2
<1> QED
  BY <1>3, <1>4, PartByValues

LEMMA AgreedIsPart ==
    ASSUME NEW f, NEW g
    PROVE  Part(Agreed(f, g), f) /\ Part(Agreed(f, g), g)
<1> DEFINE a == Agreed(f, g)
<1>1. /\ DOMAIN a \subseteq DOMAIN f \cap DOMAIN g
      /\ \A x \in DOMAIN a : a[x] = f[x] /\ a[x] = g[x]
  BY DEF Agreed, Restrict
<1>2. IsMap(a)
  BY AgreedIsMap
<1> HIDE DEF a
<1>3. Part(a, f) /\ Part(a, g)
  BY <1>1, <1>2, PartByValues
<1> QED
  BY <1>3 DEF a

\* Everything but the interrupt flags, which follow.
FewerFacts(s, t) ==
    /\ Part(s.guards, t.guards) /\ Part(s.aliases, t.aliases) /\ Part(s.origins, t.origins)
    /\ s.irq_locals \subseteq t.irq_locals

LEMMA MaskedByMore ==
    ASSUME NEW s, NEW t, FewerFacts(s, t), Masked(s)
    PROVE  Masked(t)
<1>1. Part(s.guards, t.guards) /\ s.irq_locals \subseteq t.irq_locals
  BY Zenon DEF FewerFacts
<1>2. \A l \in DOMAIN s.guards : l \in DOMAIN t.guards /\ s.guards[l] = t.guards[l]
  BY <1>1, PartOfPart
<1>3. CASE s.irq_locals # {}
  <2>1. t.irq_locals # {}
    BY <1>1, <1>3
  <2> QED
    BY <2>1, Zenon DEF Masked
<1>4. CASE \E l \in DOMAIN s.guards : DisablesIrq(s.guards[l])
  BY <1>2, <1>4, Zenon DEF Masked
<1> QED
  BY <1>3, <1>4, Zenon DEF Masked

LEMMA WeakerByFacts ==
    ASSUME NEW s, NEW t, NEW c, Good(s, c), Good(t, c), FewerFacts(s, t)
    PROVE  Weaker(s, t)
<1>1. Masked(s) => Masked(t)
  BY MaskedByMore
<1>2. s.irq.hard = (FromContext(c).hard /\ ~Masked(s))
  BY Zenon DEF Good, Follows, FromBase
<1>3. s.irq.soft = (FromContext(c).soft /\ ~Masked(s))
  BY Zenon DEF Good, Follows, FromBase
<1>4. t.irq.hard = (FromContext(c).hard /\ ~Masked(t))
  BY Zenon DEF Good, Follows, FromBase
<1>5. t.irq.soft = (FromContext(c).soft /\ ~Masked(t))
  BY Zenon DEF Good, Follows, FromBase
<1>6. (t.irq.hard => s.irq.hard) /\ (t.irq.soft => s.irq.soft)
  BY <1>1, <1>2, <1>3, <1>4, <1>5, Zenon
<1> QED
  BY <1>6, Zenon DEF Weaker, FewerFacts, Part

LEMMA FactsOfWeaker ==
    ASSUME NEW s, NEW t, Weaker(s, t)
    PROVE  FewerFacts(s, t)
BY Zenon DEF Weaker, FewerFacts, Part

LEMMA WeakerReflexive ==
    ASSUME NEW s, NEW c, Good(s, c)
    PROVE  Weaker(s, s)
<1>1. IsMap(s.guards) /\ IsMap(s.aliases) /\ IsMap(s.origins)
  BY Zenon DEF Good, Shaped
<1>2. FewerFacts(s, s)
  BY <1>1, PartReflexive DEF FewerFacts
<1> QED
  BY <1>2, WeakerByFacts

LEMMA WeakerTransitive ==
    ASSUME NEW s, NEW t, NEW u, Weaker(s, t), Weaker(t, u)
    PROVE  Weaker(s, u)
<1>1. FewerFacts(s, t) /\ FewerFacts(t, u)
  BY FactsOfWeaker
<1>2. /\ Part(s.guards, u.guards) /\ Part(s.aliases, u.aliases)
      /\ Part(s.origins, u.origins)
  BY <1>1, PartTransitive, Zenon DEF FewerFacts
<1>3. s.irq_locals \subseteq u.irq_locals
  BY <1>1, Zenon DEF FewerFacts
<1>4. (u.irq.hard => s.irq.hard) /\ (u.irq.soft => s.irq.soft)
  BY Zenon DEF Weaker
<1> QED
  BY <1>2, <1>3, <1>4, Zenon DEF Weaker, Part

LEMMA JoinIsGood ==
    ASSUME NEW l, NEW r, NEW c, Good(l, c), Good(r, c)
    PROVE  /\ Good(JoinStates(l, r), c)
           /\ Weaker(JoinStates(l, r), l) /\ Weaker(JoinStates(l, r), r)
<1> DEFINE j == [aliases |-> Agreed(l.aliases, r.aliases),
                 guards |-> Agreed(l.guards, r.guards),
                 irq_locals |-> l.irq_locals \cap r.irq_locals,
                 origins |-> Agreed(l.origins, r.origins),
                 irq |-> MergeIrq(l.irq, r.irq)]
           k == RefreshIrq(j)
<1>1. /\ l.irq.base_hard = FromContext(c).hard /\ l.irq.base_soft = FromContext(c).soft
      /\ r.irq.base_hard = FromContext(c).hard /\ r.irq.base_soft = FromContext(c).soft
  BY Zenon DEF Good, FromBase
<1>2. FromContext(c).hard \in BOOLEAN /\ FromContext(c).soft \in BOOLEAN
  BY DEF FromContext
<1>3. /\ DOMAIN j = {"aliases", "guards", "irq_locals", "origins", "irq"}
      /\ j.aliases = Agreed(l.aliases, r.aliases) /\ j.guards = Agreed(l.guards, r.guards)
      /\ j.origins = Agreed(l.origins, r.origins)
      /\ j.irq_locals = l.irq_locals \cap r.irq_locals
      /\ j.irq = MergeIrq(l.irq, r.irq)
  OBVIOUS
<1>4. LET q == MergeIrq(l.irq, r.irq)
      IN  /\ DOMAIN q = {"base", "base_hard", "base_soft", "hard_depth", "soft_depth",
                         "hard", "soft"}
          /\ q.base_hard = (l.irq.base_hard \/ r.irq.base_hard)
          /\ q.base_soft = (l.irq.base_soft \/ r.irq.base_soft)
  BY DEF MergeIrq
<1> HIDE DEF j
<1>5. Shaped(j)
  <2>1. IsMap(j.aliases) /\ IsMap(j.guards) /\ IsMap(j.origins)
    BY <1>3, AgreedIsMap
  <2>2. DOMAIN j.irq = {"base", "base_hard", "base_soft", "hard_depth", "soft_depth",
                        "hard", "soft"}
    BY <1>3, <1>4, Zenon
  <2> QED
    BY <1>3, <2>1, <2>2, Zenon DEF Shaped
<1>6. FromBase(j, c)
  <2>1. j.irq.base_hard = (l.irq.base_hard \/ r.irq.base_hard)
    BY <1>3, <1>4, Zenon
  <2>2. j.irq.base_soft = (l.irq.base_soft \/ r.irq.base_soft)
    BY <1>3, <1>4, Zenon
  <2>3. j.irq.base_hard = FromContext(c).hard /\ j.irq.base_soft = FromContext(c).soft
    BY <1>1, <1>2, <2>1, <2>2
  <2> QED
    BY <2>3, Zenon DEF FromBase
<1>7. Good(k, c)
  BY <1>5, <1>6, RefreshIsGood
<1>8. /\ k.aliases = j.aliases /\ k.guards = j.guards
      /\ k.irq_locals = j.irq_locals /\ k.origins = j.origins
  BY <1>5, RefreshFields
<1>9. JoinStates(l, r) = k
  BY Zenon DEF JoinStates, j, k
<1> HIDE DEF k
<1>10. FewerFacts(k, l) /\ FewerFacts(k, r)
  <2>1. k.irq_locals \subseteq l.irq_locals /\ k.irq_locals \subseteq r.irq_locals
    BY <1>3, <1>8
  <2> QED
    BY <1>3, <1>8, <2>1, AgreedIsPart, Zenon DEF FewerFacts
<1>11. Weaker(k, l) /\ Weaker(k, r)
  BY <1>7, <1>10, WeakerByFacts
<1> QED
  BY <1>7, <1>9, <1>11, Zenon

-----------------------------------------------------------------------------
(* The join of several states. *)

Join(states, s, t) == JoinStates(s, t)
JoinSoFar(states, i, t) ==
    Good(t, base) /\ \A k \in 1 .. i + 1 : Weaker(t, states[k])
Joining == INSTANCE FoldInduction WITH Op <- Join, P <- JoinSoFar

LEMMA SetAsSequence ==
    ASSUME NEW S, IsFiniteSet(S), S # {}
    PROVE  /\ SetToSeq(S) \in Seq(S) /\ SetToSeq(S) # <<>>
           /\ \A s \in S : \E k \in 1 .. Len(SetToSeq(S)) : SetToSeq(S)[k] = s
<1> DEFINE n == Cardinality(S)
           F == {f \in [1..n -> S] : IsInjective(f)}
           q == SetToSeq(S)
<1>1. n \in Nat /\ ExistsBijection(1..n, S)
  BY FS_CardinalityType
<1>2. F # {}
  <2>1. PICK f : f \in Bijection(1..n, S)
    BY <1>1 DEF ExistsBijection
  <2>2. f \in [1..n -> S] /\ IsInjective(f)
    BY <2>1 DEF Bijection, Injection
  <2> QED
    BY <2>2
<1>3. q \in F
  <2>1. q = CHOOSE f \in [1..n -> S] : IsInjective(f)
    BY Zenon DEF SetToSeq
  <2> HIDE DEF q, n
  <2> QED
    BY <1>2, <2>1
<1> HIDE DEF q
<1>4. q \in Injection(1..n, S)
  BY <1>3 DEF Injection
<1>5. q \in Surjection(1..n, S)
  <2>1. Cardinality(1..n) = n
    BY <1>1, FS_Interval
  <2> QED
    BY <1>4, <2>1, FS_Injection
<1>6. q \in [1..n -> S] /\ \A s \in S : \E k \in 1..n : q[k] = s
  BY <1>5 DEF Surjection
<1>7. q \in Seq(S) /\ Len(q) = n
  <2> HIDE DEF n
  <2> QED
    BY <1>1, <1>6
<1>8. q # <<>>
  <2>1. n # 0
    BY <1>1, FS_EmptySet
  <2> HIDE DEF n
  <2> QED
    BY <1>7, <2>1
<1> QED
  BY <1>6, <1>7, <1>8 DEF q

LEMMA JoinManyIsGood ==
    ASSUME NEW S, IsFiniteSet(S), S # {}, \A s \in S : Good(s, base)
    PROVE  /\ Good(JoinMany(SetToSeq(S)), base)
           /\ \A s \in S : Weaker(JoinMany(SetToSeq(S)), s)
<1> DEFINE q == SetToSeq(S)
           h == Head(q)
           t == Tail(q)
           j == JoinMany(q)
<1>1. q \in Seq(S) /\ q # <<>> /\ \A s \in S : \E k \in 1 .. Len(q) : q[k] = s
  BY SetAsSequence
<1> HIDE DEF q
<1>2. h \in S /\ t \in Seq(S) /\ Len(t) = Len(q) - 1 /\ \A i \in 1..Len(t) : t[i] = q[i+1]
  BY <1>1, HeadTailProperties
<1>3. h = q[1]
  BY <1>1
<1>4. j = Joining!Loop(q, h, t)
  BY DEF JoinMany, FoldLeft, MapThenFoldSet, Max, Join,
         Joining!Loop, Joining!FoldLeft, Joining!MapThenFoldSet, Joining!Max
<1> HIDE DEF h, t, j
<1>5. Good(h, base)
  BY <1>2
<1>6. JoinSoFar(q, 0, h)
  <2>1. Weaker(h, h)
    BY <1>5, WeakerReflexive
  <2>2. \A k \in 1..0 + 1 : q[k] = h
    BY <1>3
  <2> QED
    BY <1>5, <2>1, <2>2, Zenon DEF JoinSoFar
<1>7. \A i \in 0..Len(t) : \A acc :
         i < Len(t) /\ JoinSoFar(q, i, acc) => JoinSoFar(q, i + 1, Join(q, acc, t[i + 1]))
  <2> SUFFICES ASSUME NEW i \in 0..Len(t), NEW acc, i < Len(t), JoinSoFar(q, i, acc)
               PROVE  JoinSoFar(q, i + 1, JoinStates(acc, t[i + 1]))
    BY Zenon DEF Join
  <2> DEFINE x == t[i + 1]
             r == JoinStates(acc, x)
  <2>1. Good(acc, base) /\ \A k \in 1..i + 1 : Weaker(acc, q[k])
    BY Zenon DEF JoinSoFar
  <2>2. i + 1 \in 1..Len(t) /\ i \in Nat
    BY <1>2, LenProperties
  <2>3. x \in S /\ x = q[(i + 1) + 1]
    BY <1>2, <2>2, LenProperties
  <2>4. Good(x, base)
    BY <2>3
  <2> HIDE DEF x
  <2>5. Good(r, base) /\ Weaker(r, acc) /\ Weaker(r, x)
    BY <2>1, <2>4, JoinIsGood
  <2> HIDE DEF r
  <2>6. \A k \in 1..i + 1 : Weaker(r, q[k])
    BY <2>1, <2>5, WeakerTransitive
  <2>7. \A k \in 1..(i + 1) + 1 : k \in 1..i + 1 \/ k = (i + 1) + 1
    BY <2>2
  <2>8. \A k \in 1..(i + 1) + 1 : Weaker(r, q[k])
    BY <2>3, <2>5, <2>6, <2>7, Zenon
  <2> QED
    BY <2>5, <2>8, Zenon DEF JoinSoFar, r, x
<1>8. JoinSoFar(q, Len(t), j)
  BY <1>2, <1>4, <1>6, <1>7, Joining!FoldLeftKeeps
<1>9. Good(j, base) /\ \A k \in 1..Len(q) : Weaker(j, q[k])
  <2>1. Good(j, base) /\ \A k \in 1..Len(t) + 1 : Weaker(j, q[k])
    BY <1>8, Zenon DEF JoinSoFar
  <2>2. Len(t) + 1 = Len(q)
    BY <1>1, <1>2, LenProperties
  <2> QED
    BY <2>1, <2>2
<1> QED
  BY <1>1, <1>9, Zenon DEF j, q

-----------------------------------------------------------------------------
(* What leaves a block. *)

StatementFrom(s, t, st) == ApplyStatement(fn, t, st)
UntouchedSoFar(s, i, t) == i = 0 => t = s
Skipped == INSTANCE FoldInduction WITH Op <- StatementFrom, P <- UntouchedSoFar

LEMMA QuietBlock ==
    ASSUME NEW s, NEW blk, blk.stmts = <<>>, blk.term.kind = "goto"
    PROVE  AfterBlock(fn, s, blk, Summaries) = s
<1>1. AfterStatements(fn, s, blk) = Skipped!Loop(s, s, <<>>)
  BY DEF AfterStatements, StatementFrom, FoldLeft, MapThenFoldSet, Max,
         Skipped!Loop, Skipped!FoldLeft, Skipped!MapThenFoldSet, Skipped!Max
<1>2. UntouchedSoFar(s, Len(<<>>), Skipped!Loop(s, s, <<>>))
  <2>1. UntouchedSoFar(s, 0, s)
    BY DEF UntouchedSoFar
  <2>2. \A i \in 0..Len(<<>>) : \A acc :
           i < Len(<<>>) /\ UntouchedSoFar(s, i, acc)
           => UntouchedSoFar(s, i + 1, StatementFrom(s, acc, <<>>[i + 1]))
    OBVIOUS
  <2>3. <<>> \in Seq({})
    OBVIOUS
  <2> QED
    BY <2>1, <2>2, <2>3, Skipped!FoldLeftKeeps
<1>3. AfterStatements(fn, s, blk) = s
  BY <1>1, <1>2 DEF UntouchedSoFar
<1>4. CallEffect(fn, s, blk.term, Summaries) = NoEffect
  BY DEF CallEffect
<1>5. AfterEffect(s, NoEffect, blk.term) = s
  BY DEF AfterEffect
<1> QED
  BY <1>3, <1>4, <1>5, Zenon DEF AfterBlock, AfterTerminator

\* A body as BodiesAssumption has them.
IsBody(f) ==
    /\ f.blocks \in Seq(ToSet(f.blocks)) \ {<<>>}
    /\ \A b \in DOMAIN f.blocks :
         /\ f.blocks[b].stmts \in Seq({st \in ToSet(f.blocks[b].stmts) : st.op \in StatementOps})
         /\ f.blocks[b].succs \in Seq(DOMAIN f.blocks)

LEMMA ResolvedIsBody ==
    ASSUME NEW body \in Bodies
    PROVE  IsBody(Resolved(body))
<1>1. "blocks" \in DOMAIN body
  BY BodiesAssumption
<1>2. Resolved(body).blocks = body.blocks
  BY <1>1 DEF Resolved, With
<1>3. IsBody(body)
  BY BodiesAssumption, Zenon DEF IsBody
<1> QED
  BY <1>2, <1>3, Zenon DEF IsBody

LEMMA BlocksOfBody ==
    ASSUME IsBody(fn)
    PROVE  1 \in Blocks /\ IsFiniteSet(Blocks)
<1>1. fn.blocks \in Seq(ToSet(fn.blocks)) /\ fn.blocks # <<>>
  BY Zenon DEF IsBody
<1>2. Blocks = 1 .. Len(fn.blocks) /\ Len(fn.blocks) \in Nat /\ Len(fn.blocks) # 0
  BY <1>1, LenProperties, EmptySeq DEF Blocks
<1> QED
  BY <1>2, FS_Interval

LEMMA ExitIsGood ==
    ASSUME IsBody(fn), NEW b \in Blocks, Good(in[b], base)
    PROVE  Good(Exit(b), base)
<1>1. Good(AfterStatements(fn, in[b], fn.blocks[b]), base)
  BY StatementsAreGood DEF IsBody, Blocks
<1> QED
  BY <1>1, TerminatorIsGood DEF Exit, AfterBlock

-----------------------------------------------------------------------------
(* One successor of the block that is visited. *)

\* An edge along which the solution is what leaves the block: the successor has no other
\* predecessor, or the block changes nothing.
Exact(p, b) == Quiet(p) \/ Cardinality(Into(b)) <= 1

Updated(acc, b) ==
    LET joined == Joined(acc.in, Exit(Head(queue)), b)
    IN  IF b \in DOMAIN acc.in /\ acc.in[b] = joined THEN acc
        ELSE [in |-> With(acc.in, b, joined), queue |-> Append(acc.queue, b)]

\* The states and the queue after i successors of the head.
Lossless(known) ==
    /\ DOMAIN in \subseteq DOMAIN known /\ DOMAIN known \subseteq Blocks
    /\ \A b \in DOMAIN known : Good(known[b], base)
    /\ \A b \in DOMAIN in : Weaker(known[b], in[b])
Queued(acc) ==
    /\ acc.queue \in Seq(DOMAIN acc.in)
    /\ \A b \in ToSet(Tail(queue)) : b \in ToSet(acc.queue)
    /\ \A b \in DOMAIN acc.in :
         b \in ToSet(acc.queue) \/ (b \in DOMAIN in /\ acc.in[b] = in[b])
Passed(known, b) ==
    /\ b \in DOMAIN known
    /\ Exact(Head(queue), b) => Weaker(known[b], Exit(Head(queue)))
VisitedSoFar(succs, i, acc) ==
    Lossless(acc.in) /\ Queued(acc) /\ \A j \in 1 .. i : Passed(acc.in, succs[j])

UpdatedNext(succs, acc, b) == Updated(acc, b)
Visiting == INSTANCE FoldInduction WITH Op <- UpdatedNext, P <- VisitedSoFar

\* The states of the predecessors of b that are known.
Entered(known, b) == {known[p] : p \in {q \in Preds(b) : q \in DOMAIN known}}

LEMMA EnteredIsFinite ==
    ASSUME IsBody(fn), NEW known, NEW b
    PROVE  IsFiniteSet(Entered(known, b))
<1> DEFINE Q == {q \in Preds(b) : q \in DOMAIN known}
           f == [q \in Q |-> known[q]]
<1>1. Q \in SUBSET Blocks
  BY DEF Preds
<1>2. IsFiniteSet(Q)
  BY <1>1, BlocksOfBody, FS_Subset
<1> HIDE DEF Q
<1>3. f \in Surjection(Q, Entered(known, b))
  <2>1. Entered(known, b) = {known[q] : q \in Q}
    BY Zenon DEF Entered, Q
  <2> QED
    BY <2>1 DEF Surjection
<1> QED
  BY <1>2, <1>3, FS_Surjection

LEMMA JoinedIsGood ==
    ASSUME IsBody(fn), NEW h \in Blocks, h \in DOMAIN in, Good(in[h], base),
           NEW known, Lossless(known), NEW b, h \in Preds(b)
    PROVE  LET joined == Joined(known, Exit(h), b)
           IN  /\ Good(joined, base)
               /\ b \in DOMAIN known => Weaker(joined, known[b])
               /\ Exact(h, b) => Weaker(joined, Exit(h))
<1> DEFINE state == Exit(h)
           joined == Joined(known, state, b)
<1>1. Good(state, base)
  BY ExitIsGood
<1>2. /\ DOMAIN in \subseteq DOMAIN known
      /\ \A p \in DOMAIN known : Good(known[p], base)
      /\ Weaker(known[h], in[h])
  BY Zenon DEF Lossless
<1>3. Quiet(h) => state = in[h]
  BY QuietBlock, Zenon DEF Quiet, Exit
<1> HIDE DEF state
<1>4. CASE b \in DOMAIN known
  <2>1. joined = JoinStates(known[b], state)
    BY <1>4 DEF Joined
  <2> QED
    BY <1>1, <1>2, <1>4, <2>1, JoinIsGood, Zenon DEF state
<1>5. CASE b \notin DOMAIN known /\ Cardinality(Into(b)) <= 1
  <2>1. joined = state
    BY <1>5 DEF Joined
  <2>2. Weaker(state, state)
    BY <1>1, WeakerReflexive
  <2> QED
    BY <1>1, <1>5, <2>1, <2>2, Zenon DEF state
<1>6. CASE b \notin DOMAIN known /\ ~(Cardinality(Into(b)) <= 1)
  <2> DEFINE S == Entered(known, b)
  <2>1. joined = JoinMany(SetToSeq(S))
    BY <1>6 DEF Joined, Entered
  <2>2. IsFiniteSet(S)
    BY EnteredIsFinite
  <2>3. known[h] \in S
    BY <1>2, Zenon DEF Entered
  <2>4. \A s \in S : Good(s, base)
    BY <1>2, Zenon DEF Entered
  <2> HIDE DEF S
  <2>5. Good(joined, base) /\ Weaker(joined, known[h])
    BY <2>1, <2>2, <2>3, <2>4, JoinManyIsGood
  <2>6. Weaker(joined, in[h])
    BY <1>2, <2>5, WeakerTransitive
  <2>7. Exact(h, b) => Quiet(h)
    BY <1>6, Zenon DEF Exact
  <2>8. Exact(h, b) => Weaker(joined, state)
    BY <1>3, <2>6, <2>7
  <2> QED
    BY <1>6, <2>5, <2>8, Zenon DEF state
<1> QED
  BY <1>4, <1>5, <1>6

LEMMA AppendedSet ==
    ASSUME NEW S, NEW q \in Seq(S), NEW e \in S
    PROVE  (\A x \in ToSet(q) : x \in ToSet(Append(q, e))) /\ e \in ToSet(Append(q, e))
<1> DEFINE r == Append(q, e)
<1>1. /\ r \in Seq(S) /\ Len(r) = Len(q) + 1 /\ r[Len(q) + 1] = e
      /\ \A i \in 1 .. Len(q) : r[i] = q[i]
  BY AppendProperties
<1> HIDE DEF r
<1>2. /\ DOMAIN q = 1 .. Len(q) /\ DOMAIN r = 1 .. (Len(q) + 1) /\ Len(q) \in Nat
  BY <1>1, LenProperties
<1>3. \A i \in DOMAIN q : i \in DOMAIN r /\ r[i] = q[i]
  BY <1>1, <1>2
<1>4. Len(q) + 1 \in DOMAIN r
  BY <1>2
<1> QED
  BY <1>1, <1>3, <1>4, Zenon DEF ToSet, r

LEMMA UpdateKeeps ==
    ASSUME IsBody(fn), NEW h, h = Head(queue), h \in DOMAIN in, \A p \in DOMAIN in : Good(in[p], base),
           NEW acc, Lossless(acc.in), Queued(acc), NEW b \in Blocks, h \in Preds(b)
    PROVE  /\ Lossless(Updated(acc, b).in) /\ Queued(Updated(acc, b))
           /\ Passed(Updated(acc, b).in, b)
           /\ \A c : Passed(acc.in, c) => Passed(Updated(acc, b).in, c)
<1> DEFINE known == acc.in
           joined == Joined(known, Exit(h), b)
           new == With(known, b, joined)
           r == [in |-> new, queue |-> Append(acc.queue, b)]
<1>1. h \in Blocks
  BY DEF Preds
<1>2. /\ Good(joined, base)
      /\ b \in DOMAIN known => Weaker(joined, known[b])
      /\ Exact(h, b) => Weaker(joined, Exit(h))
  BY <1>1, JoinedIsGood
<1>3. Updated(acc, b) = IF b \in DOMAIN known /\ known[b] = joined THEN acc ELSE r
  BY Zenon DEF Updated
<1> HIDE DEF joined
<1>4. /\ DOMAIN new = DOMAIN known \cup {b} /\ new[b] = joined
      /\ \A c \in DOMAIN known : c # b => new[c] = known[c]
  BY DEF With
<1>5. r.in = new /\ r.queue = Append(acc.queue, b)
  OBVIOUS
<1> HIDE DEF new, r
<1>6. CASE b \in DOMAIN known /\ known[b] = joined
  <2>1. Updated(acc, b) = acc
    BY <1>3, <1>6
  <2>2. Passed(known, b)
    BY <1>2, <1>6, Zenon DEF Passed
  <2> QED
    BY <2>1, <2>2
<1>7. CASE ~(b \in DOMAIN known /\ known[b] = joined)
  <2>1. Updated(acc, b) = r
    BY <1>3, <1>7
  <2>2. Lossless(new)
    <3>1. DOMAIN in \subseteq DOMAIN new /\ DOMAIN new \subseteq Blocks
      BY <1>4, Zenon DEF Lossless
    <3>2. \A c \in DOMAIN new : Good(new[c], base)
      BY <1>2, <1>4, Zenon DEF Lossless
    <3>3. ASSUME NEW c \in DOMAIN in PROVE Weaker(new[c], in[c])
      <4>1. c \in DOMAIN known /\ Weaker(known[c], in[c])
        BY Zenon DEF Lossless
      <4>2. CASE c = b
        BY <1>2, <1>4, <4>1, <4>2, WeakerTransitive
      <4>3. CASE c # b
        BY <1>4, <4>1, <4>3
      <4> QED
        BY <4>2, <4>3
    <3> QED
      BY <3>1, <3>2, <3>3, Zenon DEF Lossless
  <2>3. Queued(r)
    <3>1. acc.queue \in Seq(DOMAIN new) /\ b \in DOMAIN new
      BY <1>4 DEF Queued
    <3>2. Append(acc.queue, b) \in Seq(DOMAIN new)
      BY <3>1, AppendProperties
    <3>3. /\ \A c \in ToSet(acc.queue) : c \in ToSet(Append(acc.queue, b))
          /\ b \in ToSet(Append(acc.queue, b))
      BY <3>1, AppendedSet
    <3>4. \A c \in ToSet(Tail(queue)) : c \in ToSet(r.queue)
      BY <1>5, <3>3, Zenon DEF Queued
    <3>5. ASSUME NEW c \in DOMAIN new
          PROVE  c \in ToSet(r.queue) \/ (c \in DOMAIN in /\ new[c] = in[c])
      <4>1. CASE c = b
        BY <1>5, <3>3, <4>1, Zenon
      <4>2. CASE c # b
        <5>1. c \in DOMAIN known /\ new[c] = known[c]
          BY <1>4, <4>2
        <5> QED
          BY <1>5, <3>3, <5>1, Zenon DEF Queued
      <4> QED
        BY <4>1, <4>2
    <3> QED
      BY <1>5, <3>2, <3>4, <3>5, Zenon DEF Queued
  <2>4. Passed(new, b)
    BY <1>2, <1>4, Zenon DEF Passed
  <2>5. ASSUME NEW c, Passed(known, c) PROVE Passed(new, c)
    <3>1. CASE c = b
      BY <2>4, <3>1
    <3>2. CASE c # b
      <4>1. c \in DOMAIN new /\ new[c] = known[c]
        BY <1>4, <2>5, <3>2, Zenon DEF Passed
      <4> QED
        BY <2>5, <4>1, Zenon DEF Passed
    <3> QED
      BY <3>1, <3>2
  <2> QED
    BY <1>5, <2>1, <2>2, <2>3, <2>4, <2>5
<1> QED
  BY <1>6, <1>7

-----------------------------------------------------------------------------
(* The visit of a block. *)

Settled(known, b) ==
    \A j \in DOMAIN Succs(b) :
      /\ Succs(b)[j] \in DOMAIN known
      /\ Exact(b, Succs(b)[j]) => Weaker(known[Succs(b)[j]], Exit(b))

IInv ==
    /\ IsBody(fn)
    /\ 1 \in DOMAIN in /\ DOMAIN in \subseteq Blocks
    /\ queue \in Seq(DOMAIN in)
    /\ \A b \in DOMAIN in : Good(in[b], base)
    /\ \A b \in DOMAIN in : b \in ToSet(queue) \/ Settled(in, b)

LEMMA VisitedFacts ==
    ASSUME IInv, queue # <<>>
    PROVE  /\ Lossless(Visited.in) /\ Queued(Visited)
           /\ \A j \in DOMAIN Succs(Head(queue)) : Passed(Visited.in, Succs(Head(queue))[j])
<1> DEFINE h == Head(queue)
           start == [in |-> in, queue |-> Tail(queue)]
           succs == Succs(h)
           end == Visited
<1>1. /\ IsBody(fn) /\ DOMAIN in \subseteq Blocks /\ queue \in Seq(DOMAIN in)
      /\ \A b \in DOMAIN in : Good(in[b], base)
  BY Zenon DEF IInv
<1>2. h \in DOMAIN in /\ Tail(queue) \in Seq(DOMAIN in)
  BY <1>1, HeadTailProperties
<1>3. succs \in Seq(Blocks)
  BY <1>1, <1>2, Zenon DEF IsBody, Succs, Blocks
<1>4. \A j \in 1 .. Len(succs) : succs[j] \in Blocks /\ h \in Preds(succs[j])
  <2>1. h \in Blocks /\ DOMAIN succs = 1 .. Len(succs)
    BY <1>1, <1>2, <1>3, LenProperties
  <2>2. \A j \in 1 .. Len(succs) : succs[j] \in Blocks
    BY <1>3, LenProperties
  <2>3. \A j \in DOMAIN succs : h \in Preds(succs[j])
    BY <2>1, Zenon DEF Preds
  <2> QED
    BY <2>1, <2>2, <2>3, Zenon
<1>5. VisitedSoFar(succs, 0, start)
  <2>1. start.in = in /\ start.queue = Tail(queue)
    OBVIOUS
  <2> HIDE DEF start
  <2>2. Lossless(start.in)
    BY <1>1, <2>1, WeakerReflexive DEF Lossless
  <2>3. Queued(start)
    BY <1>2, <2>1, Zenon DEF Queued
  <2>4. \A j \in 1..0 : Passed(start.in, succs[j])
    OBVIOUS
  <2> QED
    BY <2>2, <2>3, <2>4, Zenon DEF VisitedSoFar
<1>6. end = Visiting!Loop(succs, start, succs)
  BY DEF Visited, Updated, UpdatedNext, FoldLeft, MapThenFoldSet, Max,
         Visiting!Loop, Visiting!FoldLeft, Visiting!MapThenFoldSet, Visiting!Max
<1> HIDE DEF start, succs, end
<1>7. \A i \in 0..Len(succs) : \A acc :
         i < Len(succs) /\ VisitedSoFar(succs, i, acc)
         => VisitedSoFar(succs, i + 1, UpdatedNext(succs, acc, succs[i + 1]))
  <2> SUFFICES ASSUME NEW i \in 0..Len(succs), NEW acc, i < Len(succs),
                      VisitedSoFar(succs, i, acc)
               PROVE  VisitedSoFar(succs, i + 1, Updated(acc, succs[i + 1]))
    BY Zenon DEF UpdatedNext
  <2> DEFINE b == succs[i + 1]
             u == Updated(acc, b)
  <2>1. Lossless(acc.in) /\ Queued(acc) /\ \A j \in 1..i : Passed(acc.in, succs[j])
    BY Zenon DEF VisitedSoFar
  <2>2. i \in Nat /\ i + 1 \in 1..Len(succs)
    BY <1>3, LenProperties
  <2>3. b \in Blocks /\ h \in Preds(b)
    BY <1>4, <2>2, Zenon
  <2> HIDE DEF b
  <2>4. /\ Lossless(u.in) /\ Queued(u) /\ Passed(u.in, b)
        /\ \A c : Passed(acc.in, c) => Passed(u.in, c)
    BY <1>1, <1>2, <2>1, <2>3, UpdateKeeps
  <2> HIDE DEF u
  <2>5. \A j \in 1..(i + 1) : j \in 1..i \/ j = i + 1
    BY <2>2
  <2>6. \A j \in 1..(i + 1) : Passed(u.in, succs[j])
    BY <2>1, <2>4, <2>5, Zenon DEF b
  <2> QED
    BY <2>4, <2>6, Zenon DEF VisitedSoFar, u, b
<1>8. VisitedSoFar(succs, Len(succs), end)
  BY <1>3, <1>5, <1>6, <1>7, Visiting!FoldLeftKeeps
<1>9. DOMAIN succs = 1 .. Len(succs)
  BY <1>3, LenProperties
<1> QED
  BY <1>8, <1>9, Zenon DEF VisitedSoFar, end, succs

LEMMA TailSet ==
    ASSUME NEW S, NEW q \in Seq(S), q # <<>>, NEW x \in ToSet(q), x # Head(q)
    PROVE  x \in ToSet(Tail(q))
<1>1. PICK i \in DOMAIN q : q[i] = x
  BY DEF ToSet
<1>2. DOMAIN q = 1 .. Len(q) /\ Len(q) \in Nat /\ Head(q) = q[1]
  BY LenProperties
<1>3. /\ Tail(q) \in Seq(S) /\ Len(Tail(q)) = Len(q) - 1
      /\ \A k \in 1 .. Len(Tail(q)) : Tail(q)[k] = q[k + 1]
  BY HeadTailProperties
<1>4. DOMAIN Tail(q) = 1 .. Len(Tail(q))
  BY <1>3, LenProperties
<1>5. i - 1 \in 1 .. Len(Tail(q)) /\ (i - 1) + 1 = i
  BY <1>1, <1>2, <1>3
<1>6. i - 1 \in DOMAIN Tail(q) /\ Tail(q)[i - 1] = x
  BY <1>1, <1>3, <1>4, <1>5
<1> QED
  BY <1>6, Zenon DEF ToSet

\* What a visit does to the states.
Visits ==
    /\ DOMAIN in \subseteq DOMAIN in'
    /\ \A b \in DOMAIN in : Weaker(in'[b], in[b])

LEMMA VisitKeeps ==
    ASSUME IInv, Visit
    PROVE  IInv' /\ Visits
<1> DEFINE h == Head(queue)
           end == Visited
<1>1. queue # <<>> /\ in' = end.in /\ queue' = end.queue /\ fn' = fn /\ base' = base
  BY Zenon DEF Visit
<1>2. /\ Lossless(end.in) /\ Queued(end)
      /\ \A j \in DOMAIN Succs(h) : Passed(end.in, Succs(h)[j])
  BY <1>1, VisitedFacts
<1> HIDE DEF end
<1>3. Lossless(in') /\ \A j \in DOMAIN Succs(h) : Passed(in', Succs(h)[j])
  BY <1>1, <1>2, Zenon
<1>4. /\ queue' \in Seq(DOMAIN in')
      /\ \A b \in ToSet(Tail(queue)) : b \in ToSet(queue')
      /\ \A b \in DOMAIN in' : b \in ToSet(queue') \/ (b \in DOMAIN in /\ in'[b] = in[b])
  BY <1>1, <1>2, Zenon DEF Queued
<1>5. /\ IsBody(fn) /\ 1 \in DOMAIN in /\ queue \in Seq(DOMAIN in)
      /\ \A b \in DOMAIN in : b \in ToSet(queue) \/ Settled(in, b)
  BY Zenon DEF IInv
<1>6. Visits
  BY <1>3, Zenon DEF Lossless, Visits
<1>7. ASSUME NEW b \in DOMAIN in', b \notin ToSet(queue')
      PROVE  Settled(in, b)'
  <2>1. b \in DOMAIN in /\ in'[b] = in[b]
    BY <1>4, <1>7
  <2>2. \A j \in DOMAIN Succs(b) :
          /\ Succs(b)[j] \in DOMAIN in'
          /\ Exact(b, Succs(b)[j]) => Weaker(in'[Succs(b)[j]], Exit(b))
    <3>1. CASE b = h
      BY <1>3, <3>1, Zenon DEF Passed
    <3>2. CASE b # h
      <4>1. b \notin ToSet(queue)
        BY <1>1, <1>4, <1>5, <1>7, <3>2, TailSet
      <4>2. Settled(in, b)
        BY <1>5, <2>1, <4>1
      <4>3. \A j \in DOMAIN Succs(b) :
              /\ Succs(b)[j] \in DOMAIN in
              /\ Exact(b, Succs(b)[j]) => Weaker(in[Succs(b)[j]], Exit(b))
        BY <4>2, Zenon DEF Settled
      <4>4. \A c \in DOMAIN in : c \in DOMAIN in' /\ Weaker(in'[c], in[c])
        BY <1>6, Zenon DEF Visits
      <4> QED
        BY <4>3, <4>4, WeakerTransitive
    <3> QED
      BY <3>1, <3>2
  <2>3. Succs(b)' = Succs(b)
    BY <1>1, Zenon DEF Succs
  <2>4. Exit(b)' = Exit(b)
    BY <1>1, <2>1 DEF Exit
  <2>5. \A c : Exact(b, c)' = Exact(b, c)
    BY <1>1 DEF Exact, Quiet, Into, Blocks, Succs
  <2> QED
    BY <2>2, <2>3, <2>4, <2>5, Zenon DEF Settled
<1>8. IInv'
  <2>1. IsBody(fn')
    BY <1>1, <1>5
  <2>2. Blocks' = Blocks
    BY <1>1, Zenon DEF Blocks
  <2>3. 1 \in DOMAIN in' /\ DOMAIN in' \subseteq Blocks'
    BY <1>3, <1>5, <2>2, Zenon DEF Lossless
  <2>4. \A b \in DOMAIN in' : Good(in'[b], base')
    BY <1>1, <1>3, Zenon DEF Lossless
  <2> QED
    BY <1>4, <1>7, <2>1, <2>3, <2>4, Zenon DEF IInv
<1> QED
  BY <1>6, <1>8

-----------------------------------------------------------------------------
(* Paths without a merge. *)

LEMMA JoinSame ==
    ASSUME NEW x, NEW c, Good(x, c)
    PROVE  JoinStates(x, x) = x
<1> DEFINE q == x.irq
           n == MergeIrq(q, q)
           j == [aliases |-> Agreed(x.aliases, x.aliases),
                 guards |-> Agreed(x.guards, x.guards),
                 irq_locals |-> x.irq_locals \cap x.irq_locals,
                 origins |-> Agreed(x.origins, x.origins), irq |-> n]
           m == Masked(j)
<1>1. /\ DOMAIN x = {"aliases", "guards", "irq_locals", "origins", "irq"}
      /\ DOMAIN q = {"base", "base_hard", "base_soft", "hard_depth", "soft_depth",
                     "hard", "soft"}
      /\ IsMap(x) /\ IsMap(q) /\ IsMap(x.aliases) /\ IsMap(x.guards) /\ IsMap(x.origins)
  BY Zenon DEF Good, Shaped
<1>2. /\ q.base_hard \in BOOLEAN /\ q.base_soft \in BOOLEAN
      /\ q.hard = (q.base_hard /\ ~Masked(x)) /\ q.soft = (q.base_soft /\ ~Masked(x))
  <2>1. FromContext(c).hard \in BOOLEAN /\ FromContext(c).soft \in BOOLEAN
    BY DEF FromContext
  <2> QED
    BY <2>1, Zenon DEF Good, FromBase, Follows
<1>3. \A f : IsMap(f) => Agreed(f, f) = f
  BY DEF IsMap, Agreed, Restrict
<1>4. /\ n.base = q.base /\ n.base_hard = q.base_hard /\ n.base_soft = q.base_soft
      /\ n.hard_depth = q.hard_depth /\ n.soft_depth = q.soft_depth
      /\ DOMAIN n = {"base", "base_hard", "base_soft", "hard_depth", "soft_depth",
                     "hard", "soft"}
  BY <1>2 DEF MergeIrq, Larger
<1>5. /\ DOMAIN j = {"aliases", "guards", "irq_locals", "origins", "irq"}
      /\ j.aliases = x.aliases /\ j.guards = x.guards /\ j.origins = x.origins
      /\ j.irq_locals = x.irq_locals /\ j.irq = n
  BY <1>1, <1>3
<1> HIDE DEF n, j
<1>6. m = Masked(x)
  BY <1>5, MaskedByFields
<1>7. JoinStates(x, x) = SetMasked(j, m)
  BY Zenon DEF JoinStates, RefreshIrq, j, n
<1> HIDE DEF m
<1> DEFINE k == SetMasked(j, m)
<1>8. /\ DOMAIN k = DOMAIN j /\ k.aliases = j.aliases /\ k.guards = j.guards
      /\ k.origins = j.origins /\ k.irq_locals = j.irq_locals
      /\ DOMAIN k.irq = DOMAIN n /\ IsMap(k) /\ IsMap(k.irq)
      /\ k.irq.hard = (n.base_hard /\ ~m) /\ k.irq.soft = (n.base_soft /\ ~m)
      /\ k.irq.base = n.base /\ k.irq.base_hard = n.base_hard /\ k.irq.base_soft = n.base_soft
      /\ k.irq.hard_depth = n.hard_depth /\ k.irq.soft_depth = n.soft_depth
  BY <1>4, <1>5 DEF SetMasked, IsMap
<1> HIDE DEF k
<1>9. k.irq = q
  <2>1. /\ k.irq.hard = q.hard /\ k.irq.soft = q.soft /\ k.irq.base = q.base
        /\ k.irq.base_hard = q.base_hard /\ k.irq.base_soft = q.base_soft
        /\ k.irq.hard_depth = q.hard_depth /\ k.irq.soft_depth = q.soft_depth
    BY <1>2, <1>4, <1>6, <1>8
  <2> HIDE DEF q
  <2>2. \A y \in DOMAIN q : k.irq[y] = q[y]
    BY <1>1, <2>1
  <2> QED
    BY <1>1, <1>4, <1>8, <2>2 DEF IsMap
<1>10. \A y \in DOMAIN x : k[y] = x[y]
  BY <1>1, <1>5, <1>8, <1>9
<1>11. k = x
  BY <1>1, <1>5, <1>8, <1>10 DEF IsMap
<1> QED
  BY <1>7, <1>11, Zenon DEF k

\* Blocks that are reached in one way only: the entry, which no block jumps to, and
\* blocks with one edge into them, from another of these.
Chain(C) ==
    /\ 1 \in C /\ Into(1) = {}
    /\ \A b \in C \ {1} : \E p \in C : \E i : Into(b) = {<<p, i>>}

\* There the solution is exact: the state of a block is what leaves its predecessor.
Follow(known, b, p) == (\E i : Into(b) = {<<p, i>>}) /\ known[b] = Exit(p)
OnChain(C, known) ==
    /\ known[1] = in[1]
    /\ \A b \in (C \ {1}) \cap DOMAIN known : \E p \in C \cap DOMAIN in : Follow(known, b, p)
ChainSolved(C) == in[1] = EntryState(fn, base) /\ OnChain(C, in)

LEMMA EdgeInto ==
    ASSUME NEW h, NEW b, h \in Preds(b)
    PROVE  /\ Into(b) # {}
           /\ \A p : \A i : Into(b) = {<<p, i>>} => p = h
<1>1. PICK j \in DOMAIN Succs(h) : Succs(h)[j] = b /\ h \in Blocks
  BY DEF Preds
<1>2. <<h, j>> \in Into(b)
  BY <1>1 DEF Into
<1> QED
  BY <1>2

LEMMA UpdateOnChain ==
    ASSUME IsBody(fn), NEW h, h = Head(queue), h \in DOMAIN in, h \in Blocks, Good(in[h], base),
           NEW C, Chain(C), NEW acc, 1 \in DOMAIN acc.in, OnChain(C, acc.in),
           NEW b \in Blocks, h \in Preds(b)
    PROVE  OnChain(C, Updated(acc, b).in) /\ 1 \in DOMAIN Updated(acc, b).in
<1> DEFINE known == acc.in
           joined == Joined(known, Exit(h), b)
           new == With(known, b, joined)
           r == [in |-> new, queue |-> Append(acc.queue, b)]
           u == Updated(acc, b)
<1>1. u = IF b \in DOMAIN known /\ known[b] = joined THEN acc ELSE r
  BY Zenon DEF Updated
<1>2. b # 1
  BY EdgeInto, Zenon DEF Chain
<1>3. Good(Exit(h), base)
  BY ExitIsGood
<1>0. \A p : (\E i : Into(b) = {<<p, i>>}) => p = h
  BY EdgeInto
<1>4. ASSUME b \in C
      PROVE  /\ h \in C /\ \E i : Into(b) = {<<h, i>>}
             /\ b \in DOMAIN known => joined = Exit(h) /\ known[b] = joined
             /\ b \notin DOMAIN known => joined = Exit(h)
  <2>1. PICK p \in C : \E i : Into(b) = {<<p, i>>}
    BY <1>2, <1>4, Zenon DEF Chain
  <2>2. PICK i : Into(b) = {<<h, i>>} /\ h \in C
    BY <1>0, <2>1
  <2>3. Cardinality(Into(b)) = 1
    BY <2>2, FS_Singleton
  <2>4. b \notin DOMAIN known => joined = Exit(h)
    <3> HIDE DEF known
    <3> QED
      BY <2>3 DEF Joined
  <2>5. ASSUME b \in DOMAIN known PROVE joined = Exit(h) /\ known[b] = joined
    <3>1. known[b] = Exit(h)
      <4>1. PICK q : Follow(known, b, q)
        BY <1>2, <1>4, <2>5 DEF OnChain
      <4> QED
        BY <1>0, <4>1, Zenon DEF Follow
    <3>2. joined = JoinStates(known[b], Exit(h))
      BY <2>5 DEF Joined
    <3> QED
      BY <1>3, <3>1, <3>2, JoinSame
  <2> QED
    BY <2>2, <2>4, <2>5, Zenon
<1> HIDE DEF joined
<1>5. CASE b \in DOMAIN known /\ known[b] = joined
  BY <1>1, <1>5
<1>6. CASE ~(b \in DOMAIN known /\ known[b] = joined)
  <2>1. u.in = new
    BY <1>1, <1>6
  <2>2. /\ DOMAIN new = DOMAIN known \cup {b} /\ new[b] = joined
        /\ \A c \in DOMAIN known : c # b => new[c] = known[c]
    BY DEF With
  <2> HIDE DEF new, r, u
  <2>3. new[1] = in[1] /\ 1 \in DOMAIN new
    BY <1>2, <2>2, Zenon DEF OnChain
  <2>4. ASSUME NEW c \in (C \ {1}) \cap DOMAIN new
        PROVE  \E p \in C \cap DOMAIN in : Follow(new, c, p)
    <3>1. CASE c = b
      <4>1. Follow(new, b, h) /\ h \in C \cap DOMAIN in
        BY <1>4, <2>2, <2>4, <3>1, Zenon DEF Follow
      <4> QED
        BY <3>1, <4>1, Zenon
    <3>2. CASE c # b
      <4>1. c \in (C \ {1}) \cap DOMAIN known /\ new[c] = known[c]
        BY <2>2, <2>4, <3>2
      <4>2. PICK p \in C \cap DOMAIN in : Follow(known, c, p)
        BY <4>1, Zenon DEF OnChain
      <4> QED
        BY <4>1, <4>2, Zenon DEF Follow
    <3> QED
      BY <3>1, <3>2
  <2>5. OnChain(C, new)
    BY <2>3, <2>4, Zenon DEF OnChain
  <2> QED
    BY <2>1, <2>3, <2>5, Zenon DEF u
<1> QED
  BY <1>5, <1>6

UpdatedOn(C, acc, b) == Updated(acc, b)
ChainSoFar(C, i, acc) == OnChain(C, acc.in) /\ 1 \in DOMAIN acc.in
Chaining == INSTANCE FoldInduction WITH Op <- UpdatedOn, P <- ChainSoFar

\* A visit changes no state on a chain.
LEMMA VisitOnChain ==
    ASSUME IInv, Visit, NEW C, Chain(C), ChainSolved(C)
    PROVE  ChainSolved(C)' /\ \A b \in C \cap DOMAIN in : in'[b] = in[b]
<1> DEFINE h == Head(queue)
           start == [in |-> in, queue |-> Tail(queue)]
           succs == Succs(h)
           end == Visited
<1>1. /\ IsBody(fn) /\ 1 \in DOMAIN in /\ DOMAIN in \subseteq Blocks
      /\ queue \in Seq(DOMAIN in) /\ \A b \in DOMAIN in : Good(in[b], base)
  BY Zenon DEF IInv
<1>2. queue # <<>> /\ in' = end.in /\ fn' = fn /\ base' = base
  BY Zenon DEF Visit
<1>3. h \in DOMAIN in /\ h \in Blocks
  BY <1>1, <1>2, HeadTailProperties
<1>4. succs \in Seq(Blocks)
  BY <1>1, <1>3, Zenon DEF IsBody, Succs, Blocks
<1>5. \A j \in 1 .. Len(succs) : succs[j] \in Blocks /\ h \in Preds(succs[j])
  <2>1. DOMAIN succs = 1 .. Len(succs)
    BY <1>4, LenProperties
  <2>2. \A j \in 1 .. Len(succs) : succs[j] \in Blocks
    BY <1>4, LenProperties
  <2>3. \A j \in DOMAIN succs : h \in Preds(succs[j])
    BY <1>3, Zenon DEF Preds
  <2> QED
    BY <2>1, <2>2, <2>3, Zenon
<1>6. ChainSoFar(C, 0, start)
  <2>1. start.in = in
    OBVIOUS
  <2> HIDE DEF start
  <2> QED
    BY <1>1, <2>1, Zenon DEF ChainSoFar, ChainSolved
<1>7. end = Chaining!Loop(C, start, succs)
  BY DEF Visited, Updated, UpdatedOn, FoldLeft, MapThenFoldSet, Max,
         Chaining!Loop, Chaining!FoldLeft, Chaining!MapThenFoldSet, Chaining!Max
<1> HIDE DEF start, succs, end
<1>8. \A i \in 0..Len(succs) : \A acc :
         i < Len(succs) /\ ChainSoFar(C, i, acc)
         => ChainSoFar(C, i + 1, UpdatedOn(C, acc, succs[i + 1]))
  <2> SUFFICES ASSUME NEW i \in 0..Len(succs), NEW acc, i < Len(succs), ChainSoFar(C, i, acc)
               PROVE  ChainSoFar(C, i + 1, Updated(acc, succs[i + 1]))
    BY Zenon DEF UpdatedOn
  <2> DEFINE b == succs[i + 1]
  <2>1. i + 1 \in 1..Len(succs)
    BY <1>4, LenProperties
  <2>2. b \in Blocks /\ h \in Preds(b)
    BY <1>5, <2>1, Zenon
  <2> HIDE DEF b
  <2>3. OnChain(C, acc.in) /\ 1 \in DOMAIN acc.in
    BY Zenon DEF ChainSoFar
  <2>4. OnChain(C, Updated(acc, b).in) /\ 1 \in DOMAIN Updated(acc, b).in
    BY <1>1, <1>3, <2>2, <2>3, UpdateOnChain
  <2> QED
    BY <2>4, Zenon DEF ChainSoFar, b
<1>9. ChainSoFar(C, Len(succs), end)
  BY <1>4, <1>6, <1>7, <1>8, Chaining!FoldLeftKeeps
<1>10. OnChain(C, in')
  BY <1>2, <1>9, Zenon DEF ChainSoFar
<1>11. DOMAIN in \subseteq DOMAIN in'
  BY VisitKeeps, Zenon DEF Visits
<1>12. ASSUME NEW b \in C \cap DOMAIN in PROVE in'[b] = in[b]
  <2>1. CASE b = 1
    BY <1>10, <2>1, Zenon DEF OnChain
  <2>2. CASE b # 1
    <3>1. b \in (C \ {1}) \cap DOMAIN in /\ b \in (C \ {1}) \cap DOMAIN in'
      BY <1>11, <2>2
    <3>2. PICK p : Follow(in, b, p)
      BY <3>1 DEF ChainSolved, OnChain
    <3>3. PICK r : Follow(in', b, r)
      BY <1>10, <3>1 DEF OnChain
    <3>4. p = r
      <4>1. PICK i, j : Into(b) = {<<p, i>>} /\ Into(b) = {<<r, j>>}
        BY <3>2, <3>3, Zenon DEF Follow
      <4>2. <<p, i>> \in {<<r, j>>}
        BY <4>1
      <4> QED
        BY <4>2
    <3> QED
      BY <3>2, <3>3, <3>4, Zenon DEF Follow
  <2> QED
    BY <2>1, <2>2
<1>13. ASSUME NEW b \in (C \ {1}) \cap DOMAIN in'
       PROVE  \E p \in C \cap DOMAIN in' : Follow(in, b, p)'
  <2>1. PICK p \in C \cap DOMAIN in : Follow(in', b, p)
    BY <1>10 DEF OnChain
  <2>2. in'[p] = in[p] /\ p \in C \cap DOMAIN in'
    BY <1>11, <1>12
  <2>3. Exit(p)' = Exit(p)
    BY <1>2, <2>2, Zenon DEF Exit
  <2>4. Into(b)' = Into(b)
    BY <1>2 DEF Into, Blocks, Succs
  <2>5. Follow(in, b, p)'
    BY <2>1, <2>3, <2>4, Zenon DEF Follow
  <2> QED
    BY <2>2, <2>5
<1>14. in'[1] = EntryState(fn', base')
  BY <1>2, <1>10, Zenon DEF OnChain, ChainSolved
<1>15. OnChain(C, in)'
  BY <1>13, Zenon DEF OnChain
<1> QED
  BY <1>12, <1>14, <1>15, Zenon DEF ChainSolved

-----------------------------------------------------------------------------
(* The facts reported of the blocks so far. *)

HasEdges(x) == {"edges", "callsites"} \subseteq DOMAIN x

LEMMA ReleaseKeepsEdges ==
    ASSUME NEW x, HasEdges(x), NEW s, NEW l, NEW b
    PROVE  HasEdges(EmitRelease(x, s, l, b)) /\ x.edges = EmitRelease(x, s, l, b).edges
BY DEF EmitRelease, HasEdges

LEMMA AcquireAddsEdges ==
    ASSUME NEW x, HasEdges(x), NEW s, NEW e, NEW b
    PROVE  LET irq == ForAcquire(s.irq, e.lock)
               y == EmitAcquire(x, s, e, b)
           IN  /\ HasEdges(y) /\ x.edges \subseteq y.edges
               /\ \A held \in Held(s) : DeadlockRelevant(held, e.lock) =>
                    [context |-> CurrentContext(irq), from |-> held, to |-> e.lock,
                     location |-> b] \in y.edges
<1> DEFINE irq == ForAcquire(s.irq, e.lock)
           edge(held) == [context |-> CurrentContext(irq), from |-> held, to |-> e.lock,
                          location |-> b]
           new == {edge(held) : held \in {h \in Held(s) : DeadlockRelevant(h, e.lock)}}
           ev == Append(x.events, Event("acquire", irq, e.lock, e.dest, b))
           u == RecordUsage(x.usage, e.lock, irq, b)
           y == EmitAcquire(x, s, e, b)
<1>1. \A held \in Held(s) : DeadlockRelevant(held, e.lock) => edge(held) \in new
  BY Zenon
<1>2. y = [x EXCEPT !.events = ev, !.edges = @ \cup new, !.usage = u,
                    !.entry_locks = IF DOMAIN s.guards = {} THEN @ \cup {e.lock} ELSE @]
  BY Zenon DEF EmitAcquire
<1> HIDE DEF new, ev, u, y
<1>3. HasEdges(y) /\ y.edges = x.edges \cup new
  BY <1>2 DEF HasEdges
<1> QED
  BY <1>1, <1>3 DEF y

LEMMA EffectKeepsEdges ==
    ASSUME NEW x, HasEdges(x), NEW s, NEW e, NEW term, NEW b
    PROVE  HasEdges(EmitEffect(x, s, e, term, b)) /\ x.edges \subseteq EmitEffect(x, s, e, term, b).edges
<1> DEFINE a == EmitAcquire(x, s, e, b)
           r == EmitRelease(x, s, e.local, b)
           d == EmitRelease(x, s, term.place.local, b)
           k == [x EXCEPT !.return_locks = @ \cup Held(s)]
           y == EmitEffect(x, s, e, term, b)
<1>1. HasEdges(a) /\ x.edges \subseteq a.edges
  BY AcquireAddsEdges
<1>2. HasEdges(r) /\ x.edges = r.edges /\ HasEdges(d) /\ x.edges = d.edges
  BY ReleaseKeepsEdges
<1>3. HasEdges(k) /\ x.edges = k.edges
  BY DEF HasEdges
<1>4. y = CASE e.kind = "Acquire" -> a
            [] e.kind = "Release" -> r
            [] e = NoEffect /\ term.kind = "drop" /\ IsLocal(term.place) -> d
            [] e = NoEffect /\ term.kind = "return" -> k
            [] OTHER -> x
  BY Zenon DEF EmitEffect
<1> HIDE DEF a, r, d, k
<1>5. y \in {a, r, d, k, x}
  BY <1>4
<1> HIDE DEF y
<1>6. HasEdges(y) /\ x.edges \subseteq y.edges
  BY <1>1, <1>2, <1>3, <1>5
<1> QED
  BY <1>6 DEF y

\* The orders of what an execution acquires at a block are edges once it is reported.
OrdersIn(x, b, s) ==
    \A pair \in AcquiredAt(b, s) : DeadlockRelevant(pair.from, pair.to) => pair \in x.edges

LEMMA BlockReports ==
    ASSUME NEW x, HasEdges(x), NEW s, NEW b
    PROVE  LET y == EmitBlock(fn, Crate, x, s, b, Summaries)
           IN  HasEdges(y) /\ x.edges \subseteq y.edges /\ OrdersIn(y, b, s)
<1> DEFINE t == AfterStatements(fn, s, fn.blocks[b])
           term == fn.blocks[b].term
           e == CallEffect(fn, t, term, Summaries)
           q == SetToSeq(CallSites(fn, Crate, t, term, b))
           x1 == [x EXCEPT !.callsites = @ \o q]
           y == EmitEffect(x1, t, e, term, b)
           edge(held) == [context |-> CurrentContext(ForAcquire(t.irq, e.lock)), from |-> held,
                          to |-> e.lock, location |-> b]
<1>1. EmitBlock(fn, Crate, x, s, b, Summaries) = y
  BY Zenon DEF EmitBlock, EmitTerminator
<1>2. AcquiredAt(b, s) = IF e.kind # "Acquire" THEN {} ELSE {edge(held) : held \in Held(t)}
  BY Zenon DEF AcquiredAt
<1> HIDE DEF t, term, e, q
<1>3. HasEdges(x1) /\ x1.edges = x.edges
  BY DEF HasEdges
<1> HIDE DEF x1
<1>4. HasEdges(y) /\ x.edges \subseteq y.edges
  BY <1>3, EffectKeepsEdges
<1>5. CASE e.kind # "Acquire"
  BY <1>1, <1>2, <1>4, <1>5, Zenon DEF OrdersIn
<1>6. CASE e.kind = "Acquire"
  <2>1. y = EmitAcquire(x1, t, e, b)
    BY <1>6 DEF EmitEffect, NoEffect
  <2>2. \A held \in Held(t) : DeadlockRelevant(held, e.lock) => edge(held) \in y.edges
    BY <1>3, <2>1, AcquireAddsEdges
  <2> HIDE DEF y
  <2>3. ASSUME NEW pair \in AcquiredAt(b, s), DeadlockRelevant(pair.from, pair.to)
        PROVE  pair \in y.edges
    <3>1. PICK held \in Held(t) : pair = edge(held)
      BY <1>2, <1>6, <2>3
    <3>2. pair.from = held /\ pair.to = e.lock
      BY <3>1
    <3> QED
      BY <2>2, <2>3, <3>1, <3>2
  <2> QED
    BY <1>1, <1>4, <2>3, Zenon DEF OrdersIn
<1> QED
  BY <1>5, <1>6

-----------------------------------------------------------------------------
(* The invariant, and what follows from it. *)

LEMMA EntryIsGood ==
    ASSUME NEW f, NEW c
    PROVE  Good(EntryState(f, c), c)
<1> DEFINE w == WithContext(c)
           g == [w EXCEPT !.irq_locals = {1}]
<1>1. /\ DOMAIN w = {"aliases", "guards", "irq_locals", "origins", "irq"}
      /\ w.aliases = <<>> /\ w.guards = <<>> /\ w.irq_locals = {} /\ w.origins = <<>>
      /\ w.irq = FromContext(c)
  BY DEF WithContext
<1>2. LET q == FromContext(c)
      IN  /\ DOMAIN q = {"base", "base_hard", "base_soft", "hard_depth", "soft_depth",
                         "hard", "soft"}
          /\ q.base_hard = q.hard /\ q.base_soft = q.soft
          /\ q.hard \in BOOLEAN /\ q.soft \in BOOLEAN
  BY DEF FromContext
<1>3. IsMap(<<>>) /\ DOMAIN <<>> = {}
  BY DEF IsMap
<1>4. /\ DOMAIN g = DOMAIN w /\ g.irq = w.irq /\ g.aliases = w.aliases
      /\ g.guards = w.guards /\ g.origins = w.origins
  BY <1>1
<1>5. EntryState(f, c) \in {w, RefreshIrq(g)}
  BY Zenon DEF EntryState
<1> HIDE DEF w, g
<1>6. Shaped(w) /\ FromBase(w, c)
  <2>1. w.irq.base_hard = FromContext(c).hard /\ w.irq.base_soft = FromContext(c).soft
    BY <1>1, <1>2, Zenon
  <2>2. DOMAIN w.irq = {"base", "base_hard", "base_soft", "hard_depth", "soft_depth",
                        "hard", "soft"}
    BY <1>1, <1>2, Zenon
  <2>3. IsMap(w.aliases) /\ IsMap(w.guards) /\ IsMap(w.origins)
    BY <1>1, <1>3, Zenon
  <2> QED
    BY <1>1, <2>1, <2>2, <2>3, Zenon DEF Shaped, FromBase
<1>7. Good(w, c)
  <2>1. ~Masked(w)
    BY <1>1, <1>3, Zenon DEF Masked
  <2>2. w.irq.base_hard = w.irq.hard /\ w.irq.base_soft = w.irq.soft
        /\ w.irq.hard \in BOOLEAN /\ w.irq.soft \in BOOLEAN
    BY <1>1, <1>2
  <2>3. w.irq.hard = (w.irq.base_hard /\ ~Masked(w))
    BY <2>1, <2>2
  <2>4. w.irq.soft = (w.irq.base_soft /\ ~Masked(w))
    BY <2>1, <2>2
  <2>5. IsMap(w) /\ IsMap(w.irq)
    BY DEF w, WithContext, FromContext, IsMap
  <2> QED
    BY <1>6, <2>3, <2>4, <2>5, Zenon DEF Good, Follows
<1>8. Shaped(g) /\ FromBase(g, c)
  BY <1>1, <1>3, <1>4, <1>6, KeptShape
<1>9. Good(RefreshIrq(g), c)
  BY <1>8, RefreshIsGood
<1> QED
  BY <1>5, <1>7, <1>9

\* The execution is at a block the solver has reached.
WalkInv == walk.at \in DOMAIN in

LEMMA InitInv ==
    ASSUME Init
    PROVE  IInv /\ WalkInv
<1>1. IsBody(fn)
  BY ResolvedIsBody DEF Init
<1>2. 1 \in Blocks
  BY <1>1, BlocksOfBody
<1>3. DOMAIN in = {1} /\ in[1] = EntryState(fn, base) /\ queue = <<1>>
  BY DEF Init
<1>4. \A b \in DOMAIN in : Good(in[b], base)
  BY <1>3, EntryIsGood
<1>5. queue \in Seq(DOMAIN in) /\ \A b \in DOMAIN in : b \in ToSet(queue)
  BY <1>3 DEF ToSet
<1>6. walk.at = 1
  BY DEF Init
<1> QED
  BY <1>1, <1>2, <1>3, <1>4, <1>5, <1>6, Zenon DEF IInv, WalkInv

LEMMA SolverUnchanged ==
    ASSUME IInv, UNCHANGED <<fn, base, in, queue>>
    PROVE  IInv'
<1>1. \A b : Settled(in, b)' = Settled(in, b)
  BY DEF Settled, Succs, Exact, Quiet, Into, Blocks, Exit
<1>2. Blocks' = Blocks
  BY DEF Blocks
<1> QED
  BY <1>1, <1>2, Zenon DEF IInv

LEMMA NextInv ==
    ASSUME IInv, WalkInv, [Next]_vars
    PROVE  IInv' /\ WalkInv' /\ (UNCHANGED in \/ Visits)
<1>1. CASE Visit
  <2>1. IInv' /\ Visits
    BY <1>1, VisitKeeps
  <2>2. walk' = walk
    BY <1>1 DEF Visit
  <2> QED
    BY <2>1, <2>2, Zenon DEF WalkInv, Visits
<1>2. CASE Report
  <2>1. UNCHANGED <<fn, base, in, queue>> /\ walk' = walk
    BY <1>2 DEF Report
  <2> QED
    BY <2>1, SolverUnchanged DEF WalkInv
<1>3. CASE Walk
  <2>1. UNCHANGED <<fn, base, in, queue>> /\ queue = <<>>
    BY <1>3 DEF Walk, Reported
  <2>2. PICK i \in DOMAIN Succs(walk.at) : walk'.at = Succs(walk.at)[i]
    BY <1>3 DEF Walk
  <2>3. walk.at \notin ToSet(queue)
    BY <2>1 DEF ToSet
  <2>4. Settled(in, walk.at)
    BY <2>3, Zenon DEF IInv, WalkInv
  <2>5. walk'.at \in DOMAIN in'
    BY <2>1, <2>2, <2>4, Zenon DEF Settled
  <2> QED
    BY <2>1, <2>5, SolverUnchanged DEF WalkInv
<1>4. CASE UNCHANGED vars
  <2>1. UNCHANGED <<fn, base, in, queue, walk>>
    BY <1>4 DEF vars
  <2> QED
    BY <2>1, SolverUnchanged DEF WalkInv
<1> QED
  BY <1>1, <1>2, <1>3, <1>4 DEF Next

\* The interrupt flags kept in the state of a block are the ones its guards imply.
THEOREM FlagsFollowGuards == Spec => []IrqFollowsGuards
<1>1. IInv => IrqFollowsGuards
  BY Zenon DEF IInv, Good, Follows, FromBase, IrqFollowsGuards
<1> QED
  BY <1>1, InitInv, NextInv, PTL DEF Spec

\* Once a block has a state, the solver only takes facts from it.
THEOREM SolverLosesFacts == Spec => OnlyLosesFacts
<1> DEFINE Loses == \A b \in DOMAIN in : b \in DOMAIN in' /\ Weaker(in'[b], in[b])
<1>1. Visits => Loses
  BY Zenon DEF Visits
<1>2. (UNCHANGED in \/ Visits) => [Loses]_in
  BY <1>1, Zenon
<1> HIDE DEF Loses
<1>3. Spec => [][Loses]_in
  BY <1>2, InitInv, NextInv, PTL DEF Spec
<1> QED
  BY <1>3, Zenon DEF OnlyLosesFacts, Loses

\* The worklist ends with a solution: the successors of a block that has a state have
\* one, which says at most what leaves the block along every edge that is Exact.
Solved == queue = <<>> => \A b \in DOMAIN in : Settled(in, b)
THEOREM SolverEndsWithSolution == Spec => []Solved
<1>1. IInv => Solved
  <2>1. queue = <<>> => ToSet(queue) = {}
    BY DEF ToSet
  <2> QED
    BY <2>1, Zenon DEF IInv, Solved
<1> QED
  BY <1>1, InitInv, NextInv, PTL DEF Spec

\* Every block an execution comes to has a state: the empty state that the reporting pass
\* assumes elsewhere stands for dead code only.
THEOREM ExecutionsAreAnalysed == Spec => []WalkInv
BY InitInv, NextInv, PTL DEF Spec

-----------------------------------------------------------------------------
(* An execution that has met no merge is in the state the solver found. *)

ChainInv == \A C : Chain(C) => ChainSolved(C)
PathInv ==
    ~walk.merged =>
       /\ walk.state = in[walk.at]
       /\ \E C : Chain(C) /\ walk.at \in C
ReportInv ==
    /\ block \in Nat \ {0}
    /\ block > 1 => queue = <<>>
    /\ HasEdges(facts)
    /\ \A b \in Blocks : b < block => OrdersIn(facts, b, Get(in, b, EmptyState))
ExecInv == IInv /\ WalkInv /\ ChainInv /\ PathInv /\ ReportInv

LEMMA ChainOfOne == ASSUME Into(1) = {} PROVE Chain({1})
BY Zenon DEF Chain

LEMMA InitExec == ASSUME Init PROVE ExecInv
<1>1. /\ DOMAIN in = {1} /\ in[1] = EntryState(fn, base) /\ walk.at = 1
      /\ walk.state = EntryState(fn, base) /\ walk.merged = (Into(1) # {})
      /\ block = 1 /\ facts = NoFacts
  BY DEF Init
<1>2. ChainInv
  BY <1>1 DEF ChainInv, ChainSolved, OnChain
<1>3. PathInv
  BY <1>1, ChainOfOne DEF PathInv
<1>4. ReportInv
  <2>1. \A b \in Blocks : ~(b < 1)
    <3>1. IsBody(fn)
      BY InitInv, Zenon DEF IInv
    <3>2. Blocks = 1 .. Len(fn.blocks)
      BY <3>1, LenProperties DEF IsBody, Blocks
    <3> QED
      BY <3>2
  <2>2. HasEdges(NoFacts)
    BY DEF HasEdges, NoFacts
  <2> QED
    BY <1>1, <2>1, <2>2 DEF ReportInv
<1> QED
  BY <1>2, <1>3, <1>4, InitInv, Zenon DEF ExecInv

LEMMA ChainSame ==
    ASSUME UNCHANGED fn, NEW C
    PROVE  Chain(C)' <=> Chain(C)
<1>1. \A b : Into(b)' = Into(b)
  BY DEF Into, Blocks, Succs
<1> QED
  BY <1>1 DEF Chain

LEMMA VisitExec == ASSUME ExecInv, Visit PROVE ChainInv' /\ PathInv' /\ ReportInv'
<1>1. /\ IInv /\ WalkInv /\ ChainInv /\ PathInv /\ ReportInv
  BY Zenon DEF ExecInv
<1>2. queue # <<>> /\ fn' = fn /\ walk' = walk /\ facts' = facts /\ block' = block
  BY DEF Visit
<1>3. ChainInv'
  <2> SUFFICES ASSUME NEW C, Chain(C)' PROVE ChainSolved(C)'
    BY Zenon DEF ChainInv
  <2>1. Chain(C) /\ ChainSolved(C)
    BY <1>1, <1>2, ChainSame, Zenon DEF ChainInv
  <2> QED
    BY <1>1, <2>1, VisitOnChain
<1>4. PathInv'
  <2> SUFFICES ASSUME ~walk.merged
               PROVE  walk.state = in'[walk.at] /\ \E C : Chain(C)' /\ walk.at \in C
    BY <1>2 DEF PathInv
  <2>1. PICK C : Chain(C) /\ walk.at \in C
    BY <1>1 DEF PathInv
  <2>2. in'[walk.at] = in[walk.at]
    BY <1>1, <2>1, VisitOnChain DEF ChainInv, WalkInv
  <2>3. Chain(C)'
    BY <1>2, <2>1, ChainSame
  <2> QED
    BY <1>1, <2>1, <2>2, <2>3 DEF PathInv
<1>5. ReportInv'
  <2>1. Blocks' = Blocks /\ Blocks \subseteq Nat \ {0}
    <3>1. Blocks = 1 .. Len(fn.blocks)
      BY <1>1, LenProperties DEF IInv, IsBody, Blocks
    <3> QED
      BY <1>2, <3>1 DEF Blocks
  <2>2. block = 1
    BY <1>1, <1>2 DEF ReportInv
  <2>3. \A b \in Blocks : ~(b < block)
    BY <2>1, <2>2
  <2> QED
    BY <1>1, <1>2, <2>1, <2>2, <2>3 DEF ReportInv
<1> QED
  BY <1>3, <1>4, <1>5

\* What a step that leaves the solver alone keeps.
LEMMA SolvedSame ==
    ASSUME UNCHANGED <<fn, base, in>>, ChainInv
    PROVE  /\ ChainInv'
           /\ \A b, s, x : OrdersIn(x, b, s)' <=> OrdersIn(x, b, s)
<1>1. \A b : Into(b)' = Into(b)
  BY DEF Into, Blocks, Succs
<1>2. \A p : Exit(p)' = Exit(p)
  BY DEF Exit
<1>3. \A C : Chain(C)' <=> Chain(C)
  BY ChainSame
<1>4. \A C : OnChain(C, in)' <=> OnChain(C, in)
  BY <1>1, <1>2 DEF OnChain, Follow
<1>5. ChainInv'
  BY <1>3, <1>4 DEF ChainInv, ChainSolved
<1>6. \A b, s : AcquiredAt(b, s)' = AcquiredAt(b, s)
  BY DEF AcquiredAt
<1> QED
  BY <1>5, <1>6 DEF OrdersIn

LEMMA ReportExec == ASSUME ExecInv, Report PROVE ChainInv' /\ PathInv' /\ ReportInv'
<1> DEFINE s == Get(in, block, EmptyState)
<1>1. IInv /\ WalkInv /\ ChainInv /\ PathInv /\ ReportInv
  BY Zenon DEF ExecInv
<1>2. /\ queue = <<>> /\ block \in Blocks /\ block' = block + 1
      /\ facts' = EmitBlock(fn, Crate, facts, s, block, Summaries)
      /\ fn' = fn /\ base' = base /\ in' = in /\ queue' = queue /\ walk' = walk
  BY Zenon DEF Report
<1> HIDE DEF s
<1>3. ChainInv' /\ \A b, t, x : OrdersIn(x, b, t)' <=> OrdersIn(x, b, t)
  BY <1>1, <1>2, SolvedSame
<1>4. PathInv'
  <2>1. \A C : Chain(C)' <=> Chain(C)
    BY <1>2, ChainSame
  <2> QED
    BY <1>1, <1>2, <2>1 DEF PathInv
<1>5. HasEdges(facts') /\ facts.edges \subseteq facts'.edges /\ OrdersIn(facts', block, s)
  <2>1. HasEdges(facts)
    BY <1>1 DEF ReportInv
  <2> QED
    BY <1>2, <2>1, BlockReports
<1>6. block \in Nat \ {0} /\ Blocks \subseteq Nat
  <2>1. Blocks = 1 .. Len(fn.blocks)
    BY <1>1, LenProperties DEF IInv, IsBody, Blocks
  <2> QED
    BY <1>1, <2>1 DEF ReportInv
<1>7. ASSUME NEW b \in Blocks, b < block + 1
      PROVE  OrdersIn(facts', b, Get(in, b, EmptyState))
  <2>1. CASE b = block
    BY <1>5, <2>1 DEF s
  <2>2. CASE b # block
    <3>1. b < block
      BY <1>6, <1>7, <2>2
    <3>2. OrdersIn(facts, b, Get(in, b, EmptyState))
      BY <1>1, <3>1 DEF ReportInv
    <3> QED
      BY <1>5, <3>2 DEF OrdersIn
  <2> QED
    BY <2>1, <2>2
<1>8. ReportInv'
  <2>1. block' \in Nat \ {0}
    BY <1>2, <1>6
  <2>2. Blocks' = Blocks
    BY <1>2 DEF Blocks
  <2>3. \A b \in Blocks' : b < block' => OrdersIn(facts', b, Get(in', b, EmptyState))
    BY <1>2, <1>7, <2>2
  <2>4. \A b \in Blocks' : b < block' => OrdersIn(facts, b, Get(in, b, EmptyState))'
    BY <1>2, <2>3 DEF OrdersIn, AcquiredAt
  <2> QED
    BY <1>2, <1>5, <2>1, <2>4 DEF ReportInv
<1> QED
  BY <1>3, <1>4, <1>8

LEMMA IntoIsFinite ==
    ASSUME IsBody(fn), NEW b
    PROVE  IsFiniteSet(Into(b))
<1> DEFINE at(p) == {p} \X {i \in DOMAIN Succs(p) : Succs(p)[i] = b}
<1>1. ASSUME NEW p \in Blocks PROVE IsFiniteSet(at(p))
  <2>1. Succs(p) \in Seq(Blocks)
    BY <1>1, Zenon DEF IsBody, Succs, Blocks
  <2>2. DOMAIN Succs(p) = 1 .. Len(Succs(p)) /\ Len(Succs(p)) \in Nat
    BY <2>1, LenProperties
  <2>3. IsFiniteSet(DOMAIN Succs(p))
    BY <2>2, FS_Interval
  <2>4. IsFiniteSet({i \in DOMAIN Succs(p) : Succs(p)[i] = b})
    BY <2>3, FS_Subset
  <2> QED
    BY <2>4, FS_Singleton, FS_Product
<1>2. IsFiniteSet({at(p) : p \in Blocks})
  <2> DEFINE f == [p \in Blocks |-> at(p)]
  <2> HIDE DEF at
  <2>1. f \in Surjection(Blocks, {at(p) : p \in Blocks})
    BY DEF Surjection
  <2> QED
    BY <2>1, BlocksOfBody, FS_Surjection
<1>3. \A S \in {at(p) : p \in Blocks} : IsFiniteSet(S)
  BY <1>1
<1>4. Into(b) = UNION {at(p) : p \in Blocks}
  BY Zenon DEF Into
<1> HIDE DEF at
<1> QED
  BY <1>2, <1>3, <1>4, FS_UNION

LEMMA WalkExec == ASSUME ExecInv, Walk PROVE ChainInv' /\ PathInv' /\ ReportInv'
<1>1. IInv /\ WalkInv /\ ChainInv /\ PathInv /\ ReportInv
  BY Zenon DEF ExecInv
<1>2. UNCHANGED <<fn, base, in, queue, facts, block>> /\ queue = <<>>
  BY DEF Walk, Reported
<1>3. ChainInv' /\ \A b, s, x : OrdersIn(x, b, s)' <=> OrdersIn(x, b, s)
  BY <1>1, <1>2, SolvedSame
<1>4. ReportInv'
  <2>1. Blocks' = Blocks
    BY <1>2 DEF Blocks
  <2> QED
    BY <1>1, <1>2, <2>1 DEF ReportInv, OrdersIn, AcquiredAt
<1>5. PathInv'
  <2> DEFINE p == walk.at
  <2>1. PICK j \in DOMAIN Succs(p) :
          /\ walk'.at = Succs(p)[j]
          /\ walk'.state = AfterBlock(fn, walk.state, fn.blocks[p], Summaries)
          /\ walk'.merged = (walk.merged \/ Cardinality(Into(Succs(p)[j])) > 1)
    BY DEF Walk
  <2> DEFINE b == Succs(p)[j]
  <2> SUFFICES ASSUME ~walk'.merged
               PROVE  walk'.state = in[b] /\ \E C : Chain(C) /\ b \in C
    BY <1>2, <2>1, ChainSame DEF PathInv
  <2>2. ~walk.merged /\ ~(Cardinality(Into(b)) > 1)
    BY <2>1
  <2>3. walk.state = in[p] /\ p \in DOMAIN in /\ DOMAIN in \subseteq Blocks
    BY <1>1, <2>2 DEF PathInv, WalkInv, IInv
  <2>4. PICK C : Chain(C) /\ p \in C
    BY <1>1, <2>2 DEF PathInv
  <2>5. <<p, j>> \in Into(b) /\ p \in Preds(b)
    BY <2>1, <2>3 DEF Into, Preds
  <2>6. Into(b) = {<<p, j>>}
    <3>1. IsFiniteSet(Into(b))
      BY <1>1, <2>1, <2>3, IntoIsFinite DEF IInv
    <3>2. Cardinality(Into(b)) \in Nat /\ Cardinality(Into(b)) # 0
      BY <2>5, <3>1, FS_CardinalityType, FS_EmptySet
    <3>3. Cardinality(Into(b)) = 1
      BY <2>2, <3>2
    <3>4. PICK e : Into(b) = {e}
      BY <3>1, <3>3, FS_Singleton
    <3> QED
      BY <2>5, <3>4
  <2>7. b # 1
    BY <2>4, <2>5 DEF Chain
  <2> DEFINE D == C \cup {b}
  <2> HIDE DEF b
  <2>8. Chain(D)
    <3>1. ASSUME NEW c \in D \ {1} PROVE \E q \in D : \E i : Into(c) = {<<q, i>>}
      <4>1. CASE c = b
        BY <2>4, <2>6, <4>1
      <4>2. CASE c # b
        BY <2>4, <3>1, <4>2 DEF Chain
      <4> QED
        BY <4>1, <4>2
    <3>2. 1 \in D /\ Into(1) = {}
      BY <2>4 DEF Chain
    <3> QED
      BY <3>1, <3>2, Zenon DEF Chain
  <2>9. b \in DOMAIN in
    <3>1. walk.at \notin ToSet(queue)
      BY <1>2 DEF ToSet
    <3>2. Settled(in, p)
      BY <1>1, <2>3, <3>1, Zenon DEF IInv
    <3> QED
      BY <2>1, <3>2, Zenon DEF Settled, b
  <2>10. OnChain(D, in)
    BY <1>1, <2>8, Zenon DEF ChainInv, ChainSolved
  <2>11. in[b] = Exit(p)
    <3>1. PICK q : Follow(in, b, q)
      BY <2>7, <2>9, <2>10 DEF OnChain
    <3>2. q = p
      <4>1. PICK i : Into(b) = {<<q, i>>}
        BY <3>1 DEF Follow
      <4>2. <<p, j>> \in {<<q, i>>}
        BY <2>5, <4>1
      <4> QED
        BY <4>2
    <3> QED
      BY <3>1, <3>2 DEF Follow
  <2> QED
    BY <2>1, <2>3, <2>8, <2>11 DEF Exit, b
<1> QED
  BY <1>3, <1>4, <1>5

LEMMA NextExec == ASSUME ExecInv, [Next]_vars PROVE ExecInv'
<1>1. IInv' /\ WalkInv'
  BY NextInv, Zenon DEF ExecInv
<1>2. CASE Visit
  BY <1>1, <1>2, VisitExec, Zenon DEF ExecInv
<1>3. CASE Report
  BY <1>1, <1>3, ReportExec, Zenon DEF ExecInv
<1>4. CASE Walk
  BY <1>1, <1>4, WalkExec, Zenon DEF ExecInv
<1>5. CASE UNCHANGED vars
  <2>1. UNCHANGED <<fn, base, in, queue, facts, block, walk>>
    BY <1>5 DEF vars
  <2>2. ChainInv'
    BY <2>1, SolvedSame DEF ExecInv
  <2>3. PathInv'
    BY <2>1, ChainSame DEF ExecInv, PathInv
  <2>4. ReportInv'
    BY <2>1 DEF ExecInv, ReportInv, OrdersIn, AcquiredAt, Blocks
  <2> QED
    BY <1>1, <2>2, <2>3, <2>4, Zenon DEF ExecInv
<1> QED
  BY <1>2, <1>3, <1>4, <1>5, Zenon DEF Next

\* On a path without a merge the analysis misses no lock order, whatever the body, its
\* loops elsewhere and the order its blocks are visited in.
THEOREM NoOrderIsMissed == Spec => []NoMissedOrder
<1>1. ExecInv => NoMissedOrder
  <2> SUFFICES ASSUME ExecInv, Reported, ~walk.merged
               PROVE  OrdersIn(facts, walk.at, walk.state)
    BY Zenon DEF NoMissedOrder, OrdersIn
  <2>1. walk.at \in DOMAIN in /\ walk.at \in Blocks
    BY DEF ExecInv, WalkInv, IInv
  <2>2. walk.state = Get(in, walk.at, EmptyState)
    BY <2>1 DEF ExecInv, PathInv, Get
  <2>3. walk.at < block
    <3>1. Blocks = 1 .. Len(fn.blocks) /\ Len(fn.blocks) \in Nat
      BY LenProperties DEF ExecInv, IInv, IsBody, Blocks
    <3> QED
      BY <2>1, <3>1 DEF ExecInv, ReportInv, Reported
  <2> QED
    BY <2>1, <2>2, <2>3 DEF ExecInv, ReportInv
<1> QED
  BY <1>1, InitExec, NextExec, PTL DEF Spec
=============================================================================
