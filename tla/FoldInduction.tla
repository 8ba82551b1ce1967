---------------------------- MODULE FoldInduction ----------------------------
(***************************************************************************)
(* What holds of the base of a fold, and is kept by every step of it,      *)
(* holds of the fold.  Loops of the modelled programs that carry a state   *)
(* through a list are folds, and their invariants are proved with an       *)
(* instance of this module.  Executions that visit the same list are       *)
(* compared with its fold through the trace of the states the fold passes. *)
(***************************************************************************)
EXTENDS Integers, SequencesExt, SequenceTheorems, WellFoundedInduction, TLAPS

CONSTANTS
    Op(_, _, _),    \* what the step depends on, the state and an element of the list, to
                    \* the next state
    P(_, _, _)      \* the loop's invariant: of what the step depends on, the number of
                    \* steps made and the state

Loop(env, base, seq) == FoldLeft(LAMBDA acc, x : Op(env, acc, x), base, seq)

\* The function whose value at 1..n the fold of the first n elements is.
IsFold(env, h, base, seq, n) ==
    h = [t \in SUBSET (1..n) |->
            IF t = {} THEN base ELSE Op(env, h[t \ {Max(t)}], seq[Max(t)])]

LEMMA LeastNat ==
    ASSUME NEW T \in SUBSET Nat, T # {}
    PROVE  \E n \in T : \A m \in T : n <= m
<1>1. PICK n \in T : \A m \in T : <<m, n>> \notin OpToRel(<, Nat)
  BY NatLessThanWellFounded, WFMin
<1>2. \A m \in T : ~(m < n)
  BY <1>1 DEF OpToRel
<1> QED
  BY <1>2

LEMMA MaxOfSome ==
    ASSUME NEW n \in Nat, NEW t \in SUBSET (1..n), t # {}
    PROVE  Max(t) \in t /\ \A y \in t : y <= Max(t)
<1> DEFINE B == {m \in Nat : \A y \in t : y <= m}
<1>1. n \in B
  OBVIOUS
<1>2. PICK m \in B : \A k \in B : m <= k
  <2>1. B \in SUBSET Nat /\ B # {}
    BY <1>1
  <2> HIDE DEF B
  <2> QED
    BY <2>1, LeastNat
<1>3. m \in t
  <2> SUFFICES ASSUME m \notin t PROVE FALSE
    OBVIOUS
  <2>1. PICK y \in t : y \in 1..n
    OBVIOUS
  <2>2. m \in Nat /\ m # 0
    BY <1>2, <2>1
  <2>3. m - 1 \in B
    BY <1>2, <2>2
  <2> QED
    BY <1>2, <2>2, <2>3
<1>4. \E x \in t : \A y \in t : x >= y
  BY <1>2, <1>3
<1> QED
  BY <1>4 DEF Max

\* There is such a function for every prefix.
LEMMA FoldExists ==
    ASSUME NEW env, NEW base, NEW seq, NEW n \in Nat
    PROVE  \E h : IsFold(env, h, base, seq, n)
<1> DEFINE Has(k) == \E h : IsFold(env, h, base, seq, k)
           T == {k \in Nat : ~Has(k)}
<1> SUFFICES T = {}
  OBVIOUS
<1> SUFFICES ASSUME T # {} PROVE FALSE
  OBVIOUS
<1>1. PICK k \in T : \A m \in T : k <= m
  <2> HIDE DEF Has
  <2> QED
    BY LeastNat
<1>2. Has(0)
  <2> DEFINE h == [t \in {{}} |-> base]
  <2>1. SUBSET (1..0) = {{}}
    OBVIOUS
  <2>2. h = [t \in {{}} |-> IF t = {} THEN base ELSE Op(env, h[t \ {Max(t)}], seq[Max(t)])]
    OBVIOUS
  <2> HIDE DEF h
  <2>3. IsFold(env, h, base, seq, 0)
    BY <2>1, <2>2, Zenon DEF IsFold
  <2> QED
    BY <2>3
<1>3. k \in Nat /\ k - 1 \in Nat /\ Has(k - 1)
  <2>1. k \in Nat /\ k # 0
    BY <1>1, <1>2
  <2> HIDE DEF Has
  <2> QED
    BY <1>1, <2>1
<1>4. PICK h : IsFold(env, h, base, seq, k - 1)
  BY <1>3
<1> DEFINE g == [t \in SUBSET (1..k) |->
                    IF k \in t THEN Op(env, h[t \ {k}], seq[k]) ELSE h[t]]
           step(t) == IF t = {} THEN base ELSE Op(env, g[t \ {Max(t)}], seq[Max(t)])
<1>5. ASSUME NEW t \in SUBSET (1..k)
      PROVE  g[t] = step(t)
  <2>1. CASE k \in t
    <3>1. Max(t) = k
      <4>1. Max(t) \in t /\ \A y \in t : y <= Max(t)
        BY <1>3, <2>1, MaxOfSome
      <4>2. Max(t) \in 1..k
        BY <4>1
      <4> HIDE DEF Has
      <4> QED
        BY <1>3, <2>1, <4>1, <4>2
    <3>2. t \ {k} \in SUBSET (1..k) /\ k \notin t \ {k} /\ t # {}
      BY <2>1
    <3>3. g[t \ {k}] = h[t \ {k}] /\ g[t] = Op(env, h[t \ {k}], seq[k])
      BY <2>1, <3>2
    <3> HIDE DEF g
    <3> QED
      BY <3>1, <3>2, <3>3, Zenon
  <2>2. CASE k \notin t
    <3>1. t \in SUBSET (1..(k - 1)) /\ g[t] = h[t]
      BY <1>3, <2>2
    <3>2. h[t] = IF t = {} THEN base ELSE Op(env, h[t \ {Max(t)}], seq[Max(t)])
      BY <1>4, <3>1, Zenon DEF IsFold
    <3>3. g[t \ {Max(t)}] = h[t \ {Max(t)}]
      BY <2>2
    <3> HIDE DEF g
    <3> QED
      BY <3>1, <3>2, <3>3, Zenon
  <2> QED
    BY <2>1, <2>2
<1>6. g = [t \in SUBSET (1..k) |-> g[t]]
  OBVIOUS
<1> HIDE DEF g
<1>7. g = [t \in SUBSET (1..k) |-> step(t)]
  BY <1>5, <1>6, Zenon
<1>8. Has(k)
  BY <1>7, Zenon DEF IsFold
<1> QED
  BY <1>1, <1>8

\* The induction, on the number of steps.
LEMMA FoldKeeps ==
    ASSUME NEW env, NEW n \in Nat, NEW seq, NEW base, NEW h, IsFold(env, h, base, seq, n),
           P(env, 0, base),
           \A i \in 0..n : \A acc :
              i < n /\ P(env, i, acc) => P(env, i + 1, Op(env, acc, seq[i + 1]))
    PROVE  P(env, n, h[1..n])
<1> DEFINE T == {m \in 0..n : ~P(env, m, h[1..m])}
<1> SUFFICES T = {}
  OBVIOUS
<1> SUFFICES ASSUME T # {} PROVE FALSE
  OBVIOUS
<1>1. PICK m \in T : \A k \in T : m <= k
  <2>1. T \in SUBSET Nat
    OBVIOUS
  <2> HIDE DEF T
  <2> QED
    BY <2>1, LeastNat
<1>2. m \in 0..n /\ ~P(env, m, h[1..m])
  BY <1>1
<1>3. h[1..m] = IF 1..m = {} THEN base ELSE Op(env, h[(1..m) \ {Max(1..m)}], seq[Max(1..m)])
  <2>1. 1..m \in SUBSET (1..n)
    BY <1>2
  <2> QED
    BY <2>1, Zenon DEF IsFold
<1>4. m # 0
  <2>1. ASSUME m = 0 PROVE FALSE
    <3>1. 1..m = {}
      BY <2>1
    <3>2. h[1..m] = base
      BY <1>3, <3>1, Zenon
    <3> QED
      BY <1>2, <2>1, <3>2, Zenon
  <2> QED
    BY <2>1
<1>5. m - 1 \in 0..n /\ m - 1 < n /\ (m - 1) + 1 = m /\ m \in 1..m
  BY <1>2, <1>4
<1>6. Max(1..m) = m
  <2> HIDE DEF T
  <2> DEFINE t == 1..m
  <2>1. m \in Nat /\ m \in t
    BY <1>2, <1>5
  <2>2. t \in SUBSET (1..m)
    OBVIOUS
  <2> HIDE DEF t
  <2>3. Max(t) \in t /\ \A y \in t : y <= Max(t)
    BY <2>1, <2>2, MaxOfSome
  <2> QED
    BY <1>2, <1>5, <2>3 DEF t
<1>7. (1..m) \ {m} = 1..(m - 1) /\ 1..m # {}
  BY <1>2, <1>5
<1>8. m - 1 \notin T
  <2> HIDE DEF T
  <2> QED
    BY <1>1, <1>2
<1>9. P(env, m - 1, h[1..(m - 1)])
  BY <1>5, <1>8
<1>10. P(env, m, Op(env, h[1..(m - 1)], seq[m]))
  <2>1. P(env, (m - 1) + 1, Op(env, h[1..(m - 1)], seq[(m - 1) + 1]))
    BY <1>5, <1>9, Zenon
  <2> QED
    BY <1>5, <2>1, Zenon
<1>11. h[1..m] = Op(env, h[1..(m - 1)], seq[m])
  BY <1>3, <1>6, <1>7, Zenon
<1> QED
  BY <1>2, <1>10, <1>11, Zenon

\* The invariant of a loop through a list holds of what the loop leaves.
THEOREM FoldLeftKeeps ==
    ASSUME NEW env, NEW D, NEW seq \in Seq(D), NEW base, P(env, 0, base),
           \A i \in 0..Len(seq) : \A acc :
              i < Len(seq) /\ P(env, i, acc) => P(env, i + 1, Op(env, acc, seq[i + 1]))
    PROVE  P(env, Len(seq), Loop(env, base, seq))
<1> DEFINE h == CHOOSE h : IsFold(env, h, base, seq, Len(seq))
<1>1. Len(seq) \in Nat /\ DOMAIN seq = 1..Len(seq)
  BY LenProperties
<1>2. IsFold(env, h, base, seq, Len(seq))
  BY <1>1, FoldExists
<1>3. Loop(env, base, seq) = h[1..Len(seq)]
  BY <1>1 DEF Loop, FoldLeft, MapThenFoldSet, IsFold
<1> HIDE DEF h
<1>4. P(env, Len(seq), h[1..Len(seq)])
  BY <1>1, <1>2, FoldKeeps
<1> QED
  BY <1>3, <1>4

\* The states a loop through a list goes through, one after each element.
IsTrace(env, base, seq, tr) ==
    /\ tr[0] = base /\ tr[Len(seq)] = Loop(env, base, seq)
    /\ \A i \in 1..Len(seq) : tr[i] = Op(env, tr[i - 1], seq[i])

THEOREM FoldLeftTrace ==
    ASSUME NEW env, NEW D, NEW seq \in Seq(D), NEW base
    PROVE  \E tr : IsTrace(env, base, seq, tr)
<1> DEFINE n == Len(seq)
           h == CHOOSE h : IsFold(env, h, base, seq, n)
           tr == [i \in 0..n |-> h[1..i]]
<1>1. n \in Nat /\ DOMAIN seq = 1..n
  BY LenProperties
<1>2. IsFold(env, h, base, seq, n)
  BY <1>1, FoldExists
<1>3. Loop(env, base, seq) = h[1..n]
  BY <1>1 DEF Loop, FoldLeft, MapThenFoldSet, IsFold
<1> HIDE DEF h, n
<1>4. tr[0] = base
  <2>1. {} \in SUBSET (1..n) /\ 1..0 = {}
    OBVIOUS
  <2>2. h[{}] = base
    BY <1>2, <2>1, Zenon DEF IsFold
  <2> QED
    BY <1>1, <2>1, <2>2
<1>5. ASSUME NEW i \in 1..n
      PROVE  tr[i] = Op(env, tr[i - 1], seq[i])
  <2>1. tr[i] = h[1..i] /\ tr[i - 1] = h[1..(i - 1)]
    BY <1>1
  <2>2. 1..i \in SUBSET (1..n) /\ 1..i # {} /\ (1..i) \ {i} = 1..(i - 1)
    BY <1>1
  <2>3. Max(1..i) = i
    <3> DEFINE t == 1..i
    <3>1. i \in t /\ i \in Nat /\ t \in SUBSET (1..i)
      OBVIOUS
    <3> HIDE DEF t
    <3>2. Max(t) \in t /\ \A y \in t : y <= Max(t)
      BY <3>1, MaxOfSome
    <3> QED
      BY <3>1, <3>2 DEF t
  <2>4. h[1..i] = Op(env, h[(1..i) \ {Max(1..i)}], seq[Max(1..i)])
    BY <1>2, <2>2, Zenon DEF IsFold
  <2> QED
    BY <2>1, <2>2, <2>3, <2>4, Zenon
<1>6. tr[n] = Loop(env, base, seq)
  BY <1>1, <1>3
<1> HIDE DEF tr
<1> QED
  BY <1>4, <1>5, <1>6 DEF n, IsTrace

\* A set of the numbers from k to n that has k, and with a number the next one.
LEMMA StepsFrom ==
    ASSUME NEW k \in Nat, NEW n \in Nat, k <= n, NEW T, k \in T,
           \A i \in k..n : i < n /\ i \in T => i + 1 \in T
    PROVE  n \in T
<1> SUFFICES ASSUME n \notin T PROVE FALSE
  OBVIOUS
<1> DEFINE B == {i \in k..n : i \notin T}
<1>1. PICK m \in B : \A i \in B : m <= i
  <2>1. B \in SUBSET Nat /\ B # {}
    OBVIOUS
  <2> HIDE DEF B
  <2> QED
    BY <2>1, LeastNat
<1>2. m - 1 \in k..n /\ m - 1 < n /\ m - 1 \in T /\ (m - 1) + 1 = m
  <2>1. m # k
    OBVIOUS
  <2> QED
    BY <1>1, <2>1
<1> QED
  BY <1>2
=============================================================================
