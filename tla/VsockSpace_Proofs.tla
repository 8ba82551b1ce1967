-------------------------- MODULE VsockSpace_Proofs --------------------------
(***************************************************************************)
(* VsockSpace, for every number of sockets, objects and ConnIds.  The      *)
(* tables: every entry is a connection of its key, no connection is in     *)
(* them twice, and one that has left `connections` does not come back.     *)
(* connect(): a socket that waits has something that will end the wait.    *)
(* Closing: a connection the listener made and nobody has any more has its *)
(* close timeout coming.                                                   *)
(***************************************************************************)
EXTENDS VsockSpace, FiniteSetTheorems, SequenceTheorems, WellFoundedInduction,
        TLAPS

-------------------------------------------------------------------------------
(* retain: what is left of a sequence without one object.                  *)

\* No object is in the sequence twice.
Distinct(s) == \A i, j \in DOMAIN s : s[i] = s[j] => i = j

\* f holds what is kept of each prefix.
IsKept(f, s, x) ==
    f = [i \in 0..Len(s) |->
            IF i = 0 THEN <<>>
            ELSE IF s[i] = x THEN f[i - 1] ELSE Append(f[i - 1], s[i])]

LEMMA LeastNat ==
    ASSUME NEW T \in SUBSET Nat, T # {}
    PROVE  \E n \in T : \A m \in T : n <= m
<1>1. PICK n \in T : \A m \in T : <<m, n>> \notin OpToRel(<, Nat)
  BY NatLessThanWellFounded, WFMin
<1>2. \A m \in T : ~(m < n)
  BY <1>1 DEF OpToRel
<1> QED
  BY <1>2

\* What is kept of one more object.
LEMMA KeptExtends ==
    ASSUME NEW s \in Seq(Obj), NEW x, NEW p \in Obj,
           NEW f, IsKept(f, s, x)
    PROVE  \E g : IsKept(g, Append(s, p), x)
<1> DEFINE t == Append(s, p)
           last == IF p = x THEN f[Len(s)] ELSE Append(f[Len(s)], p)
           g == [n \in 0..(Len(s) + 1) |-> IF n <= Len(s) THEN f[n] ELSE last]
<1>1. /\ Len(s) \in Nat /\ Len(t) = Len(s) + 1
      /\ \A i \in 1..Len(s) : t[i] = s[i]
      /\ t[Len(s) + 1] = p
  BY AppendProperties, LenProperties
<1> DEFINE step(n) == IF n = 0 THEN <<>>
                      ELSE IF t[n] = x THEN g[n - 1] ELSE Append(g[n - 1], t[n])
<1> HIDE DEF t
<1>2. ASSUME NEW n \in 0..Len(t)
      PROVE  g[n] = step(n)
  <2>1. CASE n = 0
    <3>1. g[n] = f[0] /\ f[0] = <<>>
      BY <1>1, <2>1 DEF IsKept
    <3> QED
      BY <3>1, <2>1
  <2>2. CASE n # 0 /\ n <= Len(s)
    <3>1. n \in 0..Len(s) /\ n - 1 \in 0..Len(s) /\ t[n] = s[n]
      BY <1>1, <2>2
    <3>2. g[n] = f[n] /\ g[n - 1] = f[n - 1]
      BY <1>1, <2>2, <3>1
    <3>3. f[n] = IF s[n] = x THEN f[n - 1] ELSE Append(f[n - 1], s[n])
      BY <2>2, <3>1, Zenon DEF IsKept
    <3> HIDE DEF g
    <3> QED
      BY <2>2, <3>1, <3>2, <3>3, Zenon
  <2>3. CASE n = Len(s) + 1
    <3>1. n # 0 /\ g[n] = last /\ g[n - 1] = f[Len(s)] /\ t[n] = p
      BY <1>1, <2>3
    <3> HIDE DEF g
    <3> QED
      BY <3>1, Zenon
  <2> QED
    BY <1>1, <2>1, <2>2, <2>3
<1>3. 0..(Len(s) + 1) = 0..Len(t)
  BY <1>1
<1>4. g = [n \in 0..Len(t) |-> g[n]]
  BY <1>3
<1> HIDE DEF g
<1>5. g = [n \in 0..Len(t) |-> step(n)]
  BY <1>2, <1>4, Zenon
<1> HIDE DEF t
<1>6. IsKept(g, t, x)
  BY <1>5, Zenon DEF IsKept
<1> QED
  BY <1>6 DEF t

\* There is such a function for every sequence.
LEMMA KeptExists ==
    ASSUME NEW x, NEW s \in Seq(Obj)
    PROVE  \E f : IsKept(f, s, x)
<1> DEFINE Has(t) == \E f : IsKept(f, t, x)
           T == {n \in Nat : \E t \in Seq(Obj) : Len(t) = n /\ ~Has(t)}
<1> SUFFICES T = {}
  BY LenProperties
<1> SUFFICES ASSUME T # {} PROVE FALSE
  OBVIOUS
<1>1. PICK n \in T : \A m \in T : n <= m
  BY LeastNat
<1>2. PICK t \in Seq(Obj) : Len(t) = n /\ ~Has(t)
  BY <1>1
<1>3. CASE t = <<>>
  <2> DEFINE f == [k \in 0..0 |-> <<>>]
  <2>1. f[0] = <<>> /\ Len(t) = 0
    BY <1>3
  <2>2. f = [i \in 0..0 |-> IF i = 0 THEN <<>>
                ELSE IF t[i] = x THEN f[i - 1] ELSE Append(f[i - 1], t[i])]
    OBVIOUS
  <2> HIDE DEF f
  <2>3. IsKept(f, t, x)
    BY <2>1, <2>2, Zenon DEF IsKept
  <2> QED
    BY <1>2, <2>3
<1>4. CASE t # <<>>
  <2>1. PICK u \in Seq(Obj), p \in Obj : t = Append(u, p)
    BY <1>4, SequenceEmptyOrAppend
  <2>2. Len(u) \in Nat /\ Len(t) = Len(u) + 1
    BY <2>1, AppendProperties, LenProperties
  <2>3. Has(u)
    BY <1>1, <1>2, <2>2
  <2>4. Has(t)
    BY <2>1, <2>3, KeptExtends
  <2> QED
    BY <1>2, <2>4
<1> QED
  BY <1>3, <1>4

\* What is kept of a prefix comes from the prefix, without the object, in the order it
\* had there.
LEMMA KeptOfPrefix ==
    ASSUME NEW s \in Seq(Obj), NEW x, NEW f, IsKept(f, s, x)
    PROVE  \A n \in 0..Len(s) :
              /\ f[n] \in Seq(Obj)
              /\ \A j \in DOMAIN f[n] : f[n][j] # x /\ \E i \in 1..n : f[n][j] = s[i]
              /\ Distinct(s) => Distinct(f[n])
<1> DEFINE Good(n) == /\ f[n] \in Seq(Obj)
                      /\ \A j \in DOMAIN f[n] : f[n][j] # x /\ \E i \in 1..n : f[n][j] = s[i]
                      /\ Distinct(s) => Distinct(f[n])
           T == {n \in 0..Len(s) : ~Good(n)}
<1>0. Len(s) \in Nat /\ DOMAIN s = 1..Len(s) /\ s \in [1..Len(s) -> Obj]
  BY LenProperties
<1> SUFFICES T = {}
  OBVIOUS
<1> SUFFICES ASSUME T # {} PROVE FALSE
  OBVIOUS
<1>1. PICK n \in T : \A m \in T : n <= m
  <2>1. T \in SUBSET Nat
    BY <1>0
  <2> HIDE DEF T
  <2> QED
    BY <2>1, LeastNat
<1>2. n \in 0..Len(s) /\ ~Good(n)
  BY <1>1
<1>3. n # 0
  <2> SUFFICES ASSUME n = 0 PROVE FALSE
    OBVIOUS
  <2>1. f[0] = <<>>
    BY <1>0 DEF IsKept
  <2>2. Good(0)
    BY <2>1 DEF Distinct
  <2> QED
    BY <1>2, <2>2
<1>4. n - 1 \in 0..Len(s) /\ n \in 1..Len(s) /\ n - 1 \in Nat
  BY <1>0, <1>2, <1>3
<1>5. Good(n - 1)
  BY <1>0, <1>1, <1>4
<1>6. f[n] = IF s[n] = x THEN f[n - 1] ELSE Append(f[n - 1], s[n])
  BY <1>2, <1>3, Zenon DEF IsKept
<1>7. CASE s[n] = x
  <2>1. f[n] = f[n - 1]
    BY <1>6, <1>7
  <2>2. \A i \in 1..(n - 1) : i \in 1..n
    BY <1>4
  <2>3. Good(n)
    BY <1>5, <2>1, <2>2, Zenon
  <2> QED
    BY <1>2, <2>3
<1>8. CASE s[n] # x
  <2> DEFINE r == f[n - 1]
             q == Append(r, s[n])
  <2>1. f[n] = q
    BY <1>6, <1>8
  <2>2. s[n] \in Obj /\ r \in Seq(Obj)
    BY <1>0, <1>4, <1>5
  <2>3. /\ q \in Seq(Obj)
        /\ Len(r) \in Nat /\ Len(q) = Len(r) + 1
        /\ DOMAIN r = 1..Len(r) /\ DOMAIN q = 1..(Len(r) + 1)
        /\ \A j \in 1..Len(r) : q[j] = r[j]
        /\ q[Len(r) + 1] = s[n]
    <3> HIDE DEF r
    <3> QED
      BY <2>2, AppendProperties, LenProperties
  <2>4. \A j \in DOMAIN r : r[j] # x /\ \E i \in 1..(n - 1) : r[j] = s[i]
    BY <1>5
  <2>5. Distinct(s) => Distinct(r)
    BY <1>5
  <2> HIDE DEF r, q
  <2>6. \A j \in DOMAIN q : q[j] # x /\ \E i \in 1..n : q[j] = s[i]
    BY <1>4, <1>8, <2>3, <2>4
  <2>7. ASSUME Distinct(s), NEW j \in DOMAIN q, NEW i \in DOMAIN q, q[j] = q[i]
        PROVE  j = i
    <3>1. \A m \in DOMAIN r : r[m] # s[n]
      BY <1>0, <1>4, <2>4, <2>7 DEF Distinct
    <3> QED
      BY <2>3, <2>5, <2>7, <3>1 DEF Distinct
  <2>8. Distinct(s) => Distinct(q)
    BY <2>7 DEF Distinct
  <2>9. Good(n)
    BY <2>1, <2>3, <2>6, <2>8, Zenon
  <2> QED
    BY <1>2, <2>9
<1> QED
  BY <1>7, <1>8

\* A removal removes, invents nothing and doubles nothing.
LEMMA WithoutShrinks ==
    ASSUME NEW s \in Seq(Obj), NEW x
    PROVE  /\ Without(s, x) \in Seq(Obj)
           /\ Members(Without(s, x)) \subseteq Members(s) \ {x}
           /\ Distinct(s) => Distinct(Without(s, x))
<1> DEFINE h == CHOOSE h : IsKept(h, s, x)
<1>1. IsKept(h, s, x)
  BY KeptExists
<1>2. Without(s, x) = h[Len(s)]
  BY DEF Without, IsKept
<1>3. Len(s) \in Nat /\ Len(s) \in 0..Len(s) /\ DOMAIN s = 1..Len(s)
  BY LenProperties
<1> HIDE DEF h
<1>4. /\ h[Len(s)] \in Seq(Obj)
      /\ \A j \in DOMAIN h[Len(s)] :
            h[Len(s)][j] # x /\ \E i \in 1..Len(s) : h[Len(s)][j] = s[i]
      /\ Distinct(s) => Distinct(h[Len(s)])
  BY <1>1, <1>3, KeptOfPrefix, Zenon
<1>5. Members(h[Len(s)]) \subseteq Members(s) \ {x}
  BY <1>3, <1>4 DEF Members
<1> QED
  BY <1>2, <1>4, <1>5, Zenon

-------------------------------------------------------------------------------
(* The inductive invariant.                                                *)

ConnRec ==
    [key : Key \cup {None}, phase : Phases, err : BOOLEAN, ready : BOOLEAN,
     local : SUBSET Both, peer : SUBSET Both, rx : Nat, gen : Nat, ticking : BOOLEAN]
Packet ==
    [op : {"request", "response", "rst", "rw", "shutdown"}, key : Key,
     flags : SUBSET Both]
Used(o) == conn[o].phase # "unused"

ObjectsTyped ==
    /\ conn \in [Obj -> ConnRec]
    /\ generation \in Nat
    /\ inbound \in Seq(Packet)
TablesTyped ==
    /\ connections \in [Key -> Obj \cup {None}]
    /\ closing \in [Key -> Seq(Obj)]

\* What the tables hold under a ConnId was allocated, and for that ConnId.
Placed ==
    \A k \in Key : \A o \in Obj :
        connections[k] = o \/ o \in Members(closing[k]) => Used(o) /\ conn[o].key = k

\* Under one ConnId nothing is listed twice.
Once ==
    \A k \in Key : Distinct(closing[k]) /\ connections[k] \notin Members(closing[k])

\* The object the RX taskless is about to insert is its own, and in no table.
InsertIsNew ==
    rx.at = "insert" =>
        /\ rx.obj \in Obj /\ rx.key \in Key
        /\ Used(rx.obj) /\ conn[rx.obj].key = rx.key
        /\ ~Tabled(rx.obj)

IInv == ObjectsTyped /\ TablesTyped /\ Placed /\ Once /\ InsertIsNew

-------------------------------------------------------------------------------
(* What a step does to the objects and to the tables.                      *)

\* Entries leave, and none is added.
Shrinks ==
    /\ TablesTyped'
    /\ \A k \in Key :
        /\ connections'[k] \in {connections[k], None}
        /\ Members(closing'[k]) \subseteq Members(closing[k])
        /\ Distinct(closing[k]) => Distinct(closing'[k])

\* The active connection of a ConnId becomes the youngest closing one.
Moves(k) ==
    /\ k \in Key /\ connections[k] # None
    /\ connections' = [connections EXCEPT ![k] = None]
    /\ closing' = [closing EXCEPT ![k] = Append(@, connections[k])]

\* A connection in no table becomes the active one of its ConnId.
Inserts(k, o) ==
    /\ k \in Key /\ o \in Obj /\ connections[k] = None
    /\ ~Tabled(o) /\ conn'[o].phase # "unused" /\ conn'[o].key = k
    /\ connections' = [connections EXCEPT ![k] = o]
    /\ closing' = closing


\* An outcome of such a step for the objects.
Kept(c) ==
    /\ c \in [Obj -> ConnRec]
    /\ \A o \in Obj : Used(o) => c[o].phase # "unused" /\ c[o].key = conn[o].key

\* Assigning a field keeps what the proof needs, whatever the object.
LEMMA FieldKept ==
    ASSUME NEW c, Kept(c), NEW o
    PROVE  /\ \A v \in Nat : Kept([c EXCEPT ![o].gen = v])
           /\ \A v \in Nat : Kept([c EXCEPT ![o].rx = v])
           /\ \A v \in BOOLEAN : Kept([c EXCEPT ![o].ticking = v])
           /\ \A v \in BOOLEAN : Kept([c EXCEPT ![o].err = v])
           /\ \A v \in BOOLEAN : Kept([c EXCEPT ![o].ready = v])
           /\ \A v \in SUBSET Both : Kept([c EXCEPT ![o].local = v])
           /\ \A v \in SUBSET Both : Kept([c EXCEPT ![o].peer = v])
           /\ \A v \in Phases \ {"unused"} : Kept([c EXCEPT ![o].phase = v])
<1> USE DEF Kept, Used, ConnRec
<1>1. CASE o \in Obj
  <2>1. ASSUME NEW v \in Nat PROVE Kept([c EXCEPT ![o].gen = v])
    BY <1>1
  <2>2. ASSUME NEW v \in Nat PROVE Kept([c EXCEPT ![o].rx = v])
    BY <1>1
  <2>3. ASSUME NEW v \in BOOLEAN PROVE Kept([c EXCEPT ![o].ticking = v])
    BY <1>1
  <2>4. ASSUME NEW v \in BOOLEAN PROVE Kept([c EXCEPT ![o].err = v])
    BY <1>1
  <2>5. ASSUME NEW v \in BOOLEAN PROVE Kept([c EXCEPT ![o].ready = v])
    BY <1>1
  <2>6. ASSUME NEW v \in SUBSET Both PROVE Kept([c EXCEPT ![o].local = v])
    BY <1>1
  <2>7. ASSUME NEW v \in SUBSET Both PROVE Kept([c EXCEPT ![o].peer = v])
    BY <1>1
  <2>8. ASSUME NEW v \in Phases \ {"unused"} PROVE Kept([c EXCEPT ![o].phase = v])
    BY <1>1
  <2> HIDE DEF Kept
  <2> QED
    BY <2>1, <2>2, <2>3, <2>4, <2>5, <2>6, <2>7, <2>8
<1>2. CASE o \notin Obj
  BY <1>2
<1> QED
  BY <1>1, <1>2

LEMMA NothingChanged == ASSUME ObjectsTyped PROVE Kept(conn)
BY DEF Kept, ObjectsTyped, Used

LEMMA ArmedKept ==
    ASSUME ObjectsTyped, NEW o
    PROVE  Kept(Armed(o))
<1> DEFINE c == [conn EXCEPT ![o].gen = generation]
<1>1. Kept(c)
  BY FieldKept, NothingChanged DEF ObjectsTyped
<1>2. Armed(o) = [c EXCEPT ![o].ticking = TRUE]
  BY DEF Armed
<1> HIDE DEF c
<1>3. Kept([c EXCEPT ![o].ticking = TRUE])
  BY <1>1, FieldKept
<1> QED
  BY <1>2, <1>3, Zenon

LEMMA WithRstKept ==
    ASSUME ObjectsTyped, NEW o
    PROVE  Kept(WithRst(o))
<1> DEFINE c1 == [conn EXCEPT ![o].phase = "Reset"]
           c2 == [c1 EXCEPT ![o].err = TRUE]
           c3 == [c2 EXCEPT ![o].ready = TRUE]
           c4 == [c3 EXCEPT ![o].gen = 0]
           c5 == [c4 EXCEPT ![o].ticking = FALSE]
<1>0. WithRst(o) = c5
  BY DEF WithRst
<1> HIDE DEF c5
<1> USE FieldKept
<1>1. Kept(c1)
  BY NothingChanged DEF Phases
<1> HIDE DEF c1
<1>2. Kept(c2)
  BY <1>1
<1> HIDE DEF c2
<1>3. Kept(c3)
  BY <1>2
<1> HIDE DEF c3
<1>4. Kept(c4)
  BY <1>3
<1> HIDE DEF c4
<1>5. Kept(c5)
  BY <1>4 DEF c5
<1> QED
  BY <1>0, <1>5

LEMMA LocallyShutKept ==
    ASSUME ObjectsTyped, NEW o, NEW dirs \in SUBSET Both
    PROVE  Kept(LocallyShut(o, dirs))
<1>1. CASE o \notin Obj
  <2>1. LocallyShut(o, dirs) = conn
    BY <1>1 DEF LocallyShut, ObjectsTyped
  <2> QED
    BY <2>1, NothingChanged
<1>2. CASE o \in Obj
  <2> DEFINE c == [conn EXCEPT ![o].local = @ \cup dirs]
             p == IF ReadyToReset(o, dirs) THEN "Closed"
                  ELSE IF FullyShut(o, dirs) THEN "Closing" ELSE conn[o].phase
             d == [c EXCEPT ![o].phase = p]
  <2>1. conn[o].local \cup dirs \in SUBSET Both
    BY <1>2 DEF ObjectsTyped, ConnRec
  <2>2. Kept(c)
    BY <2>1, FieldKept, NothingChanged
  <2>3. LocallyShut(o, dirs) = d
    BY <1>2 DEF LocallyShut, ObjectsTyped, ConnRec
  <2>4. p \in Phases /\ (Used(o) => p # "unused")
    BY <1>2 DEF ObjectsTyped, ConnRec, Phases, Used
  <2> HIDE DEF c, p
  <2>5. Kept(d)
    BY <1>2, <2>2, <2>4 DEF Kept, ConnRec, Used
  <2> QED
    BY <2>3, <2>5
<1> QED
  BY <1>1, <1>2

LEMMA TimedOutKept ==
    ASSUME ObjectsTyped, NEW o
    PROVE  Kept(TimedOut(o))
<1> DEFINE c0 == [conn EXCEPT ![o].gen = 0]
           c == [c0 EXCEPT ![o].ticking = FALSE]
           c1 == [c EXCEPT ![o].phase = "Reset"]
           c2 == [c1 EXCEPT ![o].err = TRUE]
           c3 == [c2 EXCEPT ![o].ready = TRUE]
           c4 == [c EXCEPT ![o].phase = "Closed"]
<1>0. TimedOut(o) \in {c, c3, c4}
  BY DEF TimedOut
<1> HIDE DEF c3, c4
<1> USE FieldKept
<1>1. Kept(c0)
  BY NothingChanged
<1> HIDE DEF c0
<1>2. Kept(c)
  BY <1>1
<1> HIDE DEF c
<1>3. Kept(c1) /\ Kept(c4)
  BY <1>2 DEF c4, Phases
<1> HIDE DEF c1
<1>4. Kept(c2)
  BY <1>3
<1> HIDE DEF c2
<1>5. Kept(c3)
  BY <1>4 DEF c3
<1> QED
  BY <1>0, <1>2, <1>3, <1>5

LEMMA NewConnKept ==
    ASSUME ObjectsTyped, NEW o \in Fresh, NEW k \in Key,
           NEW p \in {"Connecting", "Connected"}
    PROVE  /\ Kept([conn EXCEPT ![o] = NewConn(k, p)])
           /\ [conn EXCEPT ![o] = NewConn(k, p)][o].phase # "unused"
           /\ [conn EXCEPT ![o] = NewConn(k, p)][o].key = k
<1>1. NewConn(k, p) \in ConnRec /\ NewConn(k, p).phase = p /\ NewConn(k, p).key = k
  BY DEF NewConn, ConnRec, Phases
<1> QED
  BY <1>1 DEF ObjectsTyped, Kept, Used, Fresh

-------------------------------------------------------------------------------
(* The shapes a step can have, and what each of them preserves.            *)

RxQuiet == rx' = rx \/ rx'.at # "insert"
RxTookFresh ==
    /\ UNCHANGED tables
    /\ \E o \in Fresh : /\ rx'.obj = o /\ rx'.key \in Key
                        /\ conn'[o].phase # "unused" /\ conn'[o].key = rx'.key

Shape ==
    /\ Kept(conn')
    /\ generation' \in Nat /\ inbound' \in Seq(Packet)
    /\ \/ Shrinks /\ RxQuiet
       \/ (\E k \in Key : Moves(k)) /\ RxQuiet
       \/ (\E k \in Key : \E o \in Fresh : Inserts(k, o)) /\ rx' = rx
       \/ /\ rx.at = "insert" /\ rx'.at # "insert"
          /\ \E k \in Key : Inserts(k, rx.obj)
       \/ RxTookFresh

LEMMA TabledOnce ==
    ASSUME IInv, NEW o \in Obj, NEW k \in Key,
           connections[k] = o \/ o \in Members(closing[k])
    PROVE  Tabled(o) /\ Used(o) /\ conn[o].key = k
BY DEF IInv, Placed, Tabled

LEMMA SeqMembers ==
    ASSUME NEW s \in Seq(Obj)
    PROVE  /\ Members(s) \subseteq Obj
           /\ \A o \in Obj : Members(Append(s, o)) = Members(s) \cup {o}
           /\ \A o \in Obj : Distinct(s) /\ o \notin Members(s) => Distinct(Append(s, o))
<1>1. Len(s) \in Nat /\ DOMAIN s = 1..Len(s) /\ s \in [1..Len(s) -> Obj]
  BY LenProperties
<1>2. Members(s) \subseteq Obj
  BY <1>1 DEF Members
<1>3. ASSUME NEW o \in Obj
      PROVE  /\ Members(Append(s, o)) = Members(s) \cup {o}
             /\ Distinct(s) /\ o \notin Members(s) => Distinct(Append(s, o))
  <2> DEFINE q == Append(s, o)
  <2>1. /\ Len(q) = Len(s) + 1 /\ DOMAIN q = 1..(Len(s) + 1)
        /\ \A i \in 1..Len(s) : q[i] = s[i]
        /\ q[Len(s) + 1] = o
    BY AppendProperties, LenProperties
  <2> HIDE DEF q
  <2>2. Members(q) = Members(s) \cup {o}
    BY <1>1, <2>1 DEF Members
  <2>3. Distinct(s) /\ o \notin Members(s) => Distinct(q)
    BY <1>1, <2>1 DEF Members, Distinct
  <2> QED
    BY <2>2, <2>3 DEF q
<1> QED
  BY <1>2, <1>3

LEMMA ShrinksPreserves ==
    ASSUME IInv, Kept(conn'), Shrinks
    PROVE  /\ TablesTyped' /\ Placed' /\ Once'
           /\ \A o \in Obj : Tabled(o)' => Tabled(o)
           /\ \A o \in Obj : \A k \in Key : connections'[k] = o => connections[k] = o
<1>1. \A k \in Key : \A o \in Obj :
        /\ connections'[k] = o => connections[k] = o
        /\ o \in Members(closing'[k]) => o \in Members(closing[k])
  BY SpaceAssumption DEF Shrinks
<1>2. Placed'
  BY <1>1 DEF IInv, Placed, Kept, Used
<1>3. ASSUME NEW k \in Key
      PROVE  Distinct(closing'[k]) /\ connections'[k] \notin Members(closing'[k])
  <2>1. Distinct(closing'[k])
    BY DEF Shrinks, IInv, Once
  <2>2. Members(closing'[k]) \subseteq Members(closing[k]) /\ Members(closing[k]) \subseteq Obj
    BY SeqMembers DEF Shrinks, IInv, TablesTyped
  <2>3. connections'[k] = connections[k] \/ connections'[k] = None
    BY DEF Shrinks
  <2>4. None \notin Obj
    BY SpaceAssumption
  <2>5. connections[k] \notin Members(closing[k])
    BY DEF IInv, Once
  <2> QED
    BY <2>1, <2>2, <2>3, <2>4, <2>5
<1>4. Once'
  BY <1>3 DEF Once, Distinct, Members
<1> QED
  BY <1>1, <1>2, <1>4 DEF Tabled, Shrinks, Members

LEMMA MovesPreserves ==
    ASSUME IInv, Kept(conn'), NEW m \in Key, Moves(m)
    PROVE  /\ TablesTyped' /\ Placed' /\ Once'
           /\ \A o \in Obj : Tabled(o)' => Tabled(o)
           /\ \A o \in Obj : \A k \in Key : connections'[k] = o => connections[k] = o
<1> DEFINE a == connections[m]
<1>1. a \in Obj /\ None \notin Obj /\ closing[m] \in Seq(Obj)
  BY SpaceAssumption DEF Moves, IInv, TablesTyped
<1>2. \A k \in Key : /\ connections'[k] = IF k = m THEN None ELSE connections[k]
                     /\ closing'[k] = IF k = m THEN Append(closing[m], a) ELSE closing[k]
  BY DEF Moves, IInv, TablesTyped
<1>3. TablesTyped'
  <2>1. Append(closing[m], a) \in Seq(Obj)
    BY <1>1, AppendProperties
  <2> QED
    BY <2>1, Zenon DEF Moves, IInv, TablesTyped
<1>4. a \notin Members(closing[m]) /\ Distinct(closing[m])
  BY DEF IInv, Once
<1> HIDE DEF a
<1>5. /\ Members(closing'[m]) = Members(closing[m]) \cup {a}
      /\ Distinct(closing'[m])
  BY <1>1, <1>2, <1>4, SeqMembers
<1>6. \A k \in Key : \A o \in Obj :
        /\ connections'[k] = o => connections[k] = o
        /\ o \in Members(closing'[k])
             => connections[k] = o \/ o \in Members(closing[k])
  BY <1>1, <1>2, <1>5 DEF a
<1>7. Placed'
  BY <1>6 DEF IInv, Placed, Kept, Used
<1>8. ASSUME NEW k \in Key
      PROVE  Distinct(closing'[k]) /\ connections'[k] \notin Members(closing'[k])
  <2>1. CASE k = m
    <3>1. Members(closing'[m]) \subseteq Obj
      BY <1>1, <1>5, SeqMembers
    <3> QED
      BY <1>1, <1>2, <1>5, <2>1, <3>1
  <2>2. CASE k # m
    BY <1>2, <2>2, Zenon DEF IInv, Once
  <2> QED
    BY <2>1, <2>2
<1>9. Once'
  BY <1>8 DEF Once, Distinct, Members
<1> QED
  BY <1>3, <1>6, <1>7, <1>9 DEF Tabled, Members

LEMMA InsertsPreserves ==
    ASSUME IInv, Kept(conn'), NEW m \in Key, NEW a \in Obj, Inserts(m, a)
    PROVE  /\ TablesTyped' /\ Placed' /\ Once'
           /\ \A o \in Obj : Tabled(o)' => Tabled(o) \/ o = a
           /\ \A o \in Obj : \A k \in Key : connections'[k] = o => connections[k] = o \/ o = a
<1>1. /\ \A k \in Key : connections'[k] = IF k = m THEN a ELSE connections[k]
      /\ closing' = closing /\ ~Tabled(a)
      /\ conn'[a].phase # "unused" /\ conn'[a].key = m
  BY DEF Inserts, IInv, TablesTyped
<1>2. TablesTyped'
  BY DEF Inserts, IInv, TablesTyped
<1>3. \A k \in Key : connections[k] # a /\ a \notin Members(closing[k])
  BY <1>1 DEF Tabled
<1>4. Placed'
  BY <1>1, <1>3 DEF IInv, Placed, Kept, Used
<1>5. Once'
  BY <1>1, <1>3 DEF IInv, Once
<1> QED
  BY <1>1, <1>2, <1>4, <1>5 DEF Tabled

\* What the tables hold of after any shape of step, and where an active
\* connection can come from.
LEMMA ShapeTables ==
    ASSUME IInv, Shape
    PROVE  /\ TablesTyped' /\ Placed' /\ Once'
           /\ \A o \in Obj : Tabled(o)' =>
                \/ Tabled(o) \/ ~Used(o)
                \/ rx.at = "insert" /\ rx'.at # "insert" /\ o = rx.obj
           /\ \A o \in Obj : \A k \in Key : connections'[k] = o =>
                \/ connections[k] = o \/ ~Used(o)
                \/ rx.at = "insert" /\ o = rx.obj
<1>1. CASE Shrinks
  BY <1>1, ShrinksPreserves DEF Shape
<1>2. CASE \E k \in Key : Moves(k)
  BY <1>2, MovesPreserves DEF Shape
<1>3. CASE \E k \in Key : \E o \in Fresh : Inserts(k, o)
  <2>1. PICK k \in Key, o \in Fresh : Inserts(k, o)
    BY <1>3
  <2>2. o \in Obj /\ ~Used(o)
    BY <2>1 DEF Fresh, Used
  <2> QED
    BY <2>1, <2>2, InsertsPreserves DEF Shape
<1>4. CASE /\ rx.at = "insert" /\ rx'.at # "insert"
           /\ \E k \in Key : Inserts(k, rx.obj)
  <2>1. PICK k \in Key : Inserts(k, rx.obj)
    BY <1>4
  <2>2. PICK o \in Obj : o = rx.obj
    BY <2>1 DEF Inserts
  <2>3. Inserts(k, o)
    BY <2>1, <2>2
  <2> QED
    BY <1>4, <2>2, <2>3, InsertsPreserves DEF Shape
<1>5. CASE RxTookFresh
  <2>1. connections' = connections /\ closing' = closing
    BY <1>5 DEF RxTookFresh, tables
  <2>2. TablesTyped' /\ Once'
    BY <2>1 DEF IInv, TablesTyped, Once
  <2>3. Placed'
    BY <2>1 DEF IInv, Placed, Shape, Kept, Used
  <2>4. \A o \in Obj : Tabled(o)' => Tabled(o)
    BY <2>1 DEF Tabled
  <2> QED
    BY <2>1, <2>2, <2>3, <2>4
<1> QED
  BY <1>1, <1>2, <1>3, <1>4, <1>5 DEF Shape

LEMMA ShapeIInv ==
    ASSUME IInv, Shape
    PROVE  IInv'
<1>1. ObjectsTyped'
  BY DEF Shape, Kept, ObjectsTyped
<1>2. InsertIsNew'
  <2> SUFFICES ASSUME rx'.at = "insert"
               PROVE  /\ rx'.obj \in Obj /\ rx'.key \in Key
                      /\ Used(rx.obj)' /\ conn'[rx'.obj].key = rx'.key
                      /\ ~Tabled(rx.obj)'
    BY DEF InsertIsNew
  <2>1. CASE rx' = rx
    <3>1. /\ rx.at = "insert" /\ rx.obj \in Obj /\ rx.key \in Key
          /\ Used(rx.obj) /\ conn[rx.obj].key = rx.key /\ ~Tabled(rx.obj)
      BY <2>1 DEF IInv, InsertIsNew
    <3>2. PICK o \in Obj : o = rx.obj
      BY <3>1
    <3>3. Used(o) /\ ~Tabled(o)
      BY <3>1, <3>2
    <3>4. ~Tabled(o)'
      BY <2>1, <3>1, <3>2, <3>3, ShapeTables
    <3>5. conn'[o].phase # "unused" /\ conn'[o].key = conn[o].key
      BY <3>3 DEF Shape, Kept
    <3> QED
      BY <2>1, <3>1, <3>2, <3>4, <3>5 DEF Used, Tabled
  <2>2. CASE RxTookFresh
    <3>1. PICK o \in Fresh : /\ rx'.obj = o /\ rx'.key \in Key
                             /\ conn'[o].phase # "unused" /\ conn'[o].key = rx'.key
      BY <2>2 DEF RxTookFresh
    <3>2. o \in Obj /\ ~Used(o)
      BY <3>1 DEF Fresh, Used
    <3>3. ~Tabled(o)
      BY <3>2, TabledOnce DEF Tabled
    <3>4. ~Tabled(o)'
      BY <2>2, <3>3 DEF RxTookFresh, tables, Tabled
    <3> QED
      BY <3>1, <3>2, <3>4 DEF Used, Tabled
  <2> QED
    BY <2>1, <2>2 DEF Shape, RxQuiet
<1> QED
  BY <1>1, <1>2, ShapeTables DEF IInv

\* VsockSpace::new: nothing is allocated, both tables are empty.
THEOREM InitIInv == Init => IInv
<1> SUFFICES ASSUME Init PROVE IInv
  OBVIOUS
<1>1. ObjectsTyped
  <2>1. NewConn(None, "unused") \in ConnRec
    BY DEF NewConn, ConnRec, Phases
  <2> QED
    BY <2>1 DEF Init, ObjectsTyped
<1>2. TablesTyped
  BY DEF Init, TablesTyped
<1>3. \A k \in Key : closing[k] = <<>> /\ connections[k] = None /\ Members(closing[k]) = {}
  BY DEF Init, Members
<1>4. Placed
  BY <1>3, SpaceAssumption DEF Placed
<1>5. Once
  BY <1>3 DEF Once, Distinct
<1>6. InsertIsNew
  BY DEF Init, InsertIsNew, RxIdle
<1> QED
  BY <1>1, <1>2, <1>4, <1>5, <1>6 DEF IInv

-------------------------------------------------------------------------------
(* The shape of every step.                                                *)

LEMMA SameShrinks ==
    ASSUME TablesTyped, UNCHANGED tables
    PROVE  Shrinks
BY DEF TablesTyped, tables, Shrinks

LEMMA RemovalShrinks ==
    ASSUME TablesTyped, NEW k, connections' = connections \/ connections' = WithoutActive(k),
           \/ closing' = closing
           \/ \E x : closing' = [closing EXCEPT ![k] = Without(@, x)]
           \/ closing' = [closing EXCEPT ![k] = <<>>]
    PROVE  Shrinks
<1>1. /\ connections' \in [Key -> Obj \cup {None}]
      /\ \A j \in Key : connections'[j] \in {connections[j], None}
  BY DEF TablesTyped, WithoutActive
<1>2. CASE k \notin Key
  <2>1. closing' = closing
    BY <1>2 DEF TablesTyped
  <2> QED
    BY <1>1, <2>1 DEF Shrinks, TablesTyped
<1>3. CASE k \in Key
  <2>1. PICK s \in Seq(Obj) : /\ closing' = [closing EXCEPT ![k] = s]
                              /\ Members(s) \subseteq Members(closing[k])
                              /\ Distinct(closing[k]) => Distinct(s)
    <3>0. closing[k] \in Seq(Obj)
      BY <1>3 DEF TablesTyped
    <3>1. CASE closing' = closing
      <4>1. closing' = [closing EXCEPT ![k] = closing[k]]
        BY <3>1, <1>3 DEF TablesTyped
      <4> QED
        BY <4>1, <3>0
    <3>2. CASE \E x : closing' = [closing EXCEPT ![k] = Without(@, x)]
      <4>1. PICK x : closing' = [closing EXCEPT ![k] = Without(@, x)]
        BY <3>2
      <4>2. /\ Without(closing[k], x) \in Seq(Obj)
            /\ Members(Without(closing[k], x)) \subseteq Members(closing[k])
            /\ Distinct(closing[k]) => Distinct(Without(closing[k], x))
        BY <3>0, WithoutShrinks
      <4> QED
        BY <4>1, <4>2, Zenon
    <3>3. CASE closing' = [closing EXCEPT ![k] = <<>>]
      <4>1. <<>> \in Seq(Obj) /\ Members(<<>>) = {} /\ Distinct(<<>>)
        BY DEF Members, Distinct
      <4> QED
        BY <3>3, <4>1
    <3> QED
      BY <3>1, <3>2, <3>3
  <2>2. /\ closing' \in [Key -> Seq(Obj)]
        /\ \A j \in Key : closing'[j] = IF j = k THEN s ELSE closing[j]
    BY <1>3, <2>1 DEF TablesTyped
  <2>3. \A j \in Key : /\ Members(closing'[j]) \subseteq Members(closing[j])
                       /\ Distinct(closing[j]) => Distinct(closing'[j])
    BY <2>1, <2>2
  <2> QED
    BY <1>1, <2>2, <2>3 DEF Shrinks, TablesTyped
<1> QED
  BY <1>2, <1>3

LEMMA MoveToClosingShape ==
    ASSUME TablesTyped, NEW k, MoveToClosing(k)
    PROVE  Shrinks \/ \E m \in Key : Moves(m)
<1>1. CASE k \notin Key
  <2>1. UNCHANGED tables
    BY <1>1 DEF TablesTyped, MoveToClosing, WithoutActive, tables
  <2> QED
    BY <2>1, SameShrinks
<1>2. CASE k \in Key /\ connections[k] = None
  BY <1>2, RemovalShrinks DEF MoveToClosing
<1>3. CASE k \in Key /\ connections[k] # None
  <2>1. Moves(k)
    BY <1>3 DEF MoveToClosing, Moves, WithoutActive
  <2> QED
    BY <1>3, <2>1
<1> QED
  BY <1>1, <1>2, <1>3

\* Steps that let the tables be.
LEMMA TablesSameShape ==
    ASSUME IInv, Kept(conn'), UNCHANGED tables, RxQuiet,
           generation' \in Nat, inbound' \in Seq(Packet)
    PROVE  Shape
BY SameShrinks DEF IInv, Shape

\* The RX taskless takes the packet in front.
LEMMA RxTakesType ==
    ASSUME IInv, NEW op, RxTakes(op)
    PROVE  /\ inbound' \in Seq(Packet)
           /\ Head(inbound) \in Packet
           /\ rx.at = "idle"
<1>1. inbound \in Seq(Packet) /\ inbound # <<>>
  BY DEF IInv, ObjectsTyped, RxTakes
<1> QED
  BY <1>1, HeadTailProperties DEF RxTakes

LEMMA ConnectInsertShape ==
    ASSUME IInv, NEW s \in Active, ConnectInsert(s)
    PROVE  Shape
<1>1. PICK o \in Fresh : /\ connections' = [connections EXCEPT ![s] = o]
                         /\ conn' = [conn EXCEPT ![o] = NewConn(s, "Connecting")]
  BY DEF ConnectInsert
<1>2. s \in Key /\ o \in Obj /\ ~Used(o)
  BY DEF Key, Fresh, Used
<1>3. Kept(conn') /\ conn'[o].phase # "unused" /\ conn'[o].key = s
  BY <1>1, <1>2, NewConnKept DEF IInv
<1>4. ~Tabled(o)
  BY <1>2, TabledOnce DEF Tabled
<1>5. Inserts(s, o)
  BY <1>1, <1>2, <1>3, <1>4 DEF Inserts, ConnectInsert
<1>6. rx' = rx /\ generation' \in Nat /\ inbound' \in Seq(Packet)
  BY DEF ConnectInsert, envVars, IInv, ObjectsTyped
<1> QED
  BY <1>2, <1>3, <1>5, <1>6 DEF Shape

\* The other steps of a socket's call: they take connections out of the tables,
\* or move one, or leave the tables alone.
LEMMA SockShape ==
    ASSUME IInv, NEW s \in Sock, SockStep(s)
    PROVE  Shape
<1> USE DEF envVars, RxQuiet
<1>0. /\ ObjectsTyped /\ TablesTyped /\ Kept(conn)
      /\ generation \in Nat /\ inbound \in Seq(Packet)
  BY NothingChanged DEF IInv, ObjectsTyped
<1>1. CASE ConnectInsert(s)
  BY <1>1, ConnectInsertShape DEF ConnectInsert
<1>2. CASE \/ ConnectRequest(s) \/ ConnectUnwrap(s) \/ DropDecide(s) \/ SendShutdown(s)
           \/ SendRst(s) \/ Release(s) \/ Accept(s)
  <2>1. /\ UNCHANGED <<conn, tables, rx, generation, inbound>>
    BY <1>2 DEF ConnectRequest, ConnectUnwrap, DropDecide, SendShutdown, SendRst,
                Release, Accept
  <2> QED
    BY <1>0, <2>1, TablesSameShape
<1>3. CASE ConnectArm(s) \/ CloseArm(s)
  <2>1. /\ conn' = Armed(own[s]) /\ generation' = generation + 1
        /\ UNCHANGED <<tables, rx, inbound>>
    BY <1>3 DEF ConnectArm, CloseArm, ArmTimer
  <2> QED
    BY <1>0, <2>1, TablesSameShape, ArmedKept
<1>4. CASE ConnectFinish(s)
  <2>1. /\ conn' = [conn EXCEPT ![own[s]].err = FALSE]
        /\ UNCHANGED <<tables, rx, generation, inbound>>
    BY <1>4 DEF ConnectFinish
  <2>2. Kept(conn')
    BY <1>0, <2>1, FieldKept
  <2> QED
    BY <1>0, <2>1, <2>2, TablesSameShape
<1>5. CASE Recv(s)
  <2>1. /\ conn' = [conn EXCEPT ![own[s]].rx = conn[own[s]].rx - 1]
        /\ conn[own[s]].rx > 0
        /\ UNCHANGED <<tables, rx, generation, inbound>>
    BY <1>5 DEF Recv
  <2>2. Kept(conn')
    <3>1. CASE own[s] \in Obj
      <4>1. conn[own[s]].rx - 1 \in Nat
        BY <1>0, <2>1, <3>1 DEF ObjectsTyped, ConnRec
      <4> QED
        BY <1>0, <2>1, <4>1, FieldKept
    <3>2. CASE own[s] \notin Obj
      <4>1. conn' = conn
        BY <1>0, <2>1, <3>2 DEF ObjectsTyped
      <4> QED
        BY <1>0, <4>1
    <3> QED
      BY <3>1, <3>2
  <2> QED
    BY <1>0, <2>1, <2>2, TablesSameShape
<1>6. CASE DropBegin(s)
  <2> DEFINE o == own[s]
             p == IF conn[o].phase = "Connecting" THEN "Closed" ELSE conn[o].phase
  <2>1. /\ conn' = [conn EXCEPT ![o].phase = p]
        /\ UNCHANGED <<tables, rx, generation, inbound>>
    BY <1>6 DEF DropBegin
  <2>2. Kept(conn')
    <3>1. CASE o \in Obj
      <4>1. p \in Phases /\ (Used(o) => p # "unused")
        BY <1>0, <3>1 DEF ObjectsTyped, ConnRec, Phases, Used
      <4> HIDE DEF p, o
      <4> QED
        BY <1>0, <2>1, <3>1, <4>1, ZenonT(30) DEF Kept, Used, ConnRec
    <3>2. CASE o \notin Obj
      <4>1. conn' = conn
        BY <1>0, <2>1, <3>2 DEF ObjectsTyped
      <4> QED
        BY <1>0, <4>1
    <3> QED
      BY <3>1, <3>2
  <2> QED
    BY <1>0, <2>1, <2>2, TablesSameShape
<1>7. CASE (\E dirs \in SUBSET Both : Shutdown(s, dirs)) \/ DropShut(s)
  <2>1. PICK dirs \in SUBSET Both : /\ conn' = LocallyShut(own[s], dirs)
                                    /\ UNCHANGED <<tables, rx, generation, inbound>>
    BY <1>7 DEF Shutdown, DropShut
  <2> QED
    BY <1>0, <2>1, TablesSameShape, LocallyShutKept
<1>8. CASE ConnectUndo(s)
  <2>1. /\ connections' = WithoutActive(s) /\ closing' = closing
        /\ UNCHANGED <<conn, rx, generation, inbound>>
    BY <1>8 DEF ConnectUndo
  <2> QED
    BY <1>0, <2>1, RemovalShrinks DEF Shape
<1>9. CASE Unlist(s) \/ DropTable(s)
  <2>1. /\ \/ RemoveInstance(own[s]) \/ MoveToClosing(conn[own[s]].key) \/ UNCHANGED tables
        /\ UNCHANGED <<conn, rx, generation, inbound>>
    BY <1>9 DEF Unlist, DropTable
  <2>2. CASE RemoveInstance(own[s])
    BY <1>0, <2>1, <2>2, RemovalShrinks DEF Shape, RemoveInstance
  <2>3. CASE MoveToClosing(conn[own[s]].key)
    BY <1>0, <2>1, <2>3, MoveToClosingShape DEF Shape
  <2>4. CASE UNCHANGED tables
    BY <1>0, <2>1, <2>4, TablesSameShape
  <2> QED
    BY <2>1, <2>2, <2>3, <2>4
<1> QED
  BY <1>1, <1>2, <1>3, <1>4, <1>5, <1>6, <1>7, <1>8, <1>9 DEF SockStep, CallStep

\* The RX taskless.
LEMMA RxShape ==
    ASSUME IInv, RxStep
    PROVE  Shape
<1> USE DEF envVars, RxQuiet, RxFrame, RxAt, RxGoes, RxIdle
<1>0. /\ ObjectsTyped /\ TablesTyped /\ Kept(conn)
      /\ generation \in Nat /\ inbound \in Seq(Packet)
  BY NothingChanged DEF IInv, ObjectsTyped
<1>1. CASE RxRequest
  <2> DEFINE k == Head(inbound).key
  <2>1. inbound' \in Seq(Packet) /\ k \in Key
    BY <1>1, RxTakesType DEF RxRequest, Packet
  <2>2. UNCHANGED tables /\ generation' \in Nat
    BY <1>0, <1>1 DEF RxRequest
  <2>3. CASE k \in PassiveKey /\ listening
    <3>1. PICK o \in Fresh : /\ conn' = [conn EXCEPT ![o] = NewConn(k, "Connected")]
                             /\ rx'.obj = o /\ rx'.key = k
      BY <1>1, <2>3 DEF RxRequest
    <3> HIDE DEF k
    <3>2. Kept(conn') /\ conn'[o].phase # "unused" /\ conn'[o].key = k
      BY <1>0, <2>1, <3>1, NewConnKept, ZenonT(30)
    <3>3. RxTookFresh
      BY <2>1, <2>2, <3>1, <3>2 DEF RxTookFresh
    <3> QED
      BY <2>1, <2>2, <3>2, <3>3 DEF Shape
  <2>4. CASE ~(k \in PassiveKey /\ listening)
    <3>1. conn' = conn /\ rx'.at # "insert"
      BY <1>1, <2>4 DEF RxRequest
    <3> QED
      BY <1>0, <2>1, <2>2, <3>1, TablesSameShape
  <2> QED
    BY <2>3, <2>4
<1>2. CASE RxInsert
  <2>1. rx.at = "insert" /\ rx'.at # "insert" /\ UNCHANGED <<conn, generation, inbound>>
    BY <1>2 DEF RxInsert
  <2>2. CASE connections[rx.key] = None
    <3>1. /\ connections' = [connections EXCEPT ![rx.key] = rx.obj] /\ closing' = closing
      BY <1>2, <2>2 DEF RxInsert
    <3>2. /\ rx.obj \in Obj /\ rx.key \in Key /\ ~Tabled(rx.obj)
          /\ conn[rx.obj].phase # "unused" /\ conn[rx.obj].key = rx.key
      BY <2>1 DEF IInv, InsertIsNew, Used
    <3>3. Inserts(rx.key, rx.obj)
      BY <2>1, <2>2, <3>1, <3>2 DEF Inserts
    <3> QED
      BY <1>0, <2>1, <3>2, <3>3 DEF Shape
  <2>3. CASE connections[rx.key] # None
    <3>1. UNCHANGED tables
      BY <1>2, <2>3 DEF RxInsert, tables
    <3> QED
      BY <1>0, <2>1, <3>1, TablesSameShape
  <2> QED
    BY <2>2, <2>3
<1>3. CASE RxPush \/ RxRespond \/ RxRelease \/ RxSendRst
  <2>1. rx'.at # "insert" /\ UNCHANGED <<conn, tables, generation, inbound>>
    BY <1>3 DEF RxPush, RxRespond, RxRelease, RxSendRst
  <2> QED
    BY <1>0, <2>1, TablesSameShape
<1>4. CASE RxUndo
  <2>1. /\ connections' = WithoutActive(rx.key) /\ closing' = closing
        /\ rx'.at # "insert" /\ UNCHANGED <<conn, generation, inbound>>
    BY <1>4 DEF RxUndo
  <2> QED
    BY <1>0, <2>1, RemovalShrinks DEF Shape
<1>5. CASE RxUnlist
  <2>1. /\ RemoveInstance(rx.obj)
        /\ rx'.at # "insert" /\ UNCHANGED <<conn, generation, inbound>>
    BY <1>5 DEF RxUnlist
  <2> QED
    BY <1>0, <2>1, RemovalShrinks DEF Shape, RemoveInstance
<1>6. CASE RxOnRst
  <2>1. /\ conn' = WithRst(rx.obj)
        /\ rx'.at # "insert" /\ UNCHANGED <<tables, generation, inbound>>
    BY <1>6 DEF RxOnRst
  <2> QED
    BY <1>0, <2>1, TablesSameShape, WithRstKept
<1>7. CASE RxResponse
  <2> DEFINE o == connections[Head(inbound).key]
             c0 == [conn EXCEPT ![o].gen = 0]
             c1 == [c0 EXCEPT ![o].ticking = FALSE]
             c2 == [c1 EXCEPT ![o].phase = "Connected"]
             c3 == [c2 EXCEPT ![o].ready = TRUE]
  <2>1. /\ inbound' \in Seq(Packet) /\ UNCHANGED <<tables, rx, generation>>
    BY <1>7, RxTakesType, Zenon DEF RxResponse
  <2>2. conn' = conn \/ conn' = c3
    BY <1>7, Zenon DEF RxResponse
  <2> HIDE DEF c3, o
  <2>3. Kept(c0)
    BY <1>0, FieldKept
  <2> HIDE DEF c0
  <2>4. Kept(c1)
    BY <2>3, FieldKept
  <2> HIDE DEF c1
  <2>5. Kept(c2)
    BY <2>4, FieldKept DEF Phases
  <2> HIDE DEF c2
  <2>6. Kept(c3)
    BY <2>5, FieldKept DEF c3
  <2> QED
    BY <1>0, <2>1, <2>2, <2>6, TablesSameShape
<1>8. CASE RxRst
  <2> DEFINE k == Head(inbound).key
  <2>1. inbound' \in Seq(Packet) /\ UNCHANGED <<conn, generation>> /\ RxQuiet
    BY <1>8, RxTakesType DEF RxRst
  <2>2. /\ connections' = WithoutActive(k)
        /\ closing' = closing \/ closing' = [closing EXCEPT ![k] = <<>>]
    BY <1>8 DEF RxRst
  <2> HIDE DEF k
  <2>3. Shrinks
    BY <1>0, <2>2, RemovalShrinks
  <2> QED
    BY <1>0, <2>1, <2>3 DEF Shape
<1>9. CASE RxShutdown
  <2> DEFINE k == Head(inbound).key
             o == connections[k]
             theirs == conn[o].peer \cup Head(inbound).flags
             rst == theirs = Both /\ conn[o].local = Both /\ conn[o].rx = 0
             p == IF theirs # Both THEN conn[o].phase
                  ELSE IF rst THEN "Closed" ELSE "Closing"
  <2>1. /\ inbound' \in Seq(Packet) /\ UNCHANGED generation
        /\ k \in Key /\ Head(inbound).flags \in SUBSET Both
    BY <1>9, RxTakesType, Zenon DEF RxShutdown, Packet
  <2>2. CASE o = None
    <3>1. UNCHANGED <<conn, tables, rx>>
      BY <1>9, <2>2 DEF RxShutdown, tables
    <3> QED
      BY <1>0, <2>1, <3>1, TablesSameShape
  <2>3. CASE o # None
    <3>1. o \in Obj /\ Used(o)
      BY <2>1, <2>3 DEF IInv, TablesTyped, Placed
    <3> DEFINE A == conn' = [conn EXCEPT ![o].peer = theirs,
                                ![o].phase = IF theirs # Both THEN @
                                             ELSE IF rst THEN "Closed" ELSE "Closing"]
               B == connections' = IF theirs = Both THEN WithoutActive(k) ELSE connections
               C == closing' = IF theirs = Both /\ ~rst
                               THEN [closing EXCEPT ![k] = Append(@, o)] ELSE closing
               D == IF rst THEN RxGoes("rst", k, None, FALSE) ELSE UNCHANGED rx
               Rest == RxTakes("shutdown") /\ RxFrame /\ UNCHANGED txVars
    <3>2. Rest /\ IF o = None THEN UNCHANGED <<conn, tables, rx>> ELSE A /\ B /\ C /\ D
      BY <1>9, Zenon DEF RxShutdown
    <3>3. A /\ B /\ C /\ D
      <4> HIDE DEF A, B, C, D, Rest, o
      <4> QED
        BY <3>2, <2>3
    <3>4. /\ connections' = IF theirs = Both THEN WithoutActive(k) ELSE connections
          /\ closing' = IF theirs = Both /\ ~rst
                        THEN [closing EXCEPT ![k] = Append(@, o)] ELSE closing
          /\ RxQuiet
      <4>1. B /\ C /\ D
        BY <3>3, Zenon
      <4> HIDE DEF A
      <4> QED
        BY <4>1
    <3>5. Kept(conn')
      <4> DEFINE c == [conn EXCEPT ![o].peer = theirs]
      <4>1. conn' = [c EXCEPT ![o].phase = IF theirs # Both THEN @
                                           ELSE IF rst THEN "Closed" ELSE "Closing"]
        BY <3>3, Zenon
      <4>2. theirs \in SUBSET Both /\ p \in Phases \ {"unused"}
        BY <1>0, <2>1, <3>1 DEF ObjectsTyped, ConnRec, Phases, Used
      <4> HIDE DEF theirs, rst, o
      <4>3. Kept(c)
        BY <1>0, <4>2, FieldKept
      <4>4. c[o].phase = conn[o].phase
        BY <1>0, <3>1 DEF ObjectsTyped, ConnRec
      <4> HIDE DEF c
      <4>5. conn' = [c EXCEPT ![o].phase = p]
        BY <4>1, <4>4, Zenon
      <4> HIDE DEF p
      <4> QED
        BY <4>2, <4>3, <4>5, FieldKept
    <3>6. CASE theirs = Both /\ ~rst
      <4>1. Moves(k)
        BY <2>1, <2>3, <3>4, <3>6 DEF Moves, WithoutActive
      <4> QED
        BY <1>0, <2>1, <3>4, <3>5, <4>1 DEF Shape
    <3>7. CASE ~(theirs = Both /\ ~rst)
      <4>1. /\ connections' = connections \/ connections' = WithoutActive(k)
            /\ closing' = closing
        BY <3>4, <3>7, Zenon
      <4> HIDE DEF k
      <4>2. Shrinks
        BY <1>0, <4>1, RemovalShrinks
      <4> QED
        BY <1>0, <2>1, <3>4, <3>5, <4>2 DEF Shape
    <3> QED
      BY <3>6, <3>7
  <2> QED
    BY <2>2, <2>3
<1>10. CASE RxData
  <2> DEFINE k == Head(inbound).key
             o == connections[k]
  <2>1. /\ inbound' \in Seq(Packet) /\ UNCHANGED generation /\ k \in Key
    BY <1>10, RxTakesType DEF RxData, Packet
  <2>2. CASE o # None /\ Fits(o) /\ conn' = [conn EXCEPT ![o].rx = @ + 1]
                /\ UNCHANGED <<connections, rx>>
    <3>1. o \in Obj
      BY <1>0, <2>1, <2>2 DEF TablesTyped
    <3>2. conn[o].rx + 1 \in Nat
      BY <1>0, <3>1 DEF ObjectsTyped, ConnRec
    <3>3. UNCHANGED tables
      BY <1>10, <2>2 DEF RxData, tables
    <3> HIDE DEF o
    <3>4. Kept(conn')
      BY <1>0, <2>2, <3>2, FieldKept
    <3> QED
      BY <1>0, <2>1, <2>2, <3>3, <3>4, TablesSameShape
  <2>3. CASE /\ UNCHANGED conn /\ rx'.at # "insert"
             /\ connections' = connections \/ connections' = WithoutActive(k)
    <3>1. closing' = closing
      BY <1>10 DEF RxData
    <3> HIDE DEF k
    <3>2. Shrinks
      BY <1>0, <2>3, <3>1, RemovalShrinks
    <3> QED
      BY <1>0, <2>1, <2>3, <3>2 DEF Shape
  <2> QED
    BY <1>10, <2>2, <2>3 DEF RxData
<1> QED
  BY <1>1, <1>2, <1>3, <1>4, <1>5, <1>6, <1>7, <1>8, <1>9, <1>10 DEF RxStep

\* The timer taskless.
LEMMA TimerShape ==
    ASSUME IInv, TimerStep
    PROVE  Shape
<1> USE DEF envVars, RxQuiet, TimerFrame
<1>0. /\ ObjectsTyped /\ TablesTyped /\ Kept(conn)
      /\ generation \in Nat /\ inbound \in Seq(Packet)
  BY NothingChanged DEF IInv, ObjectsTyped
<1>1. UNCHANGED <<rx, generation, inbound>>
  BY DEF TimerStep, TimerActive, TimerClosing, TimerDrop, TimerSendRst
<1>2. CASE TimerActive
  <2> DEFINE k == Head(timerEvents).key
  <2>1. /\ conn' = conn \/ conn' = TimedOut(connections[k])
        /\ connections' = connections \/ connections' = WithoutActive(k)
        /\ closing' = closing
    BY <1>2 DEF TimerActive
  <2> HIDE DEF k
  <2>2. Shrinks
    BY <1>0, <2>1, RemovalShrinks
  <2>3. Kept(conn')
    BY <1>0, <2>1, TimedOutKept
  <2> QED
    BY <1>0, <1>1, <2>2, <2>3 DEF Shape
<1>3. CASE TimerClosing
  <2> DEFINE k == timer.key
  <2>1. /\ conn' = conn \/ \E o : conn' = TimedOut(o)
        /\ connections' = connections
        /\ \/ closing' = [closing EXCEPT ![k] = closing[k]]
           \/ \E x : closing' = [closing EXCEPT ![k] = Without(@, x)]
    BY <1>3 DEF TimerClosing, PutBack
  <2> HIDE DEF k
  <2>2. closing' = [closing EXCEPT ![k] = closing[k]] => closing' = closing
    BY <1>0 DEF TablesTyped
  <2>3. Shrinks
    BY <1>0, <2>1, <2>2, RemovalShrinks
  <2>4. Kept(conn')
    BY <1>0, <2>1, TimedOutKept
  <2> QED
    BY <1>0, <1>1, <2>3, <2>4 DEF Shape
<1>4. CASE TimerDrop \/ TimerSendRst
  <2>1. UNCHANGED <<conn, tables>>
    BY <1>4 DEF TimerDrop, TimerSendRst
  <2> QED
    BY <1>0, <1>1, <2>1, TablesSameShape
<1> QED
  BY <1>2, <1>3, <1>4 DEF TimerStep

\* The expiry of a timer, the drop of the listener, the resets of what it
\* drained, a transport reset and its resets, the TX taskless and the peer.
LEMMA OtherShape ==
    ASSUME IInv,
           \/ ListenerDrop \/ DrainedReset \/ TransportReset \/ EventReset
           \/ TxDrain \/ TxApply
           \/ \E o \in Obj : TimerFires(o)
           \/ \E k \in Key : PeerStep(k)
    PROVE  Shape
<1> USE DEF envVars, RxQuiet
<1>0. /\ ObjectsTyped /\ TablesTyped /\ Kept(conn)
      /\ generation \in Nat /\ inbound \in Seq(Packet)
  BY NothingChanged DEF IInv, ObjectsTyped
<1>1. CASE ListenerDrop
  <2>1. /\ connections' = [k \in Key |-> IF \E o \in Members(backlog) : conn[o].key = k
                                         THEN None ELSE connections[k]]
        /\ closing' = closing /\ UNCHANGED <<conn, rx, generation, inbound>>
    BY <1>1 DEF ListenerDrop
  <2>2. Shrinks
    BY <1>0, <2>1 DEF Shrinks, TablesTyped
  <2> QED
    BY <1>0, <2>1, <2>2 DEF Shape
<1>2. CASE DrainedReset \/ EventReset
  <2>1. /\ conn' = conn \/ \E o : conn' = WithRst(o)
        /\ UNCHANGED <<tables, rx, generation, inbound>>
    BY <1>2 DEF DrainedReset, EventReset, AfterReset
  <2> QED
    BY <1>0, <2>1, TablesSameShape, WithRstKept
<1>3. CASE TransportReset
  <2>1. /\ connections' = [k \in Key |-> None] /\ closing' = [k \in Key |-> <<>>]
        /\ UNCHANGED <<conn, rx, generation, inbound>>
    BY <1>3 DEF TransportReset
  <2>2. <<>> \in Seq(Obj) /\ Members(<<>>) = {} /\ Distinct(<<>>)
    BY DEF Members, Distinct
  <2>3. \A k \in Key : connections'[k] = None /\ closing'[k] = <<>>
    BY <2>1
  <2>4. TablesTyped'
    BY <2>1, <2>2 DEF TablesTyped
  <2>5. Shrinks
    BY <2>2, <2>3, <2>4 DEF Shrinks, TablesTyped
  <2> QED
    BY <1>0, <2>1, <2>5 DEF Shape
<1>4. CASE TxDrain
  <2>1. UNCHANGED <<conn, tables, rx, generation, inbound>>
    BY <1>4 DEF TxDrain
  <2> QED
    BY <1>0, <2>1, TablesSameShape
<1>5. CASE TxApply
  <2>1. /\ \/ conn' = conn /\ generation' = generation
           \/ generation' = generation + 1 /\ \E o : conn' = Armed(o)
        /\ UNCHANGED <<tables, rx, inbound>>
    BY <1>5 DEF TxApply
  <2> QED
    BY <1>0, <2>1, TablesSameShape, ArmedKept
<1>6. CASE \E o \in Obj : TimerFires(o)
  <2>1. PICK o \in Obj : /\ conn' = [conn EXCEPT ![o].ticking = FALSE]
                         /\ UNCHANGED <<tables, rx, generation, inbound>>
    BY <1>6 DEF TimerFires
  <2>2. Kept(conn')
    BY <1>0, <2>1, FieldKept
  <2> QED
    BY <1>0, <2>1, <2>2, TablesSameShape
<1>7. CASE \E k \in Key : PeerStep(k)
  <2>1. PICK k \in Key, op \in {"request", "response", "rst", "rw", "shutdown"},
             flags \in SUBSET Both :
            /\ inbound' = Append(inbound, [op |-> op, key |-> k, flags |-> flags])
            /\ UNCHANGED <<conn, tables, rx, generation>>
    BY <1>7, SpaceAssumption
       DEF PeerStep, PeerRequest, PeerResponse, PeerRst, PeerData, PeerShutdown, PeerSends
  <2>2. [op |-> op, key |-> k, flags |-> flags] \in Packet
    BY DEF Packet
  <2>3. inbound' \in Seq(Packet)
    BY <1>0, <2>1, <2>2, AppendProperties
  <2> QED
    BY <1>0, <2>1, <2>3, TablesSameShape
<1> QED
  BY <1>1, <1>2, <1>3, <1>4, <1>5, <1>6, <1>7

LEMMA NextShape ==
    ASSUME IInv, Next
    PROVE  Shape
BY SockShape, RxShape, TimerShape, OtherShape DEF Next

\* Every step keeps the invariant.
THEOREM NextIInv == IInv /\ [Next]_vars => IInv'
<1> SUFFICES ASSUME IInv, [Next]_vars PROVE IInv'
  OBVIOUS
<1>1. CASE Next
  BY <1>1, NextShape, ShapeIInv
<1>2. CASE UNCHANGED vars
  BY <1>2 DEF vars, tables, envVars, IInv, ObjectsTyped, TablesTyped, Placed, Once,
              InsertIsNew, Used, Tabled
<1> QED
  BY <1>1, <1>2

LEMMA SpecIInv == Spec => []IInv
BY InitIInv, NextIInv, PTL DEF Spec

\* What the tables hold under a ConnId is an allocated ConnectionInner of that
\* ConnId: a packet, a timer event or a completion that is looked up by its
\* ConnId never meets the connection of another.
THEOREM TablesMatchKeys == Spec => []Placed
BY SpecIInv, PTL DEF IInv

\* No connection is twice in SocketTable, be it in closing_connections or in
\* both tables: whoever removes it has removed the only reference of the tables.
THEOREM TabledOnlyOnce == Spec => []InOneTable
<1>1. ASSUME IInv
      PROVE  InOneTable
  <2> SUFFICES ASSUME NEW o \in Obj, NEW k \in Key
               PROVE  Cardinality({i \in DOMAIN closing[k] : closing[k][i] = o})
                        + (IF connections[k] = o THEN 1 ELSE 0) <= 1
    BY DEF InOneTable
  <2> DEFINE P == {i \in DOMAIN closing[k] : closing[k][i] = o}
  <2>1. Distinct(closing[k]) /\ connections[k] \notin Members(closing[k])
    BY <1>1 DEF IInv, Once
  <2>2. CASE P = {}
    <3>1. Cardinality(P) = 0
      BY <2>2, FS_EmptySet
    <3> QED
      BY <3>1
  <2>3. CASE P # {}
    <3>1. PICK i \in P : TRUE
      BY <2>3
    <3>2. P = {i}
      BY <2>1, <3>1 DEF Distinct
    <3>3. connections[k] # o
      BY <2>1, <3>1 DEF Members
    <3>4. Cardinality(P) = 1
      BY <3>2, FS_Singleton
    <3> QED
      BY <3>3, <3>4
  <2> QED
    BY <2>2, <2>3
<1> QED
  BY <1>1, SpecIInv, PTL

\* A connection that left SocketTable::connections is never put back there, by
\* whatever timeout, late packet or late completion: only connect() and
\* insert_connection add one, and each adds a connection that no table held yet.
THEOREM NothingIsRelisted == Spec => NeverRelisted
<1> DEFINE A == \A o \in Obj : LeftActive(o) => \A k \in Key : connections'[k] # o
<1>1. ASSUME IInv, [Next]_vars
      PROVE  [A]_vars
  <2>1. CASE UNCHANGED vars
    BY <2>1
  <2>2. CASE Next
    <3> SUFFICES ASSUME NEW o \in Obj, LeftActive(o), NEW k \in Key, connections'[k] = o
                 PROVE  FALSE
      OBVIOUS
    <3>1. \/ connections[k] = o \/ ~Used(o)
          \/ rx.at = "insert" /\ o = rx.obj
      BY <1>1, <2>2, NextShape, ShapeTables
    <3> QED
      BY <3>1 DEF LeftActive, Used
  <2> QED
    BY <1>1, <2>1, <2>2
<1> QED
  BY <1>1, SpecIInv, PTL DEF Spec, NeverRelisted

-------------------------------------------------------------------------------
(* Whose connection a socket, the backlog and the RX taskless hold.        *)

Ops == {"request", "response", "shutdown", "rst"}
Acts == {"mark", "arm"}
Control == [op : Ops, key : Key \cup {None}, act : Acts]
TimerEvent == [key : Key \cup {None}, gen : Nat]
PeerStates == {"idle", "asking", "asked", "open", "shut"}

\* Between calls a socket owns no connection.
AtRest == {"init", "panicked", "gone"}
Busy(s) == pc[s] \notin AtRest

\* o was allocated, for one of some ConnIds.
Valid(o, K) == o \in Obj /\ Used(o) /\ conn[o].key \in K
KeysOf(s) == IF s \in Active THEN {s} ELSE PassiveKey

\* The steps of connect(), which only a socket that connects is in.
Connects == {"request", "armConnect", "connecting", "unrequest", "unwrap"}
Calls(s) == IF s \in Active THEN SockSteps ELSE SockSteps \ Connects

CallsTyped ==
    /\ own \in [Sock -> Obj \cup {None}] /\ pc \in [Sock -> SockSteps]
    /\ \A s \in Sock : pc[s] \in Calls(s)
QueuesTyped ==
    /\ backlog \in Seq(Obj)
    /\ rx.at # "idle" => rx.key \in Key
    /\ timer.at # "idle" => timer.key \in Key \cup {None}
    /\ timerEvents \in Seq(TimerEvent)
    /\ txPending \in Seq(Control) /\ txDone \in Seq(Control)
    /\ peer \in [Key -> PeerStates]
OwnsItsKey == \A s \in Sock : Busy(s) => Valid(own[s], KeysOf(s))
AcceptsPassive ==
    /\ \A o \in Members(backlog) : Valid(o, PassiveKey)
    /\ rx.at \in {"insert", "push", "undo", "respond", "unlist"} =>
          Valid(rx.obj, PassiveKey) /\ rx.key \in PassiveKey

WorkInv == CallsTyped /\ QueuesTyped /\ OwnsItsKey /\ AcceptsPassive

LEMMA ValidKept ==
    ASSUME Kept(conn'), NEW o, NEW K, Valid(o, K)
    PROVE  Valid(o, K)'
BY DEF Valid, Kept, Used

\* A step of a socket, and what it owns afterwards.
LEMMA OwnStep ==
    ASSUME WorkInv, Kept(conn'), NEW s \in Sock, NEW l \in Calls(s),
           pc' = [pc EXCEPT ![s] = l],
           \/ own' = own /\ (Busy(s) \/ l \in AtRest)
           \/ \E o \in Obj \cup {None} :
                 own' = [own EXCEPT ![s] = o] /\ (l \in AtRest \/ Valid(o, KeysOf(s))')
    PROVE  CallsTyped' /\ OwnsItsKey'
<1>1. CallsTyped'
  BY DEF WorkInv, CallsTyped, Calls
<1>2. ASSUME NEW t \in Sock, Busy(t)'
      PROVE  Valid(own[t], KeysOf(t))'
  <2>1. CASE t # s
    <3>1. pc'[t] = pc[t] /\ own'[t] = own[t]
      BY <2>1 DEF WorkInv, CallsTyped
    <3>2. Valid(own[t], KeysOf(t))
      BY <1>2, <3>1 DEF WorkInv, OwnsItsKey, Busy
    <3>3. Valid(own'[t], KeysOf(t))
      BY <3>1, <3>2
    <3> QED
      BY <3>1, <3>2, ValidKept DEF Valid, Used, Kept, KeysOf
  <2>2. CASE t = s
    <3>1. l \notin AtRest
      BY <1>2, <2>2 DEF WorkInv, CallsTyped, Busy
    <3>2. CASE own' = own /\ Busy(s)
      <4>1. Valid(own[s], KeysOf(s))
        BY <3>2 DEF WorkInv, OwnsItsKey
      <4> QED
        BY <2>2, <3>2, <4>1 DEF Valid, Used, Kept, KeysOf
    <3>3. CASE \E o \in Obj \cup {None} :
                 own' = [own EXCEPT ![s] = o] /\ Valid(o, KeysOf(s))'
      <4>1. PICK o : own' = [own EXCEPT ![s] = o] /\ Valid(o, KeysOf(s))'
        BY <3>3
      <4>2. own'[s] = o
        BY <4>1 DEF WorkInv, CallsTyped
      <4> QED
        BY <2>2, <4>1, <4>2 DEF Valid, Used, KeysOf
    <3> QED
      BY <3>1, <3>2, <3>3
  <2> QED
    BY <2>1, <2>2
<1> QED
  BY <1>1, <1>2 DEF OwnsItsKey

LEMMA OwnSame ==
    ASSUME WorkInv, Kept(conn'), UNCHANGED <<own, pc>>
    PROVE  CallsTyped' /\ OwnsItsKey'
BY DEF WorkInv, CallsTyped, Calls, OwnsItsKey, Busy, Valid, Used, Kept, KeysOf

\* A packet the guest sends, when the peer or the software queue gets it.
Sends(op, k, act) == SendDirect(op, k) \/ SendQueued(op, k, act) \/ SendFails(op)

LEMMA GuestPacket ==
    ASSUME NEW ends \in [Key -> PeerStates], NEW op, NEW k
    PROVE  /\ AfterGuest(op, k, ends) \in [Key -> PeerStates]
           /\ \A s \in Key : ends[s] # "asking" =>
                /\ AfterGuest(op, k, ends)[s] \in {ends[s], "asked", "idle"}
                /\ ends[s] = "idle" /\ ~(op = "request" /\ k = s)
                     => AfterGuest(op, k, ends)[s] = "idle"
<1>1. CASE op = "request"
  BY <1>1 DEF AfterGuest, PeerStates
<1>2. CASE op = "response" /\ ends[k] = "asking"
  BY <1>2 DEF AfterGuest, PeerStates
<1>3. CASE op = "rst"
  BY <1>3 DEF AfterGuest, PeerStates
<1>4. CASE /\ op # "request" /\ ~(op = "response" /\ ends[k] = "asking") /\ op # "rst"
  BY <1>4 DEF AfterGuest
<1> QED
  BY <1>1, <1>2, <1>3, <1>4

LEMMA MembersOf ==
    ASSUME NEW D, NEW q \in Seq(D)
    PROVE  /\ Members(q) \subseteq D
           /\ \A x \in D : Append(q, x) \in Seq(D) /\ Members(Append(q, x)) = Members(q) \cup {x}
           /\ q # <<>> => /\ Head(q) \in Members(q) /\ Tail(q) \in Seq(D)
                          /\ Members(q) = {Head(q)} \cup Members(Tail(q))
<1>1. Len(q) \in Nat /\ DOMAIN q = 1..Len(q) /\ q \in [1..Len(q) -> D]
  BY LenProperties
<1>2. Members(q) \subseteq D
  BY <1>1 DEF Members
<1>3. ASSUME NEW x \in D
      PROVE  Append(q, x) \in Seq(D) /\ Members(Append(q, x)) = Members(q) \cup {x}
  <2> DEFINE r == Append(q, x)
  <2>1. /\ Len(r) = Len(q) + 1 /\ DOMAIN r = 1..(Len(q) + 1)
        /\ \A i \in 1..Len(q) : r[i] = q[i]
        /\ r[Len(q) + 1] = x /\ r \in Seq(D)
    BY AppendProperties, LenProperties
  <2> HIDE DEF r
  <2>2. Members(r) = Members(q) \cup {x}
    BY <1>1, <2>1 DEF Members
  <2> QED
    BY <2>1, <2>2 DEF r
<1>4. ASSUME q # <<>>
      PROVE  /\ Head(q) \in Members(q) /\ Tail(q) \in Seq(D)
             /\ Members(q) = {Head(q)} \cup Members(Tail(q))
  <2> DEFINE r == Tail(q)
  <2>1. /\ Len(q) >= 1 /\ Head(q) = q[1] /\ r \in Seq(D)
        /\ Len(r) = Len(q) - 1 /\ \A i \in 1..Len(r) : r[i] = q[i + 1]
    BY <1>1, <1>4, HeadTailProperties, EmptySeq
  <2>2. DOMAIN r = 1..Len(r)
    BY <2>1, LenProperties
  <2> HIDE DEF r
  <2>3. Head(q) \in Members(q)
    BY <1>1, <2>1 DEF Members
  <2>4. Members(q) \subseteq {Head(q)} \cup Members(r)
    <3> SUFFICES ASSUME NEW i \in 1..Len(q), i # 1 PROVE q[i] \in Members(r)
      BY <1>1, <2>1 DEF Members
    <3>1. i - 1 \in 1..Len(r) /\ r[i - 1] = q[i]
      BY <1>1, <2>1
    <3> QED
      BY <2>2, <3>1 DEF Members
  <2>5. Members(r) \subseteq Members(q)
    BY <1>1, <2>1, <2>2 DEF Members
  <2> QED
    BY <2>1, <2>3, <2>4, <2>5 DEF r
<1> QED
  BY <1>2, <1>3, <1>4

\* What the guest's packets do to the peer's end of s, when those in `quiet` alone are
\* not requested.
GuestOnly(before, after, quiet) ==
    \A s \in Key : before[s] # "asking" =>
        /\ after[s] \in {before[s], "asked", "idle"}
        /\ before[s] = "idle" /\ s \in quiet => after[s] = "idle"

LEMMA SendEffect ==
    ASSUME QueuesTyped, NEW op \in Ops, NEW k \in Key \cup {None}, NEW act \in Acts,
           Sends(op, k, act)
    PROVE  /\ peer' \in [Key -> PeerStates] /\ txPending' \in Seq(Control) /\ txDone' = txDone
           /\ GuestOnly(peer, peer', {s \in Key : ~(op = "request" /\ s = k)})
           /\ Members(txPending) \subseteq Members(txPending')
           /\ Members(txPending') \subseteq
                 Members(txPending) \cup {[op |-> op, key |-> k, act |-> act]}
<1> DEFINE c == [op |-> op, key |-> k, act |-> act]
<1>1. c \in Control /\ txPending \in Seq(Control) /\ peer \in [Key -> PeerStates]
  BY DEF QueuesTyped, Control
<1>2. CASE SendDirect(op, k)
  <2>1. peer' = AfterGuest(op, k, peer) /\ txPending' = txPending /\ txDone' = txDone
    BY <1>2 DEF SendDirect
  <2> QED
    BY <1>1, <2>1, GuestPacket DEF GuestOnly
<1>3. CASE SendQueued(op, k, act)
  <2>1. peer' = peer /\ txPending' = Append(txPending, c) /\ txDone' = txDone
    BY <1>3 DEF SendQueued
  <2> HIDE DEF c
  <2>2. txPending' \in Seq(Control) /\ Members(txPending') = Members(txPending) \cup {c}
    BY <1>1, <2>1, MembersOf
  <2> QED
    BY <1>1, <2>1, <2>2 DEF GuestOnly, c
<1>4. CASE SendFails(op)
  <2>1. peer' = peer /\ txPending' = txPending /\ txDone' = txDone
    BY <1>4 DEF SendFails, txVars
  <2> QED
    BY <1>1, <2>1 DEF GuestOnly
<1> QED
  BY <1>2, <1>3, <1>4 DEF Sends

\* process_tx hands over a prefix of the software queue, packet after packet.
DrainStep(env, ends, c) == AfterGuest(c.op, c.key, ends)
DrainInv(env, i, ends) ==
    ends \in [Key -> PeerStates] /\ GuestOnly(env.before, ends, env.quiet)
Draining == INSTANCE FoldInduction WITH Op <- DrainStep, P <- DrainInv

LEMMA DrainEffect ==
    ASSUME QueuesTyped, TxDrain
    PROVE  /\ peer' \in [Key -> PeerStates]
           /\ txPending' \in Seq(Control) /\ txDone' \in Seq(Control) /\ txDone = <<>>
           /\ Members(txPending) = Members(txPending') \cup Members(txDone')
           /\ GuestOnly(peer, peer',
                        {s \in Key : \A c \in Members(txPending) :
                                        ~(c.op = "request" /\ c.key = s)})
<1>1. PICK n \in 1..Len(txPending) :
        /\ txDone' = SubSeq(txPending, 1, n)
        /\ txPending' = SubSeq(txPending, n + 1, Len(txPending))
        /\ peer' = FoldLeft(LAMBDA ends, c : AfterGuest(c.op, c.key, ends), peer, txDone')
  BY DEF TxDrain
<1>2. /\ txPending \in Seq(Control) /\ Len(txPending) \in Nat
      /\ DOMAIN txPending = 1..Len(txPending) /\ peer \in [Key -> PeerStates]
  BY LenProperties DEF QueuesTyped
<1> DEFINE a == SubSeq(txPending, 1, n)
           b == SubSeq(txPending, n + 1, Len(txPending))
<1>3. /\ a \in Seq(Control) /\ Len(a) = n /\ \A i \in 1..n : a[i] = txPending[i]
  BY <1>2, SubSeqProperties
<1>4. /\ b \in Seq(Control) /\ Len(b) = Len(txPending) - n
      /\ \A i \in 1..(Len(txPending) - n) : b[i] = txPending[n + i]
  <2>1. /\ n + 1 \in 1..(Len(txPending) + 1) /\ Len(txPending) \in (n + 1) - 1 .. Len(txPending)
    BY <1>2
  <2>2. b \in Seq(Control) /\ Len(b) = (IF n + 1 <= Len(txPending)
                                         THEN Len(txPending) - (n + 1) + 1 ELSE 0)
        /\ \A i \in 1..(Len(txPending) - (n + 1) + 1) : b[i] = txPending[(n + 1) + i - 1]
    BY <1>2, <2>1, SubSeqProperties
  <2> HIDE DEF b
  <2>3. Len(b) = Len(txPending) - n
    <3>1. \A m \in Nat : \A i \in 1..m :
             (IF i + 1 <= m THEN m - (i + 1) + 1 ELSE 0) = m - i
      OBVIOUS
    <3> QED
      BY <1>2, <2>2, <3>1, Zenon
  <2>4. ASSUME NEW i \in 1..(Len(txPending) - n) PROVE b[i] = txPending[n + i]
    <3>1. i \in 1..(Len(txPending) - (n + 1) + 1) /\ (n + 1) + i - 1 = n + i
      BY <1>2
    <3>2. b[i] = txPending[(n + 1) + i - 1]
      BY <2>2, <3>1
    <3> QED
      BY <3>1, <3>2
  <2> QED
    BY <2>2, <2>3, <2>4
<1>5. DOMAIN a = 1..n /\ DOMAIN b = 1..(Len(txPending) - n)
  BY <1>3, <1>4, LenProperties
<1> HIDE DEF a, b
<1>6. Members(txPending) = Members(b) \cup Members(a)
  <2>1. Members(a) \subseteq Members(txPending) /\ Members(b) \subseteq Members(txPending)
    <3>1. \A i \in DOMAIN a : i \in DOMAIN txPending /\ a[i] = txPending[i]
      BY <1>2, <1>3, <1>5
    <3>2. \A i \in DOMAIN b : n + i \in DOMAIN txPending /\ b[i] = txPending[n + i]
      BY <1>2, <1>4, <1>5
    <3> QED
      BY <3>1, <3>2 DEF Members
  <2>2. ASSUME NEW i \in 1..Len(txPending) PROVE txPending[i] \in Members(a) \cup Members(b)
    <3>1. CASE i <= n
      BY <1>2, <1>3, <1>5, <3>1 DEF Members
    <3>2. CASE i > n
      <4>1. i - n \in 1..(Len(txPending) - n) /\ b[i - n] = txPending[i]
        BY <1>2, <1>4, <3>2
      <4> QED
        BY <1>5, <4>1 DEF Members
    <3> QED
      BY <1>2, <3>1, <3>2
  <2> QED
    BY <1>2, <2>1, <2>2 DEF Members
<1> DEFINE quiet == {s \in Key : \A c \in Members(txPending) : ~(c.op = "request" /\ c.key = s)}
           env == [before |-> peer, quiet |-> quiet]
<1>7. ASSUME NEW i \in 0..Len(a), NEW ends, i < Len(a), DrainInv(env, i, ends)
      PROVE  DrainInv(env, i + 1, DrainStep(env, ends, a[i + 1]))
  <2>1. a[i + 1] \in Control /\ a[i + 1] \in Members(txPending)
    BY <1>2, <1>3, <1>5, <1>6, <1>7 DEF Members
  <2>2. PICK c : c = a[i + 1]
    OBVIOUS
  <2>3. c.key \in Key \cup {None} /\ \A s \in quiet : ~(c.op = "request" /\ c.key = s)
    BY <2>1, <2>2 DEF Control
  <2>4. ends \in [Key -> PeerStates] /\ GuestOnly(peer, ends, quiet)
    BY <1>7 DEF DrainInv
  <2> HIDE DEF quiet
  <2>5. /\ AfterGuest(c.op, c.key, ends) \in [Key -> PeerStates]
        /\ \A s \in Key : ends[s] # "asking" =>
                /\ AfterGuest(c.op, c.key, ends)[s] \in {ends[s], "asked", "idle"}
                /\ ends[s] = "idle" /\ ~(c.op = "request" /\ c.key = s)
                     => AfterGuest(c.op, c.key, ends)[s] = "idle"
    BY <2>3, <2>4, GuestPacket
  <2>6. GuestOnly(peer, AfterGuest(c.op, c.key, ends), quiet)
    BY <2>3, <2>4, <2>5 DEF GuestOnly
  <2> QED
    BY <2>2, <2>5, <2>6 DEF DrainInv, DrainStep
<1>8. DrainInv(env, 0, peer)
  BY <1>2 DEF DrainInv, GuestOnly
<1> HIDE DEF env
<1>9. DrainInv(env, Len(a), Draining!Loop(env, peer, a))
  BY <1>3, <1>7, <1>8, Draining!FoldLeftKeeps
<1>10. peer' = Draining!Loop(env, peer, a)
  BY <1>1 DEF a, DrainStep, FoldLeft, MapThenFoldSet, Max, Draining!Loop, Draining!FoldLeft,
              Draining!MapThenFoldSet, Draining!Max
<1>11. peer' \in [Key -> PeerStates] /\ GuestOnly(peer, peer', quiet)
  BY <1>9, <1>10 DEF DrainInv, env
<1>12. txDone' = a /\ txPending' = b /\ txDone = <<>>
  BY <1>1 DEF a, b, TxDrain
<1> QED
  BY <1>3, <1>4, <1>6, <1>11, <1>12

-------------------------------------------------------------------------------
(* The steps keep it.                                                      *)

\* What a socket's step sends: REQUEST by connect() alone, and under its own ConnId.
SockSends(s) ==
    \/ UNCHANGED txVars
    \/ /\ s \in Active /\ pc[s] = "request"
       /\ \/ SendDirect("request", s) /\ pc'[s] = "armConnect"
          \/ SendQueued("request", s, "arm") /\ pc'[s] = "connecting"
          \/ SendFails("request") /\ pc'[s] = "unrequest"
    \/ \E op \in {"shutdown", "rst"} : \E k \in Key : \E act \in Acts : Sends(op, k, act)

LEMMA SocketSends ==
    ASSUME WorkInv, NEW s \in Sock, SockStep(s)
    PROVE  SockSends(s)
<1>1. CASE ConnectRequest(s)
  <2>1. s \in Active
    BY <1>1 DEF ConnectRequest, WorkInv, CallsTyped, Calls, Connects
  <2> QED
    BY <1>1, <2>1 DEF ConnectRequest, SockSends, Goto, WorkInv, CallsTyped
<1>2. CASE SendShutdown(s) \/ SendRst(s)
  <2>1. Valid(own[s], KeysOf(s))
    BY <1>2 DEF SendShutdown, SendRst, WorkInv, OwnsItsKey, Busy, AtRest
  <2>2. conn[own[s]].key \in Key
    BY <2>1 DEF Valid, KeysOf, Key
  <2>3. \E op \in {"shutdown", "rst"} : \E act \in Acts : Sends(op, conn[own[s]].key, act)
    BY <1>2 DEF SendShutdown, SendRst, Send, Sends, Acts
  <2> QED
    BY <2>2, <2>3 DEF SockSends
<1>3. CASE \/ ConnectInsert(s) \/ Accept(s) \/ Recv(s) \/ DropBegin(s)
           \/ \E dirs \in SUBSET Both : Shutdown(s, dirs)
  <2>1. UNCHANGED txVars
    BY <1>3, Zenon DEF ConnectInsert, Accept, Recv, DropBegin, Shutdown
  <2> QED
    BY <2>1 DEF SockSends
<1>4. CASE \/ ConnectArm(s) \/ ConnectFinish(s) \/ ConnectUndo(s) \/ ConnectUnwrap(s)
           \/ DropShut(s) \/ DropDecide(s) \/ DropTable(s) \/ CloseArm(s) \/ Unlist(s)
           \/ Release(s)
  <2>1. UNCHANGED txVars
    BY <1>4, Zenon DEF ConnectArm, ConnectFinish, ConnectUndo, ConnectUnwrap, DropShut,
       DropDecide, DropTable, CloseArm, Unlist, Release, ArmTimer
  <2> QED
    BY <2>1 DEF SockSends
<1> QED
  BY <1>1, <1>2, <1>3, <1>4 DEF SockStep, CallStep

LEMMA SocketQueues ==
    ASSUME WorkInv, Kept(conn'), NEW s \in Sock, SockStep(s)
    PROVE  /\ QueuesTyped' /\ AcceptsPassive'
           /\ UNCHANGED <<rx, timer, timerEvents, event, inbound>>
<1>1. UNCHANGED <<rx, timer, timerEvents, event, inbound>>
  <2>1. CASE \/ ConnectInsert(s) \/ Accept(s) \/ Recv(s) \/ DropBegin(s)
             \/ \E dirs \in SUBSET Both : Shutdown(s, dirs)
    BY <2>1 DEF ConnectInsert, Accept, Recv, DropBegin, Shutdown, timerVars, envVars
  <2>2. CASE CallStep(s)
    BY <2>2 DEF CallStep, ConnectRequest, SendShutdown, SendRst, ConnectArm, ConnectFinish,
       ConnectUndo, ConnectUnwrap, DropShut, DropDecide, DropTable, CloseArm, Unlist,
       Release, ArmTimer, timerVars, envVars
  <2> QED
    BY <2>1, <2>2 DEF SockStep
<1>2. backlog' \in Seq(Obj) /\ Members(backlog') \subseteq Members(backlog)
  <2>1. CASE Accept(s)
    <3>1. backlog \in Seq(Obj) /\ backlog # <<>> /\ backlog' = Tail(backlog)
      BY <2>1 DEF Accept, WorkInv, QueuesTyped
    <3> QED
      BY <3>1, MembersOf
  <2>2. CASE \/ ConnectInsert(s) \/ Recv(s) \/ DropBegin(s)
             \/ \E dirs \in SUBSET Both : Shutdown(s, dirs)
    BY <2>2 DEF ConnectInsert, Recv, DropBegin, Shutdown, listenerVars, WorkInv, QueuesTyped
  <2>3. CASE CallStep(s)
    BY <2>3 DEF CallStep, ConnectRequest, SendShutdown, SendRst, ConnectArm, ConnectFinish,
       ConnectUndo, ConnectUnwrap, DropShut, DropDecide, DropTable, CloseArm, Unlist,
       Release, ArmTimer, listenerVars, WorkInv, QueuesTyped
  <2> QED
    BY <2>1, <2>2, <2>3 DEF SockStep
<1>3. /\ txPending' \in Seq(Control) /\ txDone' \in Seq(Control)
      /\ peer' \in [Key -> PeerStates]
  <2>1. CASE UNCHANGED txVars
    BY <2>1 DEF txVars, WorkInv, QueuesTyped
  <2>2. CASE \E op \in Ops : \E k \in Key : \E act \in Acts : Sends(op, k, act)
    BY <2>2, SendEffect DEF WorkInv, QueuesTyped
  <2> QED
    BY <2>1, <2>2, SocketSends DEF SockSends, Sends, Ops, Acts, Key
<1>4. QueuesTyped'
  BY <1>1, <1>2, <1>3 DEF WorkInv, QueuesTyped
<1>5. AcceptsPassive'
  <2>1. \A o \in Members(backlog') : Valid(o, PassiveKey)'
    BY <1>2 DEF WorkInv, AcceptsPassive, Valid, Used, Kept
  <2> QED
    BY <1>1, <2>1 DEF WorkInv, AcceptsPassive, Valid, Used, Kept
<1> QED
  BY <1>1, <1>4, <1>5

LEMMA SocketOwns ==
    ASSUME IInv, WorkInv, Kept(conn'), NEW s \in Sock, SockStep(s)
    PROVE  CallsTyped' /\ OwnsItsKey'
<1> USE DEF Goto, AtRest
<1>0. /\ pc[s] \in Calls(s) /\ Done(s) \in Calls(s) /\ AfterShutdown(s) \in Calls(s)
      /\ Done(s) \in SockSteps
  BY DEF WorkInv, CallsTyped, Calls, Done, AfterShutdown, SockSteps, Connects
<1>1. CASE ConnectInsert(s)
  <2>1. PICK o \in Fresh : /\ conn' = [conn EXCEPT ![o] = NewConn(s, "Connecting")]
                           /\ own' = [own EXCEPT ![s] = o]
    BY <1>1 DEF ConnectInsert
  <2>2. s \in Active /\ pc' = [pc EXCEPT ![s] = "request"] /\ s \in Key /\ o \in Obj
    BY <1>1 DEF ConnectInsert, Key, Fresh
  <2>3. conn'[o].phase # "unused" /\ conn'[o].key = s
    BY <2>1, <2>2, NewConnKept DEF IInv
  <2>4. Valid(o, KeysOf(s))'
    BY <2>2, <2>3 DEF Valid, Used, KeysOf
  <2>5. "request" \in Calls(s)
    BY <2>2 DEF Calls, SockSteps
  <2> QED
    BY <2>1, <2>2, <2>4, <2>5, OwnStep
<1>2. CASE Accept(s)
  <2>1. /\ own' = [own EXCEPT ![s] = Head(backlog)] /\ pc' = [pc EXCEPT ![s] = "connected"]
        /\ s \in Passive /\ backlog # <<>> /\ backlog \in Seq(Obj)
    BY <1>2 DEF Accept, WorkInv, QueuesTyped
  <2>2. Valid(Head(backlog), PassiveKey)
    BY <2>1, MembersOf DEF WorkInv, AcceptsPassive
  <2>3. s \notin Active /\ "connected" \in Calls(s)
    BY <2>1, SpaceAssumption DEF Calls, SockSteps, Connects
  <2>4. PICK o \in Obj : o = Head(backlog)
    BY <2>2 DEF Valid
  <2>5. Valid(o, KeysOf(s))'
    BY <2>2, <2>3, <2>4 DEF Valid, Used, Kept, KeysOf
  <2> QED
    BY <2>1, <2>3, <2>4, <2>5, OwnStep
<1>3. CASE Recv(s)
  <2>1. UNCHANGED <<own, pc>>
    BY <1>3 DEF Recv, sockVars
  <2> QED
    BY <2>1, OwnSame
<1>4. CASE ConnectUnwrap(s) \/ Release(s)
  <2>1. own' = [own EXCEPT ![s] = None]
        /\ \E l \in AtRest : pc' = [pc EXCEPT ![s] = l]
    BY <1>4 DEF ConnectUnwrap, Release
  <2>2. \A l \in AtRest : l \in Calls(s)
    BY DEF Calls, SockSteps, Connects
  <2> QED
    BY <2>1, <2>2, OwnStep
<1>5. CASE \/ ConnectRequest(s) \/ ConnectArm(s) \/ ConnectFinish(s) \/ ConnectUndo(s)
  <2>1. own' = own /\ Busy(s) /\ pc[s] \in Connects
    BY <1>5 DEF ConnectRequest, ConnectArm, ConnectFinish, ConnectUndo, ArmTimer, Busy, Connects
  <2>2. Calls(s) = SockSteps
    BY <1>0, <2>1 DEF Calls
  <2>3. \E l \in SockSteps : pc' = [pc EXCEPT ![s] = l]
    BY <1>5 DEF ConnectRequest, ConnectArm, ConnectFinish, ConnectUndo, SockSteps
  <2> QED
    BY <2>1, <2>2, <2>3, OwnStep
<1>6. CASE \/ DropBegin(s) \/ DropShut(s) \/ DropDecide(s) \/ DropTable(s)
           \/ \E dirs \in SUBSET Both : Shutdown(s, dirs)
  <2>1. own' = own /\ Busy(s)
    BY <1>6 DEF DropBegin, DropShut, DropDecide, DropTable, Shutdown, Busy
  <2>2. \E l \in {"sendShutdown", "dropShut", "dropTable", "dropDecide", AfterShutdown(s)} :
           pc' = [pc EXCEPT ![s] = l]
    BY <1>6 DEF DropBegin, DropShut, DropDecide, DropTable, Shutdown
  <2>3. {"sendShutdown", "dropShut", "dropTable", "dropDecide", AfterShutdown(s)} \subseteq Calls(s)
    BY <1>0 DEF Calls, SockSteps, Connects
  <2> QED
    BY <2>1, <2>2, <2>3, OwnStep
<1>7. CASE SendShutdown(s) \/ CloseArm(s) \/ Unlist(s) \/ SendRst(s)
  <2>1. own' = own /\ Busy(s)
    BY <1>7 DEF SendShutdown, CloseArm, Unlist, SendRst, ArmTimer, Busy
  <2>2. \E l \in {"armClose", "connected", "sendRst", Done(s), AfterShutdown(s)} :
           pc' = [pc EXCEPT ![s] = l]
    BY <1>7 DEF SendShutdown, CloseArm, Unlist, SendRst
  <2>3. {"armClose", "connected", "sendRst", Done(s), AfterShutdown(s)} \subseteq Calls(s)
    BY <1>0 DEF Calls, SockSteps, Connects
  <2> QED
    BY <2>1, <2>2, <2>3, OwnStep
<1> QED
  BY <1>1, <1>2, <1>3, <1>4, <1>5, <1>6, <1>7 DEF SockStep, CallStep

\* What the RX taskless does to its own state and to the backlog.
LEMMA RxHolds ==
    ASSUME IInv, WorkInv, Kept(conn'), RxStep
    PROVE  /\ rx'.at # "idle" => rx'.key \in Key
           /\ backlog' \in Seq(Obj)
           /\ AcceptsPassive'
<1> USE DEF RxGoes, RxIdle, RxAt
<1>1. backlog \in Seq(Obj) /\ (rx.at # "idle" => rx.key \in Key)
  BY DEF WorkInv, QueuesTyped
<1>2. ASSUME UNCHANGED backlog,
             rx'.at \in {"insert", "push", "undo", "respond", "unlist"} =>
                Valid(rx.obj, PassiveKey)' /\ rx'.key \in PassiveKey
      PROVE  AcceptsPassive'
  BY <1>2 DEF WorkInv, AcceptsPassive, Valid, Used, Kept
<1>3. CASE RxRequest
  <2> DEFINE k == Head(inbound).key
  <2>1. UNCHANGED backlog /\ k \in Key
    BY <1>3, RxTakesType DEF RxRequest, RxFrame, listenerVars, Packet
  <2>2. CASE k \in PassiveKey /\ listening
    <3>1. PICK o \in Fresh : /\ conn' = [conn EXCEPT ![o] = NewConn(k, "Connected")]
                             /\ rx'.obj = o /\ rx'.key = k
      BY <1>3, <2>2 DEF RxRequest
    <3> HIDE DEF k
    <3>2. conn'[o].phase # "unused" /\ conn'[o].key = k /\ o \in Obj
      BY <2>1, <3>1, NewConnKept, ZenonT(30) DEF IInv, Fresh
    <3>3. Valid(rx.obj, PassiveKey)'
      BY <2>2, <3>1, <3>2 DEF Valid, Used
    <3> QED
      BY <1>1, <1>2, <2>1, <2>2, <3>1, <3>3
  <2>3. CASE ~(k \in PassiveKey /\ listening)
    <3>1. rx'.at = "rst" /\ rx'.key = k
      BY <1>3, <2>3 DEF RxRequest
    <3> QED
      BY <1>1, <1>2, <2>1, <3>1
  <2> QED
    BY <2>2, <2>3
<1>4. CASE RxInsert \/ RxUndo \/ RxRespond \/ RxUnlist \/ RxOnRst \/ RxRelease \/ RxSendRst
  <2>1. UNCHANGED backlog
    BY <1>4 DEF RxInsert, RxUndo, RxRespond, RxUnlist, RxOnRst, RxRelease, RxSendRst,
                RxFrame, listenerVars
  <2>2. \/ rx'.at = "idle"
        \/ rx'.at \in {"rst", "onRst", "release"} /\ rx'.key = rx.key /\ rx.at # "idle"
        \/ /\ rx'.at \in {"push", "undo", "unlist"} /\ rx.at \in {"insert", "respond"}
           /\ rx'.key = rx.key /\ rx'.obj = rx.obj
    BY <1>4 DEF RxInsert, RxUndo, RxRespond, RxUnlist, RxOnRst, RxRelease, RxSendRst
  <2>3. rx'.at \in {"push", "undo", "unlist"} =>
           Valid(rx.obj, PassiveKey)' /\ rx'.key \in PassiveKey
    BY <2>2 DEF WorkInv, AcceptsPassive, Valid, Used, Kept
  <2>4. rx'.at \in {"insert", "push", "undo", "respond", "unlist"} =>
           Valid(rx.obj, PassiveKey)' /\ rx'.key \in PassiveKey
    BY <2>2, <2>3
  <2> QED
    BY <1>1, <1>2, <2>1, <2>2, <2>4
<1>5. CASE RxPush
  <2>1. /\ Valid(rx.obj, PassiveKey) /\ rx.key \in PassiveKey /\ rx.at = "push"
        /\ rx' = [at |-> rx'.at, key |-> rx.key, obj |-> rx.obj, rst |-> TRUE]
    BY <1>5 DEF RxPush, WorkInv, AcceptsPassive
  <2>2. backlog' = backlog \/ backlog' = Append(backlog, rx.obj)
    BY <1>5 DEF RxPush
  <2>3. PICK o \in Obj : o = rx.obj
    BY <2>1 DEF Valid
  <2>4. backlog' \in Seq(Obj) /\ Members(backlog') \subseteq Members(backlog) \cup {o}
    <3>1. /\ Append(backlog, o) \in Seq(Obj)
          /\ Members(Append(backlog, o)) = Members(backlog) \cup {o}
      BY <1>1, MembersOf
    <3> QED
      BY <1>1, <2>2, <2>3, <3>1
  <2>5. \A x \in Members(backlog') : Valid(x, PassiveKey)'
    BY <2>1, <2>3, <2>4 DEF WorkInv, AcceptsPassive, Valid, Used, Kept
  <2>6. rx'.key = rx.key /\ rx'.obj = rx.obj
    BY <2>1
  <2>7. Valid(rx.obj, PassiveKey)'
    BY <2>1, <2>6 DEF Valid, Used, Kept
  <2> QED
    BY <1>1, <2>1, <2>4, <2>5, <2>6, <2>7 DEF AcceptsPassive
<1>6. CASE RxResponse \/ RxRst \/ RxShutdown \/ RxData
  <2> DEFINE k == Head(inbound).key
  <2>1. UNCHANGED backlog /\ k \in Key /\ rx.at = "idle"
    BY <1>6, RxTakesType, Zenon DEF RxResponse, RxRst, RxShutdown, RxData, RxFrame,
       listenerVars, Packet
  <2>2. rx' = rx \/ (rx'.at \in {"rst", "onRst"} /\ rx'.key = k)
    <3>1. CASE RxResponse
      BY <3>1, Zenon DEF RxResponse
    <3>2. CASE RxRst
      BY <3>2 DEF RxRst
    <3>3. CASE RxShutdown
      <4>1. rx' = rx \/ RxGoes("rst", k, None, FALSE)
        BY <3>3, Zenon DEF RxShutdown
      <4> QED
        BY <4>1
    <3>4. CASE RxData
      BY <3>4 DEF RxData
    <3> QED
      BY <1>6, <3>1, <3>2, <3>3, <3>4
  <2> QED
    BY <1>1, <1>2, <2>1, <2>2
<1> QED
  BY <1>3, <1>4, <1>5, <1>6 DEF RxStep

\* What the RX taskless sends, and what it leaves to others.
LEMMA RxSends ==
    ASSUME WorkInv, RxStep
    PROVE  /\ UNCHANGED <<own, pc, timer, timerEvents, event>>
           /\ UNCHANGED txVars \/ \E op \in {"response", "rst"} : Sends(op, rx.key, "mark")
           /\ rx.key \in Key \/ UNCHANGED txVars
<1>1. CASE \/ RxRequest \/ RxInsert \/ RxPush \/ RxUndo \/ RxUnlist \/ RxOnRst \/ RxRelease
           \/ RxResponse \/ RxRst \/ RxShutdown \/ RxData
  <2>1. UNCHANGED <<own, pc, timer, timerEvents, event>>
    BY <1>1, Zenon DEF RxRequest, RxInsert, RxPush, RxUndo, RxUnlist, RxOnRst, RxRelease,
       RxResponse, RxRst, RxShutdown, RxData, RxFrame, sockVars, timerVars
  <2>2. UNCHANGED txVars
    BY <1>1, Zenon DEF RxRequest, RxInsert, RxPush, RxUndo, RxUnlist, RxOnRst, RxRelease,
       RxResponse, RxRst, RxShutdown, RxData
  <2> QED
    BY <2>1, <2>2
<1>2. CASE RxRespond \/ RxSendRst
  <2>1. UNCHANGED <<own, pc, timer, timerEvents, event>>
    BY <1>2 DEF RxRespond, RxSendRst, RxFrame, sockVars, timerVars
  <2>2. \E op \in {"response", "rst"} : Sends(op, rx.key, "mark")
    BY <1>2, Zenon DEF RxRespond, RxSendRst, Send, Sends
  <2>3. rx.key \in Key
    BY <1>2 DEF RxRespond, RxSendRst, RxAt, WorkInv, QueuesTyped
  <2> QED
    BY <2>1, <2>2, <2>3
<1> QED
  BY <1>1, <1>2 DEF RxStep

LEMMA RxWork ==
    ASSUME IInv, WorkInv, Kept(conn'), RxStep
    PROVE  WorkInv'
<1>1. CallsTyped' /\ OwnsItsKey'
  BY RxSends, OwnSame
<1>2. /\ txPending' \in Seq(Control) /\ txDone' \in Seq(Control)
      /\ peer' \in [Key -> PeerStates]
  <2>1. CASE UNCHANGED txVars
    BY <2>1 DEF txVars, WorkInv, QueuesTyped
  <2>2. CASE \E op \in Ops : \E act \in Acts : Sends(op, rx.key, act) /\ rx.key \in Key
    BY <2>2, SendEffect DEF WorkInv, QueuesTyped
  <2> QED
    BY <2>1, <2>2, RxSends DEF Ops, Acts
<1>3. QueuesTyped'
  BY <1>2, RxHolds, RxSends DEF WorkInv, QueuesTyped
<1> QED
  BY <1>1, <1>3, RxHolds DEF WorkInv

\* Who leaves the objects that are held alone.
LEMMA HoldersSame ==
    ASSUME WorkInv, Kept(conn'), UNCHANGED <<own, pc, rx>>,
           backlog' \in Seq(Obj), Members(backlog') \subseteq Members(backlog)
    PROVE  CallsTyped' /\ OwnsItsKey' /\ AcceptsPassive'
<1>1. AcceptsPassive'
  BY DEF WorkInv, AcceptsPassive, Valid, Used, Kept
<1> QED
  BY <1>1, OwnSame

LEMMA TimerWork ==
    ASSUME IInv, WorkInv, Kept(conn'), TimerStep
    PROVE  /\ WorkInv'
           /\ UNCHANGED <<own, pc, rx, event, inbound, backlog>>
           /\ UNCHANGED txVars \/ (Sends("rst", timer.key, "mark") /\ timer.key \in Key \cup {None})
<1>1. UNCHANGED <<own, pc, rx, event, inbound, backlog>>
  BY DEF TimerStep, TimerActive, TimerClosing, TimerDrop, TimerSendRst, TimerFrame,
         sockVars, envVars, listenerVars
<1>2. backlog' \in Seq(Obj) /\ Members(backlog') \subseteq Members(backlog)
  BY <1>1 DEF WorkInv, QueuesTyped
<1>3. UNCHANGED txVars \/ (Sends("rst", timer.key, "mark") /\ timer.key \in Key \cup {None})
  BY DEF TimerStep, TimerActive, TimerClosing, TimerDrop, TimerSendRst, Send, Sends,
         WorkInv, QueuesTyped
<1>4. /\ txPending' \in Seq(Control) /\ txDone' \in Seq(Control)
      /\ peer' \in [Key -> PeerStates]
  <2>1. CASE UNCHANGED txVars
    BY <2>1 DEF txVars, WorkInv, QueuesTyped
  <2>2. CASE /\ timer.key \in Key \cup {None}
             /\ \E op \in Ops : \E act \in Acts : Sends(op, timer.key, act)
    BY <2>2, SendEffect DEF WorkInv, QueuesTyped
  <2> QED
    BY <1>3, <2>1, <2>2 DEF Ops, Acts
<1>5. /\ timerEvents' \in Seq(TimerEvent)
      /\ timer'.at # "idle" => timer'.key \in Key \cup {None}
  <2>1. CASE TimerActive
    <3>1. /\ timerEvents # <<>> /\ timerEvents \in Seq(TimerEvent)
          /\ timerEvents' = Tail(timerEvents)
      BY <2>1 DEF TimerActive, WorkInv, QueuesTyped
    <3>2. Head(timerEvents) \in TimerEvent /\ timerEvents' \in Seq(TimerEvent)
      BY <3>1, MembersOf
    <3>3. timer'.key = Head(timerEvents).key
      <4>1. \/ HoldExpired(connections[Head(timerEvents).key], Head(timerEvents).key)
            \/ timer' = [TimerIdle EXCEPT !.at = "closing", !.key = Head(timerEvents).key,
                                          !.gen = Head(timerEvents).gen]
        BY <2>1, Zenon DEF TimerActive
      <4>2. \A k, g : [TimerIdle EXCEPT !.at = "closing", !.key = k, !.gen = g].key = k
        BY DEF TimerIdle
      <4>3. \A o, k : HoldExpired(o, k) => timer'.key = k
        BY DEF HoldExpired
      <4> QED
        BY <4>1, <4>2, <4>3, Zenon
    <3> QED
      BY <3>2, <3>3 DEF TimerEvent
  <2>2. CASE TimerClosing \/ TimerDrop \/ TimerSendRst
    <3>1. /\ timerEvents' = timerEvents
          /\ timer' = TimerIdle \/ (timer'.key = timer.key /\ timer.at # "idle")
      <4>1. CASE TimerClosing
        <5>1. timer' = TimerIdle \/ \E o : HoldExpired(o, timer.key)
          BY <4>1, Zenon DEF TimerClosing
        <5> QED
          BY <4>1, <5>1 DEF TimerClosing, HoldExpired
      <4>2. CASE TimerDrop
        BY <4>2 DEF TimerDrop
      <4>3. CASE TimerSendRst
        BY <4>3 DEF TimerSendRst
      <4> QED
        BY <2>2, <4>1, <4>2, <4>3
    <3> QED
      BY <3>1 DEF TimerIdle, WorkInv, QueuesTyped
  <2> QED
    BY <2>1, <2>2 DEF TimerStep
<1>6. QueuesTyped'
  BY <1>1, <1>2, <1>4, <1>5 DEF WorkInv, QueuesTyped
<1> QED
  BY <1>1, <1>2, <1>3, <1>6, HoldersSame DEF WorkInv

LEMMA OtherWork ==
    ASSUME IInv, WorkInv, Kept(conn'),
           \/ ListenerDrop \/ DrainedReset \/ TransportReset \/ EventReset
           \/ TxDrain \/ TxApply
           \/ \E o \in Obj : TimerFires(o)
           \/ \E k \in Key : PeerStep(k)
    PROVE  /\ WorkInv'
           /\ UNCHANGED <<own, pc, rx>>
<1> USE DEF envVars, sockVars, listenerVars, timerVars, txVars
<1>1. UNCHANGED <<own, pc, rx>>
  <2>1. CASE ListenerDrop \/ DrainedReset \/ TransportReset \/ EventReset \/ TxDrain \/ TxApply
    BY <2>1 DEF ListenerDrop, DrainedReset, TransportReset, EventReset, TxDrain, TxApply
  <2>2. CASE \E o \in Obj : TimerFires(o)
    BY <2>2 DEF TimerFires
  <2>3. CASE \E k \in Key : PeerStep(k)
    BY <2>3 DEF PeerStep, PeerRequest, PeerResponse, PeerRst, PeerData, PeerShutdown, PeerSends
  <2> QED
    BY <2>1, <2>2, <2>3
<1>2. /\ backlog \in Seq(Obj) /\ timerEvents \in Seq(TimerEvent) /\ txDone \in Seq(Control)
      /\ txPending \in Seq(Control) /\ peer \in [Key -> PeerStates]
      /\ (rx.at # "idle" => rx.key \in Key)
      /\ (timer.at # "idle" => timer.key \in Key \cup {None})
  BY DEF WorkInv, QueuesTyped
<1>3. ASSUME QueuesTyped', backlog' = backlog \/ backlog' = <<>>
      PROVE  WorkInv'
  <2>1. backlog' \in Seq(Obj) /\ Members(backlog') \subseteq Members(backlog)
    <3>1. <<>> \in Seq(Obj) /\ Members(<<>>) = {}
      BY DEF Members
    <3> QED
      BY <1>2, <1>3, <3>1
  <2> QED
    BY <1>1, <1>3, <2>1, HoldersSame DEF WorkInv
<1>4. CASE ListenerDrop
  <2>1. /\ backlog' = <<>> /\ UNCHANGED <<timer, timerEvents, txPending, txDone, peer>>
    BY <1>4 DEF ListenerDrop
  <2>2. QueuesTyped'
    BY <1>1, <1>2, <2>1 DEF QueuesTyped
  <2> QED
    BY <1>1, <1>3, <2>1, <2>2
<1>5. CASE DrainedReset \/ EventReset
  <2>1. UNCHANGED <<backlog, timer, timerEvents, txPending, txDone, peer>>
    BY <1>5 DEF DrainedReset, EventReset
  <2>2. QueuesTyped'
    BY <1>1, <1>2, <2>1 DEF QueuesTyped
  <2> QED
    BY <1>1, <1>3, <2>1, <2>2
<1>6. CASE TransportReset
  <2>1. /\ UNCHANGED <<backlog, timer, timerEvents, txPending, txDone>>
        /\ peer' = [k \in Key |-> "idle"]
    BY <1>6 DEF TransportReset
  <2>2. QueuesTyped'
    BY <1>1, <1>2, <2>1 DEF QueuesTyped, PeerStates
  <2> QED
    BY <1>1, <1>3, <2>1, <2>2
<1>7. CASE TxDrain
  <2>1. UNCHANGED <<backlog, timer, timerEvents>>
    BY <1>7 DEF TxDrain
  <2>2. QueuesTyped'
    BY <1>1, <1>2, <1>7, <2>1, DrainEffect DEF WorkInv, QueuesTyped
  <2> QED
    BY <1>1, <1>3, <2>1, <2>2
<1>8. CASE TxApply
  <2>1. /\ UNCHANGED <<backlog, timer, timerEvents, txPending, peer>>
        /\ txDone' = Tail(txDone) /\ txDone # <<>>
    BY <1>8 DEF TxApply
  <2>2. txDone' \in Seq(Control)
    BY <1>2, <2>1, MembersOf
  <2>3. QueuesTyped'
    BY <1>1, <1>2, <2>1, <2>2 DEF QueuesTyped
  <2> QED
    BY <1>1, <1>3, <2>1, <2>3
<1>9. CASE \E o \in Obj : TimerFires(o)
  <2>1. PICK o \in Obj :
           /\ timerEvents' = Append(timerEvents, [key |-> conn[o].key, gen |-> conn[o].gen])
           /\ UNCHANGED <<backlog, timer, txPending, txDone, peer>>
    BY <1>9 DEF TimerFires
  <2>2. [key |-> conn[o].key, gen |-> conn[o].gen] \in TimerEvent
    BY DEF TimerEvent, IInv, ObjectsTyped, ConnRec
  <2>3. timerEvents' \in Seq(TimerEvent)
    BY <1>2, <2>1, <2>2, MembersOf
  <2>4. QueuesTyped'
    BY <1>1, <1>2, <2>1, <2>3 DEF QueuesTyped
  <2> QED
    BY <1>1, <1>3, <2>1, <2>4
<1>10. CASE \E k \in Key : PeerStep(k)
  <2>1. /\ \E k \in Key : \E next \in PeerStates : peer' = [peer EXCEPT ![k] = next]
        /\ UNCHANGED <<backlog, timer, timerEvents, txPending, txDone>>
    BY <1>10 DEF PeerStep, PeerRequest, PeerResponse, PeerRst, PeerData, PeerShutdown,
                 PeerSends, PeerStates
  <2>2. peer' \in [Key -> PeerStates]
    BY <1>2, <2>1
  <2>3. QueuesTyped'
    BY <1>1, <1>2, <2>1, <2>2 DEF QueuesTyped
  <2> QED
    BY <1>1, <1>3, <2>1, <2>3
<1> QED
  BY <1>1, <1>4, <1>5, <1>6, <1>7, <1>8, <1>9, <1>10

LEMMA InitWork == Init => WorkInv
<1> SUFFICES ASSUME Init PROVE WorkInv
  OBVIOUS
<1>1. CallsTyped
  BY DEF Init, CallsTyped, Calls, SockSteps, Connects
<1>2. OwnsItsKey
  BY DEF Init, OwnsItsKey, Busy, AtRest
<1>3. QueuesTyped
  BY DEF Init, QueuesTyped, RxIdle, TimerIdle, PeerStates
<1>4. AcceptsPassive
  BY DEF Init, AcceptsPassive, RxIdle, Members
<1> QED
  BY <1>1, <1>2, <1>3, <1>4 DEF WorkInv

LEMMA NextWork ==
    ASSUME IInv, WorkInv, Next
    PROVE  WorkInv' /\ Kept(conn')
<1>1. Kept(conn')
  BY NextShape DEF Shape
<1>2. CASE \E s \in Sock : SockStep(s)
  BY <1>1, <1>2, SocketQueues, SocketOwns DEF WorkInv
<1> QED
  BY <1>1, <1>2, RxWork, TimerWork, OtherWork DEF Next

-------------------------------------------------------------------------------
(* The peer's end of a ConnId the guest connects from.                     *)

\* No connection was made under s yet.
New(s) == \A o \in Obj : ~(Used(o) /\ conn[o].key = s)
Requested(s) == \E c \in Members(txPending) : c.op = "request" /\ c.key = s

\* A peer does not connect to such a ConnId, and is silent until it is asked.
NeverAsking == \A s \in Active : peer[s] # "asking"
SilentUntilAsked ==
    \A s \in Active : New(s) =>
        /\ peer[s] = "idle" /\ ~Requested(s)
        /\ \A p \in Members(inbound) : p.key # s
PeerInv == NeverAsking /\ SilentUntilAsked

\* What a step other than the peer's does to its end.
GuestStep(s) ==
    /\ peer'[s] \in {peer[s], "asked", "idle"}
    /\ New(s) /\ peer[s] = "idle" /\ ~Requested(s) => peer'[s] = "idle" /\ ~Requested(s)'

LEMMA SendGuest ==
    ASSUME WorkInv, NEW s \in Active, peer[s] # "asking",
           NEW op \in Ops, NEW k \in Key \cup {None}, NEW act \in Acts, Sends(op, k, act),
           New(s) => ~(op = "request" /\ s = k)
    PROVE  GuestStep(s)
<1>1. /\ GuestOnly(peer, peer', {t \in Key : ~(op = "request" /\ t = k)})
      /\ Members(txPending') \subseteq
            Members(txPending) \cup {[op |-> op, key |-> k, act |-> act]}
      /\ s \in Key
  BY SendEffect DEF WorkInv, Key
<1>2. New(s) /\ ~Requested(s) => ~Requested(s)'
  BY <1>1 DEF Requested
<1> QED
  BY <1>1, <1>2 DEF GuestOnly, GuestStep

LEMMA GuestSteps ==
    ASSUME IInv, WorkInv, NEW s \in Active, peer[s] # "asking",
           \/ \E t \in Sock : SockStep(t)
           \/ RxStep \/ TimerStep \/ \E o \in Obj : TimerFires(o)
           \/ ListenerDrop \/ DrainedReset \/ TransportReset \/ EventReset
           \/ TxDrain \/ TxApply
    PROVE  GuestStep(s)
<1>0. s \in Key /\ s \in Sock
  BY DEF Key, Sock
<1>1. ASSUME UNCHANGED <<txPending, peer>> PROVE GuestStep(s)
  BY <1>1 DEF GuestStep, Requested
<1>2. ASSUME NEW t \in Sock, SockStep(t) PROVE GuestStep(s)
  <2>1. CASE UNCHANGED txVars
    BY <1>1, <2>1 DEF txVars
  <2>2. CASE \E op \in {"shutdown", "rst"} : \E k \in Key : \E act \in Acts : Sends(op, k, act)
    BY <2>2, SendGuest DEF Ops
  <2>3. CASE t \in Active /\ pc[t] = "request" /\ \E act \in Acts : Sends("request", t, act)
    <3>1. Valid(own[t], {t})
      BY <2>3 DEF WorkInv, OwnsItsKey, Busy, AtRest, KeysOf
    <3>2. New(s) => s # t
      BY <3>1 DEF Valid, New
    <3>3. t \in Key /\ "request" \in Ops
      BY <2>3 DEF Key, Ops
    <3> QED
      BY <2>3, <3>2, <3>3, SendGuest
  <2> QED
    BY <1>2, <2>1, <2>2, <2>3, SocketSends DEF SockSends, Sends, Acts
<1>3. CASE RxStep
  <2>1. CASE UNCHANGED txVars
    BY <1>1, <2>1 DEF txVars
  <2>2. CASE rx.key \in Key /\ \E op \in {"response", "rst"} : Sends(op, rx.key, "mark")
    BY <2>2, SendGuest DEF Ops, Acts
  <2> QED
    BY <1>3, <2>1, <2>2, RxSends
<1>4. CASE TimerStep
  <2>0. Kept(conn')
    BY <1>4, TimerShape DEF Shape
  <2>1. CASE UNCHANGED txVars
    BY <1>1, <2>1 DEF txVars
  <2>2. CASE timer.key \in Key \cup {None} /\ Sends("rst", timer.key, "mark")
    BY <2>2, SendGuest DEF Ops, Acts
  <2> QED
    BY <1>4, <2>0, <2>1, <2>2, TimerWork
<1>5. CASE \/ ListenerDrop \/ DrainedReset \/ EventReset \/ TxApply
           \/ \E o \in Obj : TimerFires(o)
  <2>1. UNCHANGED <<txPending, peer>>
    BY <1>5 DEF ListenerDrop, DrainedReset, EventReset, TxApply, TimerFires, txVars
  <2> QED
    BY <1>1, <2>1
<1>6. CASE TransportReset
  BY <1>0, <1>6 DEF TransportReset, GuestStep, Requested
<1>7. CASE TxDrain
  <2>1. /\ Members(txPending) = Members(txPending') \cup Members(txDone')
        /\ GuestOnly(peer, peer', {t \in Key : \A c \in Members(txPending) :
                                                 ~(c.op = "request" /\ c.key = t)})
    BY <1>7, DrainEffect DEF WorkInv
  <2> QED
    BY <1>0, <2>1 DEF GuestOnly, GuestStep, Requested
<1> QED
  BY <1>2, <1>3, <1>4, <1>5, <1>6, <1>7

\* The RX virtqueue loses its first packet to the RX taskless.
LEMMA InboundSteps ==
    ASSUME IInv, WorkInv, Next
    PROVE  \/ inbound' = inbound /\ ~\E k \in Key : PeerStep(k)
           \/ rx.at = "idle" /\ inbound # <<>> /\ inbound' = Tail(inbound) /\ RxStep
           \/ \E k \in Key : PeerStep(k)
<1>1. CASE \E t \in Sock : SockStep(t)
  BY <1>1, NextWork, SocketQueues
<1>2. CASE RxStep
  <2>1. CASE RxRequest \/ RxResponse \/ RxRst \/ RxShutdown \/ RxData
    BY <1>2, <2>1, Zenon DEF RxRequest, RxResponse, RxRst, RxShutdown, RxData, RxTakes
  <2>2. CASE \/ RxInsert \/ RxPush \/ RxUndo \/ RxRespond \/ RxUnlist \/ RxOnRst \/ RxRelease
             \/ RxSendRst
    BY <2>2 DEF RxInsert, RxPush, RxUndo, RxRespond, RxUnlist, RxOnRst, RxRelease, RxSendRst,
                RxAt, envVars
  <2> QED
    BY <1>2, <2>1, <2>2 DEF RxStep
<1>3. CASE TimerStep
  BY <1>3, NextWork, TimerWork
<1>4. CASE \/ ListenerDrop \/ DrainedReset \/ TransportReset \/ EventReset
           \/ TxDrain \/ TxApply \/ \E o \in Obj : TimerFires(o)
  BY <1>4 DEF ListenerDrop, DrainedReset, TransportReset, EventReset, TxDrain, TxApply,
              TimerFires, envVars
<1> QED
  BY <1>1, <1>2, <1>3, <1>4 DEF Next

\* What the peer sends from such a ConnId: an answer or, when it has answered, more.
PeerSent(s, op, next) ==
    /\ peer'[s] = next
    /\ \E flags \in SUBSET Both :
          inbound' = Append(inbound, [op |-> op, key |-> s, flags |-> flags])
LEMMA PeerSteps ==
    ASSUME IInv, WorkInv, NEW k \in Key, PeerStep(k), NEW s \in Active
    PROVE  /\ UNCHANGED <<conn, txPending>>
           /\ \/ k # s /\ peer'[s] = peer[s]
                 /\ \E p \in Packet : p.key = k /\ inbound' = Append(inbound, p)
              \/ k = s /\ peer[s] # "idle" /\ PeerSent(s, "response", "open")
              \/ k = s /\ peer[s] # "idle" /\ PeerSent(s, "rst", "idle")
              \/ k = s /\ peer[s] = "open" /\ PeerSent(s, "rw", "open")
              \/ k = s /\ peer[s] = "open" /\ \E next \in {"open", "shut"} :
                                                PeerSent(s, "shutdown", next)
<1>0. peer \in [Key -> PeerStates] /\ s \in Key /\ s \notin PassiveKey
      /\ PeerFlags \subseteq SUBSET Both
  BY SpaceAssumption DEF WorkInv, QueuesTyped, Key
<1>1. UNCHANGED <<conn, txPending>>
  BY DEF PeerStep, PeerRequest, PeerResponse, PeerRst, PeerData, PeerShutdown, PeerSends
<1>2. ASSUME NEW op \in {"request", "response", "rst", "rw", "shutdown"},
             NEW flags \in SUBSET Both, NEW next, PeerSends(k, op, flags, next)
      PROVE  /\ k # s => /\ peer'[s] = peer[s]
                         /\ \E p \in Packet : p.key = k /\ inbound' = Append(inbound, p)
             /\ k = s => PeerSent(s, op, next)
  <2>1. /\ inbound' = Append(inbound, [op |-> op, key |-> k, flags |-> flags])
        /\ peer' = [peer EXCEPT ![k] = next]
    BY <1>2 DEF PeerSends
  <2>2. [op |-> op, key |-> k, flags |-> flags] \in Packet
    BY DEF Packet
  <2>3. k # s => /\ peer'[s] = peer[s]
                 /\ \E p \in Packet : p.key = k /\ inbound' = Append(inbound, p)
    BY <1>0, <2>1, <2>2
  <2>4. k = s => PeerSent(s, op, next)
    BY <1>0, <2>1 DEF PeerSent
  <2> QED
    BY <2>3, <2>4
<1>3. CASE PeerRequest(k)
  BY <1>0, <1>1, <1>2, <1>3 DEF PeerRequest
<1>4. CASE PeerResponse(k)
  BY <1>1, <1>2, <1>4 DEF PeerResponse
<1>5. CASE PeerRst(k)
  BY <1>1, <1>2, <1>5 DEF PeerRst
<1>6. CASE PeerData(k)
  BY <1>1, <1>2, <1>6 DEF PeerData
<1>7. CASE PeerShutdown(k)
  BY <1>0, <1>1, <1>2, <1>7 DEF PeerShutdown
<1> QED
  BY <1>3, <1>4, <1>5, <1>6, <1>7 DEF PeerStep

LEMMA InitPeer == Init => PeerInv
BY DEF Init, PeerInv, NeverAsking, SilentUntilAsked, New, Used, NewConn, Key, Requested, Members

LEMMA NextPeer ==
    ASSUME IInv, WorkInv, PeerInv, Next
    PROVE  PeerInv'
<1> SUFFICES ASSUME NEW s \in Active
             PROVE  /\ peer'[s] # "asking"
                    /\ New(s)' => /\ peer'[s] = "idle" /\ ~Requested(s)'
                                  /\ \A p \in Members(inbound') : p.key # s
  BY DEF PeerInv, NeverAsking, SilentUntilAsked
<1>0. inbound \in Seq(Packet)
  BY DEF IInv, ObjectsTyped
<1>1. New(s)' => New(s)
  BY NextWork DEF Kept, New, Used
<1>2. /\ peer[s] # "asking"
      /\ New(s) => /\ peer[s] = "idle" /\ ~Requested(s)
                   /\ \A p \in Members(inbound) : p.key # s
  BY DEF PeerInv, NeverAsking, SilentUntilAsked
<1>3. CASE \E k \in Key : PeerStep(k)
  <2>1. PICK k \in Key : PeerStep(k)
    BY <1>3
  <2>2. CASE k = s
    BY <1>1, <1>2, <2>1, <2>2, PeerSteps DEF PeerSent
  <2>3. CASE k # s
    <3>1. peer'[s] = peer[s] /\ txPending' = txPending
      BY <2>1, <2>3, PeerSteps
    <3>2. PICK p \in Packet : p.key = k /\ inbound' = Append(inbound, p)
      BY <2>1, <2>3, PeerSteps
    <3>3. Members(inbound') = Members(inbound) \cup {p}
      BY <1>0, <3>2, MembersOf
    <3> QED
      BY <1>1, <1>2, <2>3, <3>1, <3>2, <3>3 DEF Requested
  <2> QED
    BY <2>2, <2>3
<1>4. CASE ~\E k \in Key : PeerStep(k)
  <2>1. GuestStep(s)
    BY <1>2, <1>4, GuestSteps DEF Next
  <2>2. inbound' = inbound \/ (inbound # <<>> /\ inbound' = Tail(inbound))
    BY <1>4, InboundSteps
  <2>3. Members(inbound') \subseteq Members(inbound)
    <3>1. inbound # <<>> => Members(inbound) = {Head(inbound)} \cup Members(Tail(inbound))
      BY <1>0, MembersOf
    <3> QED
      BY <2>2, <3>1
  <2> QED
    BY <1>1, <1>2, <2>1, <2>3 DEF GuestStep
<1> QED
  BY <1>3, <1>4

-------------------------------------------------------------------------------
(* What a step does to one object.                                         *)

LEMMA ArmedAt ==
    ASSUME ObjectsTyped, NEW o \in Obj, NEW x
    PROVE  /\ x # o => Armed(x)[o] = conn[o]
           /\ Armed(x)[o].phase = conn[o].phase /\ Armed(x)[o].ready = conn[o].ready
           /\ Armed(o)[o].ticking
<1>1. CASE x # o
  BY <1>1 DEF ObjectsTyped, Armed
<1>2. CASE x = o
  BY <1>2 DEF ObjectsTyped, ConnRec, Armed
<1> QED
  BY <1>1, <1>2 DEF ObjectsTyped, ConnRec, Armed

LEMMA WithRstAt ==
    ASSUME ObjectsTyped, NEW o \in Obj, NEW x
    PROVE  /\ x # o => WithRst(x)[o] = conn[o]
           /\ WithRst(o)[o].ready
BY DEF ObjectsTyped, ConnRec, WithRst

LEMMA TimedOutAt ==
    ASSUME ObjectsTyped, NEW o \in Obj, NEW x
    PROVE  /\ x # o => TimedOut(x)[o] = conn[o]
           /\ conn[o].phase = "Connecting" => TimedOut(o)[o].ready
           /\ conn[o].ready => TimedOut(x)[o].ready
<1> DEFINE c == [conn EXCEPT ![x].gen = 0, ![x].ticking = FALSE]
<1>1. /\ c \in [Obj -> ConnRec] /\ c[o].ready = conn[o].ready
      /\ x # o => c[o] = conn[o]
  BY DEF ObjectsTyped, ConnRec
<1>2. TimedOut(x) = CASE conn[x].phase = "Connecting" ->
                            [c EXCEPT ![x].phase = "Reset", ![x].err = TRUE, ![x].ready = TRUE]
                      [] conn[x].phase = "Closing" -> [c EXCEPT ![x].phase = "Closed"]
                      [] OTHER -> c
  BY DEF TimedOut
<1> HIDE DEF c
<1> DEFINE Fine == /\ x # o => TimedOut(x)[o] = conn[o]
                   /\ conn[o].ready => TimedOut(x)[o].ready
<1>3. ASSUME conn[x].phase = "Connecting" PROVE Fine
  <2>1. TimedOut(x) = [c EXCEPT ![x].phase = "Reset", ![x].err = TRUE, ![x].ready = TRUE]
    BY <1>2, <1>3
  <2> QED
    BY <1>1, <2>1 DEF ConnRec
<1>4. ASSUME conn[x].phase = "Closing" PROVE Fine
  <2>1. TimedOut(x) = [c EXCEPT ![x].phase = "Closed"]
    BY <1>2, <1>4
  <2> QED
    BY <1>1, <1>4, <2>1 DEF ConnRec
<1>5. ASSUME conn[x].phase # "Connecting", conn[x].phase # "Closing" PROVE Fine
  <2>1. TimedOut(x) = c
    BY <1>2, <1>5
  <2> QED
    BY <1>1, <1>5, <2>1
<1>6. conn[o].phase = "Connecting" => TimedOut(o)[o].ready
  <2> DEFINE d == [conn EXCEPT ![o].gen = 0, ![o].ticking = FALSE]
  <2>1. d \in [Obj -> ConnRec]
    BY DEF ObjectsTyped, ConnRec
  <2>2. conn[o].phase = "Connecting" =>
           TimedOut(o) = [d EXCEPT ![o].phase = "Reset", ![o].err = TRUE, ![o].ready = TRUE]
    BY DEF TimedOut
  <2> HIDE DEF d
  <2> QED
    BY <2>1, <2>2 DEF ConnRec
<1> QED
  BY <1>3, <1>4, <1>5, <1>6

LEMMA LocallyShutAt ==
    ASSUME ObjectsTyped, NEW o \in Obj, NEW x, NEW dirs
    PROVE  /\ x # o => LocallyShut(x, dirs)[o] = conn[o]
           /\ LocallyShut(x, dirs)[o].ready = conn[o].ready
BY DEF ObjectsTyped, ConnRec, LocallyShut

\* A socket's step: at most the connection it owns, or one it makes.
LEMMA SockObj ==
    ASSUME IInv, NEW t \in Sock, SockStep(t), NEW o \in Obj, Used(o)
    PROVE  /\ conn[o].ready => conn'[o].ready
           /\ conn'[o] = conn[o] \/ (own[t] = o /\ Busy(t))
<1>0. ObjectsTyped
  BY DEF IInv
<1> USE DEF Busy, AtRest
<1>1. CASE ConnectInsert(t)
  <2>1. \E x \in Fresh : conn' = [conn EXCEPT ![x] = NewConn(t, "Connecting")]
    BY <1>1 DEF ConnectInsert
  <2> QED
    BY <1>0, <2>1 DEF ObjectsTyped, Fresh, Used
<1>2. CASE \/ ConnectRequest(t) \/ ConnectUnwrap(t) \/ DropDecide(t) \/ SendShutdown(t)
           \/ SendRst(t) \/ Release(t) \/ Accept(t) \/ ConnectUndo(t) \/ DropTable(t)
           \/ Unlist(t)
  <2>1. conn' = conn
    BY <1>2, Zenon DEF ConnectRequest, ConnectUnwrap, DropDecide, SendShutdown, SendRst,
       Release, Accept, ConnectUndo, DropTable, Unlist
  <2> QED
    BY <2>1
<1>3. CASE ConnectArm(t) \/ CloseArm(t)
  <2>1. conn' = Armed(own[t]) /\ Busy(t)
    BY <1>3 DEF ConnectArm, CloseArm, ArmTimer
  <2> QED
    BY <1>0, <2>1, ArmedAt
<1>4. CASE ConnectFinish(t)
  <2>1. conn' = [conn EXCEPT ![own[t]].err = FALSE] /\ Busy(t)
    BY <1>4 DEF ConnectFinish
  <2> QED
    BY <1>0, <2>1 DEF ObjectsTyped, ConnRec
<1>5. CASE Recv(t)
  <2>1. conn' = [conn EXCEPT ![own[t]].rx = @ - 1] /\ Busy(t)
    BY <1>5 DEF Recv
  <2> QED
    BY <1>0, <2>1 DEF ObjectsTyped, ConnRec
<1>6. CASE DropBegin(t)
  <2>1. (\E p : conn' = [conn EXCEPT ![own[t]].phase = p]) /\ Busy(t)
    BY <1>6 DEF DropBegin
  <2> QED
    BY <1>0, <2>1 DEF ObjectsTyped, ConnRec
<1>7. CASE (\E dirs \in SUBSET Both : Shutdown(t, dirs)) \/ DropShut(t)
  <2>1. (\E dirs : conn' = LocallyShut(own[t], dirs)) /\ Busy(t)
    BY <1>7 DEF Shutdown, DropShut
  <2> QED
    BY <1>0, <2>1, LocallyShutAt
<1> QED
  BY <1>1, <1>2, <1>3, <1>4, <1>5, <1>6, <1>7 DEF SockStep, CallStep

SameTimer(o) ==
    /\ conn'[o].phase = conn[o].phase
    /\ conn'[o].gen = conn[o].gen /\ conn'[o].ticking = conn[o].ticking

\* The RX taskless: it answers, resets or shuts what it finds, and counts payload.
LEMMA RxObj ==
    ASSUME IInv, RxStep, NEW o \in Obj, Used(o)
    PROVE  /\ conn[o].ready => conn'[o].ready
           /\ SameTimer(o) \/ conn'[o].ready
              \/ (RxShutdown /\ connections[Head(inbound).key] = o)
<1>0. ObjectsTyped
  BY DEF IInv
<1>1. ASSUME conn'[o] = conn[o]
      PROVE  SameTimer(o) /\ conn'[o].ready = conn[o].ready
  BY <1>1 DEF SameTimer
<1>2. CASE RxRequest
  <2>1. conn' = conn \/ \E x \in Fresh : \E k : conn' = [conn EXCEPT ![x] = NewConn(k, "Connected")]
    BY <1>2, Zenon DEF RxRequest
  <2>2. conn'[o] = conn[o]
    BY <1>0, <2>1 DEF ObjectsTyped, Fresh, Used
  <2> QED
    BY <1>1, <2>2
<1>3. CASE \/ RxInsert \/ RxPush \/ RxUndo \/ RxRespond \/ RxUnlist \/ RxRelease \/ RxSendRst
           \/ RxRst
  <2>1. conn' = conn
    BY <1>3, Zenon DEF RxInsert, RxPush, RxUndo, RxRespond, RxUnlist, RxRelease, RxSendRst, RxRst
  <2> QED
    BY <1>1, <2>1
<1>4. CASE RxOnRst
  <2>1. conn' = WithRst(rx.obj)
    BY <1>4 DEF RxOnRst
  <2> QED
    BY <1>0, <1>1, <2>1, WithRstAt
<1>5. CASE RxResponse
  <2> DEFINE x == connections[Head(inbound).key]
  <2>1. conn' = conn \/ conn' = [conn EXCEPT ![x].gen = 0, ![x].ticking = FALSE,
                                ![x].phase = "Connected", ![x].ready = TRUE]
    BY <1>5, Zenon DEF RxResponse
  <2> HIDE DEF x
  <2>2. conn'[o] = conn[o] \/ conn'[o].ready
    BY <1>0, <2>1 DEF ObjectsTyped, ConnRec
  <2> QED
    BY <1>1, <2>2
<1>6. CASE RxShutdown
  <2> DEFINE x == connections[Head(inbound).key]
  <2>1. conn' = conn \/ \E t, p : conn' = [conn EXCEPT ![x].peer = t, ![x].phase = p]
    <3> DEFINE theirs == conn[x].peer \cup Head(inbound).flags
               rst == theirs = Both /\ conn[x].local = Both /\ conn[x].rx = 0
    <3>1. \/ conn' = conn
          \/ conn' = [conn EXCEPT ![x].peer = theirs,
                            ![x].phase = IF theirs # Both THEN @
                                         ELSE IF rst THEN "Closed" ELSE "Closing"]
      BY <1>6, Zenon DEF RxShutdown
    <3> QED
      BY <3>1
  <2> HIDE DEF x
  <2>2. conn'[o].ready = conn[o].ready /\ (x # o => conn'[o] = conn[o])
    <3>1. CASE \E t, p : conn' = [conn EXCEPT ![x].peer = t, ![x].phase = p]
      <4>1. PICK t, p : conn' = [conn EXCEPT ![x].peer = t, ![x].phase = p]
        BY <3>1
      <4> QED
        BY <1>0, <4>1 DEF ObjectsTyped, ConnRec
    <3> QED
      BY <2>1, <3>1
  <2> QED
    BY <1>1, <1>6, <2>2 DEF x
<1>7. CASE RxData
  <2> DEFINE x == connections[Head(inbound).key]
  <2>1. conn' = conn \/ conn' = [conn EXCEPT ![x].rx = @ + 1]
    BY <1>7 DEF RxData
  <2> HIDE DEF x
  <2>2. SameTimer(o) /\ conn'[o].ready = conn[o].ready
    BY <1>0, <2>1 DEF ObjectsTyped, ConnRec, SameTimer
  <2> QED
    BY <2>2
<1> QED
  BY <1>2, <1>3, <1>4, <1>5, <1>6, <1>7 DEF RxStep

\* The other steps: a reset or a timeout makes the result ready, an expiry is queued.
LEMMA OtherObj ==
    ASSUME IInv, NEW o \in Obj, Used(o),
           \/ TimerStep \/ ListenerDrop \/ DrainedReset \/ TransportReset \/ EventReset
           \/ TxDrain \/ TxApply \/ \E x \in Obj : TimerFires(x)
           \/ \E k \in Key : PeerStep(k)
    PROVE  /\ conn[o].ready => conn'[o].ready
           /\ conn[o].phase = "Connecting" =>
                \/ SameTimer(o) \/ conn'[o].ready \/ TimerFires(o)
                \/ conn'[o].phase = conn[o].phase /\ conn'[o].ticking
<1>0. ObjectsTyped
  BY DEF IInv
<1>1. ASSUME conn'[o] = conn[o]
      PROVE  SameTimer(o) /\ conn'[o].ready = conn[o].ready
  BY <1>1 DEF SameTimer
<1>2. CASE TimerStep
  <2>1. conn' = conn \/ \E x : conn' = TimedOut(x)
    BY <1>2, Zenon DEF TimerStep, TimerActive, TimerClosing, TimerDrop, TimerSendRst
  <2> QED
    BY <1>0, <1>1, <2>1, TimedOutAt
<1>3. CASE DrainedReset \/ EventReset
  <2>1. conn' = conn \/ \E x : conn' = WithRst(x)
    BY <1>3 DEF DrainedReset, EventReset, AfterReset
  <2> QED
    BY <1>0, <1>1, <2>1, WithRstAt
<1>4. CASE ListenerDrop \/ TransportReset \/ TxDrain \/ \E k \in Key : PeerStep(k)
  <2>1. conn' = conn
    BY <1>4 DEF ListenerDrop, TransportReset, TxDrain, PeerStep, PeerRequest, PeerResponse,
                PeerRst, PeerData, PeerShutdown, PeerSends
  <2> QED
    BY <1>1, <2>1
<1>5. CASE TxApply
  <2>1. conn' = conn \/ \E x : conn' = Armed(x)
    BY <1>5, Zenon DEF TxApply
  <2> QED
    BY <1>0, <1>1, <2>1, ArmedAt
<1>6. CASE \E x \in Obj : TimerFires(x)
  <2>1. PICK x \in Obj : TimerFires(x) /\ conn' = [conn EXCEPT ![x].ticking = FALSE]
    BY <1>6 DEF TimerFires
  <2>2. conn'[o].ready = conn[o].ready /\ (x # o => conn'[o] = conn[o])
    BY <1>0, <2>1 DEF ObjectsTyped, ConnRec
  <2> QED
    BY <1>1, <2>1, <2>2
<1> QED
  BY <1>2, <1>3, <1>4, <1>5, <1>6

-------------------------------------------------------------------------------
(* A socket in connect(), until it has its result.                         *)

WaitSteps == {"request", "armConnect", "connecting"}
Waits(s) == pc[s] \in WaitSteps /\ FirstAttempt(s) /\ ~conn[own[s]].ready

\* A bottom half has taken o and will reset it.
Taken(o) ==
    \/ rx.at = "onRst" /\ rx.obj = o
    \/ o \in event.held /\ event.current # o

\* An answer is ahead of every SHUTDOWN the peer sends.
Answers(p, s) == p.op \in {"response", "rst"} /\ p.key = s
Answered(s) ==
    /\ \A i \in DOMAIN inbound :
          inbound[i].op = "shutdown" /\ inbound[i].key = s
             => \E j \in 1..(i - 1) : Answers(inbound[j], s)
    /\ peer[s] \in {"open", "shut"} => \E j \in DOMAIN inbound : Answers(inbound[j], s)

EndComes(s) == conn[own[s]].ticking \/ ExpiryQueued(own[s]) \/ DeferredArm(s)

Awaits(s) ==
    LET o == own[s] IN
    /\ conn[o].phase = "Connecting"
    /\ connections[s] = o \/ Taken(o)
    /\ connections[s] = o => Answered(s)
    /\ connections[s] = o /\ pc[s] = "connecting" => EndComes(s)
WaitInv == \A s \in Active : Waits(s) => Awaits(s)

EventTyped == event \in [held : SUBSET Obj, current : Obj \cup {None}]

\* The inductive invariant behind ConnectWillEnd.
ConnectInv == IInv /\ WorkInv /\ EventTyped /\ PeerInv /\ WaitInv

LEMMA SockFrame ==
    ASSUME WorkInv, NEW t \in Sock, SockStep(t), NEW s \in Sock
    PROVE  /\ t # s => pc'[s] = pc[s] /\ own'[s] = own[s]
           /\ pc'[s] \in WaitSteps /\ t = s =>
                \/ ConnectInsert(s)
                \/ own' = own /\ (ConnectRequest(s) \/ ConnectArm(s))
<1> USE DEF Goto
<1>0. pc \in [Sock -> SockSteps] /\ own \in [Sock -> Obj \cup {None}]
  BY DEF WorkInv, CallsTyped
<1>1. Done(t) \notin WaitSteps /\ AfterShutdown(t) \notin WaitSteps
  BY DEF Done, AfterShutdown, WaitSteps
<1>2. CASE ConnectInsert(t)
  <2>1. (\E o : own' = [own EXCEPT ![t] = o]) /\ pc' = [pc EXCEPT ![t] = "request"]
    BY <1>2 DEF ConnectInsert
  <2> QED
    BY <1>0, <1>2, <2>1
<1>3. CASE ConnectRequest(t) \/ ConnectArm(t)
  <2>1. own' = own /\ \E l : pc' = [pc EXCEPT ![t] = l]
    BY <1>3 DEF ConnectRequest, ConnectArm, ArmTimer
  <2> QED
    BY <1>0, <1>3, <2>1
<1>4. CASE Recv(t)
  <2>1. own' = own /\ pc' = pc /\ pc[t] = "connected"
    BY <1>4 DEF Recv, sockVars
  <2> QED
    BY <2>1 DEF WaitSteps
<1>5. CASE \/ Accept(t) \/ ConnectUnwrap(t) \/ Release(t)
  <2>1. /\ \E o : own' = [own EXCEPT ![t] = o]
        /\ \E l \in {"connected", "init", "panicked", "gone"} : pc' = [pc EXCEPT ![t] = l]
    BY <1>5 DEF Accept, ConnectUnwrap, Release
  <2> QED
    BY <1>0, <2>1 DEF WaitSteps
<1>6. CASE \/ ConnectFinish(t) \/ ConnectUndo(t)
           \/ DropBegin(t) \/ DropShut(t) \/ DropDecide(t) \/ DropTable(t)
           \/ \E dirs \in SUBSET Both : Shutdown(t, dirs)
  <2>1. /\ own' = own
        /\ \E l \in {"unrequest", "connected", "unwrap", "sendShutdown", "dropShut",
                     "dropTable", "dropDecide", AfterShutdown(t)} : pc' = [pc EXCEPT ![t] = l]
    BY <1>6 DEF ConnectFinish, ConnectUndo, DropBegin, DropShut, DropDecide, DropTable, Shutdown
  <2> QED
    BY <1>0, <1>1, <2>1 DEF WaitSteps
<1>7. CASE SendShutdown(t) \/ CloseArm(t) \/ Unlist(t) \/ SendRst(t)
  <2>1. /\ own' = own
        /\ \E l \in {"armClose", "connected", "sendRst", Done(t), AfterShutdown(t)} :
              pc' = [pc EXCEPT ![t] = l]
    BY <1>7 DEF SendShutdown, CloseArm, Unlist, SendRst, ArmTimer
  <2> QED
    BY <1>0, <1>1, <2>1 DEF WaitSteps
<1> QED
  BY <1>2, <1>3, <1>4, <1>5, <1>6, <1>7 DEF SockStep, CallStep

LEMMA ReadyStays ==
    ASSUME IInv, Next, NEW o \in Obj, Used(o), conn[o].ready
    PROVE  conn'[o].ready
BY SockObj, RxObj, OtherObj DEF Next

\* Who waits after a step has just called connect(), or waited before.
LEMMA WaitedBefore ==
    ASSUME IInv, WorkInv, Next, NEW s \in Active, Waits(s)'
    PROVE  \/ ConnectInsert(s)
           \/ /\ Waits(s) /\ own'[s] = own[s]
              /\ pc'[s] = pc[s] \/ ConnectRequest(s) \/ ConnectArm(s)
<1> SUFFICES ASSUME ~ConnectInsert(s)
             PROVE  /\ Waits(s) /\ own'[s] = own[s]
                    /\ pc'[s] = pc[s] \/ ConnectRequest(s) \/ ConnectArm(s)
  OBVIOUS
<1>0. s \in Sock /\ pc'[s] \in WaitSteps /\ FirstAttempt(s)' /\ ~conn'[own'[s]].ready
  BY DEF Waits, Sock
<1>1. own'[s] = own[s] /\ (pc'[s] = pc[s] \/ ConnectRequest(s) \/ ConnectArm(s))
  <2>1. CASE \E t \in Sock : SockStep(t)
    BY <1>0, <2>1, SockFrame
  <2>2. CASE ~\E t \in Sock : SockStep(t)
    <3>1. UNCHANGED <<own, pc>>
      BY <2>2, NextWork, RxSends, TimerWork, OtherWork DEF Next
    <3> QED
      BY <3>1
  <2> QED
    BY <2>1, <2>2
<1>2. pc[s] \in WaitSteps
  BY <1>0, <1>1 DEF ConnectRequest, ConnectArm, WaitSteps
<1>3. Valid(own[s], {s})
  BY <1>0, <1>2 DEF WorkInv, OwnsItsKey, Busy, AtRest, WaitSteps, KeysOf
<1>4. ~conn[own[s]].ready
  BY <1>0, <1>1, <1>3, ReadyStays DEF Valid
<1>5. FirstAttempt(s)
  <2> SUFFICES ASSUME NEW x \in Obj, conn[x].phase # "unused", conn[x].key = s
               PROVE  x = own[s]
    BY DEF FirstAttempt
  <2>1. conn'[x].phase # "unused" /\ conn'[x].key = s
    BY NextWork DEF Kept, Used
  <2> QED
    BY <1>0, <1>1, <2>1 DEF FirstAttempt
<1> QED
  BY <1>1, <1>2, <1>4, <1>5 DEF Waits

\* What connect() starts with.
LEMMA WaitBegins ==
    ASSUME ConnectInv, Next, NEW s \in Active, Waits(s)', ConnectInsert(s)
    PROVE  Awaits(s)'
<1>1. PICK o \in Fresh : /\ connections' = [connections EXCEPT ![s] = o]
                         /\ conn' = [conn EXCEPT ![o] = NewConn(s, "Connecting")]
                         /\ own' = [own EXCEPT ![s] = o]
  BY DEF ConnectInsert
<1>2. /\ s \in Key /\ s \in Sock /\ o \in Obj /\ ~Used(o)
      /\ conn \in [Obj -> ConnRec] /\ DOMAIN connections = Key /\ DOMAIN own = Sock
      /\ pc \in [Sock -> SockSteps]
  BY DEF Key, Sock, Fresh, Used, ConnectInv, IInv, ObjectsTyped, TablesTyped, WorkInv,
         CallsTyped
<1>3. own'[s] = o /\ connections'[s] = o /\ pc'[s] = "request"
  BY <1>1, <1>2 DEF ConnectInsert, Goto
<1>4. conn'[o].phase = "Connecting"
  BY <1>1, <1>2 DEF NewConn
<1>5. New(s)
  <2> SUFFICES ASSUME NEW x \in Obj, Used(x), conn[x].key = s PROVE FALSE
    BY DEF New
  <2>1. x # o /\ conn'[x] = conn[x]
    BY <1>1, <1>2
  <2>2. FirstAttempt(s)'
    BY DEF Waits
  <2> QED
    BY <1>3, <2>1, <2>2 DEF FirstAttempt, Used
<1>6. peer[s] = "idle" /\ \A p \in Members(inbound) : p.key # s
  BY <1>5 DEF ConnectInv, PeerInv, SilentUntilAsked
<1>7. UNCHANGED <<peer, inbound>>
  BY DEF ConnectInsert, txVars, envVars
<1>8. Answered(s)'
  BY <1>6, <1>7 DEF Answered, Members
<1> QED
  BY <1>3, <1>4, <1>8 DEF Awaits

\* The connection of a socket that waits is Connecting under its ConnId, and its own.
LEMMA WaitOwns ==
    ASSUME ConnectInv, NEW s \in Active, Waits(s)
    PROVE  /\ s \in Key /\ s \in Sock /\ s \notin PassiveKey
           /\ own[s] \in Obj /\ Used(own[s]) /\ conn[own[s]].key = s
           /\ Awaits(s) /\ own[s] # None
           /\ \A t \in Sock : t # s /\ Busy(t) => /\ own[t] # own[s] /\ own[t] \in Obj
                                                  /\ conn[own[t]].key # s
<1>1. s \in Key /\ s \in Sock /\ s \notin PassiveKey
  BY SpaceAssumption DEF Key, Sock
<1>2. Valid(own[s], {s})
  BY <1>1 DEF Waits, WaitSteps, ConnectInv, WorkInv, OwnsItsKey, Busy, AtRest, KeysOf
<1>3. ASSUME NEW t \in Sock, t # s, Busy(t)
      PROVE  /\ own[t] # own[s] /\ own[t] \in Obj /\ conn[own[t]].key # s
  <2>1. Valid(own[t], KeysOf(t)) /\ s \notin KeysOf(t)
    BY <1>1, <1>3 DEF ConnectInv, WorkInv, OwnsItsKey, KeysOf
  <2> QED
    BY <1>2, <2>1 DEF Valid
<1>4. Awaits(s)
  BY DEF ConnectInv, WaitInv
<1> QED
  BY <1>1, <1>2, <1>3, <1>4, SpaceAssumption DEF Valid

LEMMA WaitConn ==
    ASSUME ConnectInv, Next, NEW s \in Active, Waits(s), Waits(s)', own'[s] = own[s]
    PROVE  /\ conn'[own[s]].phase = "Connecting" /\ conn'[own[s]].key = s
           /\ conn'[own[s]].ticking \/ SameTimer(own[s]) \/ TimerFires(own[s])
           /\ ConnectArm(s) => conn'[own[s]].ticking
<1> DEFINE o == own[s]
<1>1. /\ s \in Sock /\ o \in Obj /\ Used(o) /\ conn[o].key = s /\ conn[o].phase = "Connecting"
      /\ ~conn'[o].ready /\ pc'[s] \in WaitSteps /\ IInv /\ WorkInv /\ ObjectsTyped
  BY WaitOwns DEF Waits, Awaits, ConnectInv, IInv
<1>2. conn'[o].key = s
  BY <1>1, NextWork DEF Kept
<1>3. ASSUME SameTimer(o)
      PROVE  conn'[o].phase = "Connecting"
  BY <1>1, <1>3 DEF SameTimer
<1>4. ASSUME ConnectArm(s)
      PROVE  conn'[o].phase = "Connecting" /\ conn'[o].ticking
  <2>1. conn' = Armed(o)
    BY <1>4 DEF ConnectArm, ArmTimer
  <2> QED
    BY <1>1, <2>1, ArmedAt
<1>5. ASSUME NEW t \in Sock, SockStep(t)
      PROVE  SameTimer(o) \/ ConnectArm(s)
  <2>1. CASE conn'[o] = conn[o]
    BY <2>1 DEF SameTimer
  <2>2. CASE own[t] = o /\ Busy(t)
    <3>1. t = s
      BY <2>2, WaitOwns
    <3>2. ConnectRequest(s) \/ ConnectArm(s) \/ ConnectInsert(s)
      BY <1>1, <1>5, <3>1, SockFrame
    <3>3. ConnectRequest(s) => conn' = conn
      BY DEF ConnectRequest
    <3>4. ~ConnectInsert(s)
      BY DEF ConnectInsert, Waits, WaitSteps
    <3> QED
      BY <3>2, <3>3, <3>4 DEF SameTimer
  <2> QED
    BY <1>1, <1>5, <2>1, <2>2, SockObj
<1>6. ASSUME RxStep
      PROVE  SameTimer(o)
  <2>1. ASSUME RxShutdown, connections[Head(inbound).key] = o
        PROVE  FALSE
    <3>1. inbound \in Seq(Packet) /\ inbound # <<>> /\ Head(inbound).op = "shutdown"
      BY <1>1, <2>1, Zenon DEF ObjectsTyped, RxShutdown, RxTakes
    <3>2. 1 \in DOMAIN inbound /\ Head(inbound) = inbound[1]
      BY <3>1, HeadTailProperties, LenProperties, EmptySeq
    <3>3. inbound[1].key = s
      <4>1. Head(inbound) \in Packet
        BY <3>1, MembersOf
      <4>2. inbound[1].key \in Key
        BY <3>2, <4>1 DEF Packet
      <4> QED
        BY <1>1, <2>1, <3>2, <4>2 DEF IInv, Placed
    <3>4. connections[s] = o
      BY <2>1, <3>2, <3>3
    <3>5. Answered(s)
      BY <3>4, WaitOwns DEF Awaits
    <3> QED
      BY <3>1, <3>2, <3>3, <3>5 DEF Answered
  <2> QED
    BY <1>1, <1>6, <2>1, RxObj
<1>7. CASE \/ TimerStep \/ ListenerDrop \/ DrainedReset \/ TransportReset \/ EventReset
           \/ TxDrain \/ TxApply \/ \E x \in Obj : TimerFires(x)
           \/ \E k \in Key : PeerStep(k)
  <2>1. \/ SameTimer(o) \/ TimerFires(o)
        \/ conn'[o].phase = conn[o].phase /\ conn'[o].ticking
    BY <1>1, <1>7, OtherObj
  <2>2. TimerFires(o) => conn'[o].phase = "Connecting"
    BY <1>1 DEF TimerFires, ObjectsTyped, ConnRec
  <2>3. ~ConnectArm(s) \/ conn'[o].ticking
    BY <1>4
  <2> HIDE DEF o
  <2> QED
    BY <1>1, <1>2, <1>3, <2>1, <2>2, <2>3 DEF o
<1> HIDE DEF o
<1>8. CASE \E t \in Sock : SockStep(t)
  BY <1>2, <1>3, <1>4, <1>5, <1>8 DEF o
<1>9. CASE RxStep
  BY <1>2, <1>3, <1>4, <1>6, <1>9 DEF o
<1> QED
  BY <1>7, <1>8, <1>9 DEF Next, o

\* It leaves the tables only into the hands of a bottom half that will reset it.
LEMMA WaitTabled ==
    ASSUME ConnectInv, Next, NEW s \in Active, NEW o, o = own[s], Waits(s), connections[s] = o
    PROVE  \/ connections'[s] = o \/ Taken(o)'
           \/ conn'[o].ready \/ pc'[s] \notin WaitSteps
<1>1. /\ s \in Key /\ s \in Sock /\ s \notin PassiveKey
      /\ o \in Obj /\ Used(o) /\ conn[o].key = s /\ conn[o].phase = "Connecting"
      /\ IInv /\ WorkInv /\ ObjectsTyped /\ o # None
      /\ connections \in [Key -> Obj \cup {None}] /\ closing \in [Key -> Seq(Obj)]
  BY WaitOwns DEF Waits, Awaits, ConnectInv, IInv, TablesTyped
<1>2. \A k : k # s => WithoutActive(k)[s] = o
  BY <1>1 DEF WithoutActive
<1>3. ASSUME NEW t \in Sock, SockStep(t), pc'[s] \in WaitSteps
      PROVE  connections'[s] = o
  <2>1. CASE t = s
    <3>1. ConnectRequest(s) \/ ConnectArm(s) \/ ConnectInsert(s)
      BY <1>1, <1>3, <2>1, SockFrame
    <3>2. ~ConnectInsert(s)
      BY DEF ConnectInsert, Waits, WaitSteps
    <3> QED
      BY <1>1, <3>1, <3>2 DEF ConnectRequest, ConnectArm, ArmTimer, tables
  <2>2. CASE t # s
    <3> USE DEF Busy, AtRest
    <3>1. CASE ConnectInsert(t)
      <4>1. \E x : connections' = [connections EXCEPT ![t] = x]
        BY <3>1 DEF ConnectInsert
      <4> QED
        BY <1>1, <2>2, <4>1
    <3>2. CASE \/ ConnectRequest(t) \/ ConnectUnwrap(t) \/ DropDecide(t) \/ SendShutdown(t)
               \/ SendRst(t) \/ Release(t) \/ Accept(t) \/ Recv(t) \/ ConnectArm(t)
               \/ CloseArm(t) \/ ConnectFinish(t) \/ DropBegin(t) \/ DropShut(t)
               \/ \E dirs \in SUBSET Both : Shutdown(t, dirs)
      <4>1. UNCHANGED tables
        BY <3>2, Zenon DEF ConnectRequest, ConnectUnwrap, DropDecide, SendShutdown, SendRst,
           Release, Accept, Recv, ConnectArm, CloseArm, ConnectFinish, DropBegin, DropShut,
           Shutdown, ArmTimer
      <4> QED
        BY <1>1, <4>1 DEF tables
    <3>3. CASE ConnectUndo(t)
      <4>1. connections' = WithoutActive(t)
        BY <3>3 DEF ConnectUndo
      <4> QED
        BY <1>2, <2>2, <4>1
    <3>4. CASE DropTable(t) \/ Unlist(t)
      <4>1. conn[own[t]].key # s
        BY <2>2, <3>4, WaitOwns DEF DropTable, Unlist
      <4>2. \/ UNCHANGED connections \/ connections' = WithoutActive(conn[own[t]].key)
        BY <3>4 DEF DropTable, Unlist, RemoveInstance, MoveToClosing, tables
      <4> QED
        BY <1>1, <1>2, <4>1, <4>2
    <3> QED
      BY <1>3, <3>1, <3>2, <3>3, <3>4 DEF SockStep, CallStep
  <2> QED
    BY <2>1, <2>2
<1>4. CASE RxStep
  <2> DEFINE k == Head(inbound).key
  <2>1. CASE RxRequest \/ RxPush \/ RxRespond \/ RxOnRst \/ RxRelease \/ RxSendRst \/ RxResponse
    <3>1. UNCHANGED tables
      BY <2>1, Zenon DEF RxRequest, RxPush, RxRespond, RxOnRst, RxRelease, RxSendRst, RxResponse
    <3> QED
      BY <1>1, <3>1 DEF tables
  <2>2. CASE RxInsert
    BY <1>1, <2>2 DEF RxInsert
  <2>3. CASE RxUndo \/ RxUnlist
    <3>1. /\ rx.key \in PassiveKey /\ conn[rx.obj].key \in PassiveKey
          /\ \E x \in PassiveKey : connections' = WithoutActive(x)
      BY <1>1, <2>3 DEF RxUndo, RxUnlist, RxAt, RemoveInstance, WorkInv, AcceptsPassive, Valid
    <3> QED
      BY <1>1, <1>2, <3>1
  <2>4. CASE RxRst
    <3>1. CASE k = s
      <4>1. rx' = [at |-> "onRst", key |-> s, obj |-> o, rst |-> FALSE]
        BY <1>1, <2>4, <3>1 DEF RxRst, RxGoes
      <4> QED
        BY <4>1 DEF Taken
    <3>2. CASE k # s
      BY <1>2, <2>4, <3>2 DEF RxRst
    <3> QED
      BY <3>1, <3>2
  <2>5. CASE RxData
    <3>1. CASE k = s
      <4>1. UNCHANGED connections \/ RxGoes("onRst", s, o, TRUE)
        BY <1>1, <2>5, <3>1 DEF RxData
      <4>2. RxGoes("onRst", s, o, TRUE) => Taken(o)'
        BY DEF RxGoes, Taken
      <4> QED
        BY <1>1, <4>1, <4>2
    <3>2. CASE k # s
      <4>1. UNCHANGED connections \/ connections' = WithoutActive(k)
        BY <2>5 DEF RxData
      <4> QED
        BY <1>1, <1>2, <3>2, <4>1
    <3> QED
      BY <3>1, <3>2
  <2>6. CASE RxShutdown
    <3>1. k # s
      <4> SUFFICES ASSUME k = s PROVE FALSE
        OBVIOUS
      <4>1. inbound \in Seq(Packet) /\ inbound # <<>> /\ Head(inbound).op = "shutdown"
        BY <1>1, <2>6, Zenon DEF ObjectsTyped, RxShutdown, RxTakes
      <4>2. 1 \in DOMAIN inbound /\ Head(inbound) = inbound[1]
        BY <4>1, HeadTailProperties, LenProperties, EmptySeq
      <4>3. Answered(s)
        BY WaitOwns DEF Awaits
      <4> QED
        BY <4>1, <4>2, <4>3 DEF Answered
    <3>2. UNCHANGED connections \/ connections' = WithoutActive(k)
      <4>1. \/ UNCHANGED tables
            \/ connections' = IF conn[connections[k]].peer \cup Head(inbound).flags = Both
                              THEN WithoutActive(k) ELSE connections
        BY <2>6, Zenon DEF RxShutdown
      <4> QED
        BY <4>1 DEF tables
    <3> QED
      BY <1>1, <1>2, <3>1, <3>2
  <2> QED
    BY <1>4, <2>1, <2>2, <2>3, <2>4, <2>5, <2>6 DEF RxStep
<1>5. CASE TimerStep
  <2>1. CASE TimerActive
    <3> DEFINE k == Head(timerEvents).key
               x == connections[k]
    <3>1. \/ UNCHANGED connections
          \/ connections' = WithoutActive(k) /\ conn' = TimedOut(x)
      BY <2>1 DEF TimerActive
    <3>2. k = s => x = o
      OBVIOUS
    <3> HIDE DEF x
    <3> QED
      BY <1>1, <1>2, <3>1, <3>2, TimedOutAt
  <2>2. CASE TimerClosing \/ TimerDrop \/ TimerSendRst
    <3>1. UNCHANGED connections
      BY <2>2 DEF TimerClosing, TimerDrop, TimerSendRst, PutBack, tables
    <3> QED
      BY <1>1, <3>1
  <2> QED
    BY <1>5, <2>1, <2>2 DEF TimerStep
<1>6. CASE ListenerDrop
  <2>1. \A x \in Members(backlog) : conn[x].key # s
    BY <1>1 DEF WorkInv, AcceptsPassive, Valid
  <2>2. connections' = [k \in Key |-> IF \E x \in Members(backlog) : conn[x].key = k
                                      THEN None ELSE connections[k]]
    BY <1>6 DEF ListenerDrop
  <2> QED
    BY <1>1, <2>1, <2>2
<1>7. CASE TransportReset
  <2>1. Tabled(o)
    BY <1>1 DEF Tabled
  <2>2. event' = [held |-> {x \in Obj : Tabled(x)}, current |-> None]
    BY <1>7 DEF TransportReset, Resetting
  <2>3. o \in event'.held /\ event'.current # o
    BY <1>1, <2>1, <2>2
  <2> QED
    BY <2>3 DEF Taken
<1>8. CASE \/ DrainedReset \/ EventReset \/ TxDrain \/ TxApply \/ (\E x \in Obj : TimerFires(x))
           \/ \E k \in Key : PeerStep(k)
  <2>1. UNCHANGED tables
    BY <1>8, Zenon DEF DrainedReset, EventReset, TxDrain, TxApply, TimerFires, PeerStep,
       PeerRequest, PeerResponse, PeerRst, PeerData, PeerShutdown, PeerSends
  <2> QED
    BY <1>1, <2>1 DEF tables
<1> QED
  BY <1>3, <1>4, <1>5, <1>6, <1>7, <1>8 DEF Next

\* Who touches the batch of the event taskless, the timer events and the packets of the
\* software queue.
LEMMA EventSteps ==
    ASSUME IInv, WorkInv, Next
    PROVE  event' = event \/ EventReset \/ TransportReset
<1>1. CASE \E t \in Sock : SockStep(t)
  BY <1>1, NextWork, SocketQueues
<1>2. CASE RxStep
  BY <1>2, RxSends
<1>3. CASE TimerStep
  BY <1>3, NextWork, TimerWork
<1>4. CASE \/ ListenerDrop \/ DrainedReset \/ TxDrain \/ TxApply
           \/ \E x \in Obj : TimerFires(x)
           \/ \E k \in Key : PeerStep(k)
  BY <1>4 DEF ListenerDrop, DrainedReset, TxDrain, TxApply, TimerFires, PeerStep, PeerRequest,
              PeerResponse, PeerRst, PeerData, PeerShutdown, PeerSends
<1> QED
  BY <1>1, <1>2, <1>3, <1>4 DEF Next

LEMMA TimerQueueSteps ==
    ASSUME IInv, WorkInv, Next
    PROVE  timerEvents' = timerEvents \/ TimerActive \/ \E x \in Obj : TimerFires(x)
<1>1. CASE \E t \in Sock : SockStep(t)
  BY <1>1, NextWork, SocketQueues
<1>2. CASE RxStep
  BY <1>2, RxSends
<1>3. CASE TimerStep
  BY <1>3 DEF TimerStep, TimerClosing, TimerDrop, TimerSendRst
<1>4. CASE \/ ListenerDrop \/ DrainedReset \/ TransportReset \/ EventReset \/ TxDrain \/ TxApply
           \/ \E k \in Key : PeerStep(k)
  BY <1>4 DEF ListenerDrop, DrainedReset, TransportReset, EventReset, TxDrain, TxApply,
              PeerStep, PeerRequest, PeerResponse, PeerRst, PeerData, PeerShutdown, PeerSends,
              timerVars
<1> QED
  BY <1>1, <1>2, <1>3, <1>4 DEF Next

LEMMA TxQueueSteps ==
    ASSUME IInv, WorkInv, Next
    PROVE  \/ TxDrain \/ TxApply
           \/ txDone' = txDone /\ Members(txPending) \subseteq Members(txPending')
<1>1. CASE UNCHANGED <<txDone, txPending>>
  BY <1>1
<1>2. CASE \E op \in Ops : \E k \in Key \cup {None} : \E act \in Acts : Sends(op, k, act)
  BY <1>2, SendEffect DEF WorkInv
<1>3. CASE \E t \in Sock : SockStep(t)
  <2>1. PICK t \in Sock : SockSends(t)
    BY <1>3, SocketSends
  <2> QED
    BY <1>1, <1>2, <2>1 DEF SockSends, Sends, Ops, Acts, Key, txVars
<1>4. CASE RxStep
  <2>1. \/ UNCHANGED txVars
        \/ rx.key \in Key /\ \E op \in {"response", "rst"} : Sends(op, rx.key, "mark")
    BY <1>4, RxSends
  <2> QED
    BY <1>1, <1>2, <2>1 DEF Ops, Acts, txVars
<1>5. CASE TimerStep
  <2>1. \/ UNCHANGED txVars
        \/ timer.key \in Key \cup {None} /\ Sends("rst", timer.key, "mark")
    BY <1>5, NextWork, TimerWork
  <2> QED
    BY <1>1, <1>2, <2>1 DEF Ops, Acts, txVars
<1>6. CASE \/ ListenerDrop \/ DrainedReset \/ TransportReset \/ EventReset
           \/ \E x \in Obj : TimerFires(x)
           \/ \E k \in Key : PeerStep(k)
  <2>1. UNCHANGED <<txDone, txPending>>
    BY <1>6 DEF ListenerDrop, DrainedReset, TransportReset, EventReset, TimerFires, PeerStep,
                PeerRequest, PeerResponse, PeerRst, PeerData, PeerShutdown, PeerSends, txVars
  <2> QED
    BY <1>1, <2>1
<1> QED
  BY <1>3, <1>4, <1>5, <1>6 DEF Next

LEMMA NextEvent ==
    ASSUME IInv, WorkInv, EventTyped, Next
    PROVE  EventTyped'
<1>1. CASE EventReset
  BY <1>1 DEF EventReset, AfterReset, Resetting, EventTyped
<1>2. CASE TransportReset
  BY <1>2 DEF TransportReset, Resetting, EventTyped
<1> QED
  BY <1>1, <1>2, EventSteps DEF EventTyped

\* What a bottom half has taken it resets.
LEMMA WaitTaken ==
    ASSUME ConnectInv, Next, NEW o \in Obj, Taken(o)
    PROVE  Taken(o)' \/ conn'[o].ready
<1>0. IInv /\ WorkInv /\ ObjectsTyped /\ EventTyped
  BY DEF ConnectInv, IInv
<1>1. CASE rx.at = "onRst" /\ rx.obj = o
  <2>1. CASE RxStep
    <3>1. RxOnRst
      BY <1>1, <2>1, Zenon DEF RxStep, RxRequest, RxInsert, RxPush, RxUndo, RxRespond, RxUnlist,
         RxRelease, RxSendRst, RxResponse, RxRst, RxShutdown, RxData, RxTakes, RxAt
    <3>2. conn' = WithRst(o)
      BY <1>1, <3>1 DEF RxOnRst
    <3> QED
      BY <1>0, <3>2, WithRstAt
  <2>2. CASE ~RxStep
    <3>1. rx' = rx
      BY <1>0, <2>2, NextWork, SocketQueues, TimerWork, OtherWork DEF Next
    <3> QED
      BY <1>1, <3>1 DEF Taken
  <2> QED
    BY <2>1, <2>2
<1>2. CASE o \in event.held /\ event.current # o
  <2>1. CASE EventReset
    <3>1. CASE \E x \in event.held : conn' = WithRst(x) /\ event' = [event EXCEPT !.current = x]
      <4>1. PICK x \in event.held : conn' = WithRst(x) /\ event' = [event EXCEPT !.current = x]
        BY <3>1
      <4>2. event'.held = event.held /\ event'.current = x
        BY <1>0, <4>1 DEF EventTyped
      <4>3. CASE x = o
        BY <1>0, <4>1, <4>3, WithRstAt
      <4>4. CASE x # o
        BY <1>2, <4>2, <4>4 DEF Taken
      <4> QED
        BY <4>3, <4>4
    <3>2. CASE event.current # None /\ event' = Resetting(event.held \ {event.current})
      <4>1. event'.held = event.held \ {event.current} /\ event'.current = None
        BY <3>2 DEF Resetting
      <4> QED
        BY <1>2, <4>1, SpaceAssumption DEF Taken
    <3> QED
      BY <2>1, <3>1, <3>2 DEF EventReset, AfterReset
  <2>2. CASE event' = event
    BY <1>2, <2>2 DEF Taken
  <2>3. ~TransportReset
    BY <1>2 DEF TransportReset
  <2> QED
    BY <1>0, <2>1, <2>2, <2>3, EventSteps
<1> QED
  BY <1>1, <1>2 DEF Taken

\* Nobody puts it there but connect().
LEMMA KeepsPlace ==
    ASSUME ConnectInv, Next, NEW s \in Active, NEW o \in Obj, Used(o), conn[o].key = s,
           connections'[s] = o
    PROVE  connections[s] = o
<1>1. IInv /\ Shape /\ s \in Key /\ s \notin PassiveKey
  BY NextShape, SpaceAssumption DEF ConnectInv, Key
<1>2. \/ connections[s] = o \/ ~Used(o)
      \/ rx.at = "insert" /\ o = rx.obj
  BY <1>1, ShapeTables
<1>3. rx.at = "insert" => conn[rx.obj].key \in PassiveKey
  BY DEF ConnectInv, WorkInv, AcceptsPassive, Valid
<1> QED
  BY <1>1, <1>2, <1>3

\* A packet more at the end of the queue, or the first one gone.
LEMMA QueueGrows ==
    ASSUME NEW q \in Seq(Packet), NEW p \in Packet, NEW r, r = Append(q, p)
    PROVE  /\ Len(q) \in Nat /\ DOMAIN q = 1..Len(q) /\ DOMAIN r = 1..(Len(q) + 1)
           /\ \A i \in 1..Len(q) : r[i] = q[i]
           /\ r[Len(q) + 1] = p
BY AppendProperties, LenProperties

LEMMA QueueMoves ==
    ASSUME NEW q \in Seq(Packet), q # <<>>, NEW r, r = Tail(q)
    PROVE  /\ Len(q) \in Nat /\ Len(q) >= 1 /\ DOMAIN q = 1..Len(q) /\ DOMAIN r = 1..(Len(q) - 1)
           /\ \A i \in 1..(Len(q) - 1) : r[i] = q[i + 1]
           /\ Head(q) = q[1]
<1>1. Len(q) \in Nat /\ Len(q) >= 1 /\ DOMAIN q = 1..Len(q)
  BY LenProperties, EmptySeq
<1>2. /\ Head(q) = q[1] /\ r \in Seq(Packet)
      /\ Len(r) = Len(q) - 1 /\ \A i \in 1..Len(r) : r[i] = q[i + 1]
  BY <1>1, HeadTailProperties
<1> QED
  BY <1>1, <1>2, LenProperties

\* The answer stays ahead, until the RX taskless takes it.
LEMMA WaitAnswered ==
    ASSUME ConnectInv, Next, NEW s \in Active, NEW o, o = own[s], Waits(s),
           connections[s] = o, connections'[s] = o, ~conn'[o].ready
    PROVE  Answered(s)'
<1>1. /\ IInv /\ WorkInv /\ ObjectsTyped /\ inbound \in Seq(Packet) /\ peer[s] # "asking"
      /\ s \in Key /\ o \in Obj /\ o # None /\ Answered(s)
      /\ connections \in [Key -> Obj \cup {None}]
  BY WaitOwns DEF ConnectInv, IInv, ObjectsTyped, TablesTyped, PeerInv, NeverAsking, Awaits
<1>2. CASE inbound' = inbound /\ ~\E k \in Key : PeerStep(k)
  <2>1. peer'[s] \in {peer[s], "asked", "idle"}
    BY <1>1, <1>2, GuestSteps DEF Next, GuestStep
  <2> QED
    BY <1>1, <1>2, <2>1 DEF Answered
<1>3. CASE rx.at = "idle" /\ inbound # <<>> /\ inbound' = Tail(inbound) /\ RxStep
  <2>1. peer'[s] \in {peer[s], "asked", "idle"}
    BY <1>1, <1>3, GuestSteps DEF GuestStep
  <2>2. ~Answers(Head(inbound), s)
    <3>1. \/ RxResponse \/ RxRst \/ Head(inbound).op \in {"request", "shutdown", "rw"}
      BY <1>3, Zenon DEF RxStep, RxRequest, RxInsert, RxPush, RxUndo, RxRespond, RxUnlist,
         RxOnRst, RxRelease, RxSendRst, RxShutdown, RxData, RxTakes, RxAt
    <3>2. ASSUME RxResponse, Head(inbound).key = s PROVE FALSE
      <4>1. conn' = [conn EXCEPT ![o].gen = 0, ![o].ticking = FALSE,
                                 ![o].phase = "Connected", ![o].ready = TRUE]
        BY <1>1, <3>2, Zenon DEF RxResponse
      <4> QED
        BY <1>1, <4>1 DEF ObjectsTyped, ConnRec
    <3>3. ASSUME RxRst, Head(inbound).key = s PROVE FALSE
      BY <1>1, <3>3 DEF RxRst, WithoutActive
    <3> QED
      BY <3>1, <3>2, <3>3 DEF Answers
  <2>3. /\ Len(inbound) \in Nat /\ Len(inbound) >= 1
        /\ DOMAIN inbound = 1..Len(inbound) /\ DOMAIN inbound' = 1..(Len(inbound) - 1)
        /\ \A i \in 1..(Len(inbound) - 1) : inbound'[i] = inbound[i + 1]
        /\ Head(inbound) = inbound[1]
    BY <1>1, <1>3, QueueMoves
  <2>4. ASSUME NEW n \in 0..Len(inbound), NEW j \in 1..n, Answers(inbound[j], s)
        PROVE  \E i \in 1..(n - 1) : Answers(inbound'[i], s)
    <3>1. j # 1
      BY <2>2, <2>3, <2>4
    <3>2. j - 1 \in 1..(n - 1) /\ inbound'[j - 1] = inbound[j]
      BY <2>3, <3>1
    <3> QED
      BY <2>4, <3>2
  <2>5. ASSUME NEW i \in 1..(Len(inbound) - 1), inbound'[i].op = "shutdown", inbound'[i].key = s
        PROVE  \E j \in 1..(i - 1) : Answers(inbound'[j], s)
    <3>1. i + 1 \in DOMAIN inbound /\ inbound'[i] = inbound[i + 1] /\ (i + 1) - 1 = i
      BY <2>3
    <3>2. \E j \in 1..i : Answers(inbound[j], s)
      BY <1>1, <2>5, <3>1 DEF Answered
    <3>3. i \in 0..Len(inbound)
      BY <2>3
    <3> QED
      BY <2>4, <3>2, <3>3
  <2>6. ASSUME peer'[s] \in {"open", "shut"}
        PROVE  \E j \in DOMAIN inbound' : Answers(inbound'[j], s)
    <3>1. \E j \in 1..Len(inbound) : Answers(inbound[j], s)
      BY <1>1, <2>1, <2>3, <2>6 DEF Answered
    <3>2. Len(inbound) \in 0..Len(inbound)
      BY <2>3
    <3> QED
      BY <2>3, <2>4, <3>1, <3>2
  <2> QED
    BY <2>3, <2>5, <2>6 DEF Answered
<1>4. CASE \E k \in Key : PeerStep(k)
  <2>1. PICK k \in Key : PeerStep(k)
    BY <1>4
  <2> DEFINE n == Len(inbound)
  <2>2. ASSUME NEW p \in Packet, inbound' = Append(inbound, p),
               p.op = "shutdown" /\ p.key = s => \E j \in DOMAIN inbound : Answers(inbound[j], s),
               peer'[s] \in {"open", "shut"} =>
                  Answers(p, s) \/ \E j \in DOMAIN inbound : Answers(inbound[j], s)
        PROVE  Answered(s)'
    <3>1. /\ n \in Nat /\ DOMAIN inbound = 1..n /\ DOMAIN inbound' = 1..(n + 1)
          /\ \A i \in 1..n : inbound'[i] = inbound[i]
          /\ inbound'[n + 1] = p
      BY <1>1, <2>2, QueueGrows
    <3> HIDE DEF n
    <3>2. ASSUME NEW i \in 1..(n + 1), inbound'[i].op = "shutdown", inbound'[i].key = s
          PROVE  \E j \in 1..(i - 1) : Answers(inbound'[j], s)
      <4>1. CASE i = n + 1
        <5>1. PICK j \in 1..n : Answers(inbound[j], s)
          BY <2>2, <3>1, <3>2, <4>1
        <5> QED
          BY <3>1, <4>1, <5>1
      <4>2. CASE i \in 1..n
        <5>1. PICK j \in 1..(i - 1) : Answers(inbound[j], s)
          BY <1>1, <3>1, <3>2, <4>2 DEF Answered
        <5>2. j \in 1..n
          BY <3>1, <4>2
        <5> QED
          BY <3>1, <5>1, <5>2
      <4> QED
        BY <3>1, <4>1, <4>2
    <3>3. ASSUME peer'[s] \in {"open", "shut"}
          PROVE  \E j \in 1..(n + 1) : Answers(inbound'[j], s)
      <4>1. CASE Answers(p, s)
        BY <3>1, <4>1
      <4>2. CASE \E j \in 1..n : Answers(inbound[j], s)
        <5>1. PICK j \in 1..n : Answers(inbound[j], s)
          BY <4>2
        <5> QED
          BY <3>1, <5>1
      <4> QED
        BY <2>2, <3>1, <3>3, <4>1, <4>2
    <3> QED
      BY <3>1, <3>2, <3>3 DEF Answered
  <2>3. CASE k # s
    <3>1. PICK p \in Packet : p.key = k /\ inbound' = Append(inbound, p)
      BY <1>1, <2>1, <2>3, PeerSteps
    <3>2. peer'[s] = peer[s]
      BY <1>1, <2>1, <2>3, PeerSteps
    <3> QED
      BY <1>1, <2>2, <2>3, <3>1, <3>2 DEF Answered
  <2>4. CASE k = s
    <3>1. PICK op \in {"response", "rst", "rw", "shutdown"} :
             \E next : PeerSent(s, op, next) /\ (op \in {"rw", "shutdown"} => peer[s] = "open")
      BY <1>1, <2>1, <2>4, PeerSteps
    <3>2. PICK flags \in SUBSET Both :
             inbound' = Append(inbound, [op |-> op, key |-> s, flags |-> flags])
      BY <3>1 DEF PeerSent
    <3>3. PICK p \in Packet : p = [op |-> op, key |-> s, flags |-> flags]
      BY <1>1 DEF Packet
    <3>4. p.op = op /\ p.key = s /\ inbound' = Append(inbound, p)
      BY <3>2, <3>3
    <3>5. op \in {"rw", "shutdown"} => \E j \in DOMAIN inbound : Answers(inbound[j], s)
      BY <1>1, <3>1 DEF Answered
    <3>6. op \notin {"rw", "shutdown"} => Answers(p, s)
      BY <3>4 DEF Answers
    <3> QED
      BY <2>2, <3>4, <3>5, <3>6
  <2> QED
    BY <2>3, <2>4
<1> QED
  BY <1>1, <1>2, <1>3, <1>4, InboundSteps

\* What ends the wait is not lost before it ends it.
LEMMA WaitEnds ==
    ASSUME ConnectInv, Next, NEW s \in Active, NEW o, o = own[s], own'[s] = o,
           Waits(s), Waits(s)', connections[s] = o, pc'[s] = "connecting",
           pc'[s] = pc[s] \/ ConnectRequest(s) \/ ConnectArm(s)
    PROVE  EndComes(s)'
<1>1. /\ IInv /\ WorkInv /\ ObjectsTyped /\ s \in Key /\ s \in Sock /\ o \in Obj /\ o # None
      /\ Used(o) /\ conn[o].key = s /\ conn[o].phase = "Connecting" /\ Awaits(s)
      /\ ~conn'[o].ready /\ conn'[o].key = s
      /\ conn'[o].ticking \/ SameTimer(o) \/ TimerFires(o)
      /\ ConnectArm(s) => conn'[o].ticking
  BY WaitOwns, WaitConn DEF Waits, Awaits, ConnectInv, IInv
<1>2. /\ timerEvents \in Seq(TimerEvent) /\ txPending \in Seq(Control) /\ txDone \in Seq(Control)
      /\ pc \in [Sock -> SockSteps]
  BY <1>1 DEF WorkInv, QueuesTyped, CallsTyped
<1>3. CASE conn'[o].ticking
  BY <1>3 DEF EndComes
<1>4. CASE ConnectRequest(s)
  <2>1. txPending' = Append(txPending, [op |-> "request", key |-> s, act |-> "arm"])
    BY <1>1, <1>2, <1>4 DEF ConnectRequest, Goto, SendQueued
  <2>2. PICK c \in Control : c = [op |-> "request", key |-> s, act |-> "arm"]
    BY <1>1 DEF Control, Ops, Acts
  <2>3. c \in Members(txPending')
    BY <1>2, <2>1, <2>2, MembersOf
  <2> QED
    BY <2>2, <2>3 DEF EndComes, DeferredArm
<1>5. CASE TimerFires(o)
  <2>1. conn'[o].gen = conn[o].gen
    BY <1>1, <1>5 DEF TimerFires, ObjectsTyped, ConnRec
  <2>2. PICK e \in TimerEvent : e = [key |-> conn[o].key, gen |-> conn[o].gen]
    BY <1>1 DEF TimerEvent, ObjectsTyped, ConnRec
  <2>3. timerEvents' = Append(timerEvents, e)
    BY <1>5, <2>2 DEF TimerFires
  <2>4. e \in Members(timerEvents')
    BY <1>2, <2>3, MembersOf
  <2> QED
    BY <1>1, <2>1, <2>2, <2>4 DEF EndComes, ExpiryQueued
<1>6. CASE SameTimer(o) /\ pc[s] = "connecting" /\ ~conn'[o].ticking
  <2>1. conn'[o].gen = conn[o].gen /\ ~conn[o].ticking
    BY <1>6 DEF SameTimer
  <2>2. ExpiryQueued(o) \/ DeferredArm(s)
    BY <1>1, <1>6, <2>1 DEF Awaits, EndComes
  <2>3. CASE ExpiryQueued(o)
    <3> DEFINE e == [key |-> s, gen |-> conn[o].gen]
    <3>1. e \in Members(timerEvents)
      BY <1>1, <2>3 DEF ExpiryQueued
    <3>2. e \in Members(timerEvents')
      <4> HIDE DEF e
      <4>1. CASE TimerActive
        <5>1. timerEvents # <<>> /\ timerEvents' = Tail(timerEvents)
          BY <4>1 DEF TimerActive
        <5>2. Head(timerEvents) # e
          <6> SUFFICES ASSUME Head(timerEvents) = e PROVE FALSE
            OBVIOUS
          <6>1. conn' = TimedOut(o)
            BY <1>1, <4>1 DEF TimerActive, e
          <6> QED
            BY <1>1, <6>1, TimedOutAt
        <5> QED
          BY <1>2, <3>1, <5>1, <5>2, MembersOf
      <4>2. CASE \E x \in Obj : TimerFires(x)
        <5>1. PICK x \in Obj :
                 timerEvents' = Append(timerEvents, [key |-> conn[x].key, gen |-> conn[x].gen])
          BY <4>2 DEF TimerFires
        <5>2. [key |-> conn[x].key, gen |-> conn[x].gen] \in TimerEvent
          BY <1>1 DEF TimerEvent, ObjectsTyped, ConnRec
        <5> QED
          BY <1>2, <3>1, <5>1, <5>2, MembersOf
      <4>3. CASE timerEvents' = timerEvents
        BY <3>1, <4>3
      <4> QED
        BY <1>1, <4>1, <4>2, <4>3, TimerQueueSteps
    <3> QED
      BY <1>1, <2>1, <3>2 DEF EndComes, ExpiryQueued
  <2>4. CASE DeferredArm(s)
    <3>1. PICK c \in Members(txPending) \cup Members(txDone) : c.key = s /\ c.act = "arm"
      BY <2>4 DEF DeferredArm
    <3>2. c \in Members(txPending') \cup Members(txDone')
      <4>1. CASE TxDrain
        <5>1. Members(txPending) = Members(txPending') \cup Members(txDone') /\ txDone = <<>>
          BY <1>1, <4>1, DrainEffect DEF WorkInv
        <5>2. Members(<<>>) = {}
          BY DEF Members
        <5> QED
          BY <3>1, <5>1, <5>2
      <4>2. CASE TxApply
        <5>1. txDone # <<>> /\ txDone' = Tail(txDone) /\ txPending' = txPending
          BY <4>2 DEF TxApply
        <5>2. Head(txDone) # c
          <6> SUFFICES ASSUME Head(txDone) = c PROVE FALSE
            OBVIOUS
          <6>1. conn' = Armed(o)
            BY <1>1, <3>1, <4>2 DEF TxApply
          <6> QED
            BY <1>1, <1>6, <6>1, ArmedAt
        <5> QED
          BY <1>2, <3>1, <5>1, <5>2, MembersOf
      <4>3. CASE txDone' = txDone /\ Members(txPending) \subseteq Members(txPending')
        BY <3>1, <4>3
      <4> QED
        BY <1>1, <4>1, <4>2, <4>3, TxQueueSteps
    <3> QED
      BY <3>1, <3>2 DEF EndComes, DeferredArm
  <2> QED
    BY <2>2, <2>3, <2>4
<1> QED
  BY <1>1, <1>3, <1>4, <1>5, <1>6

LEMMA NextWait ==
    ASSUME ConnectInv, Next
    PROVE  WaitInv'
<1> SUFFICES ASSUME NEW s \in Active, Waits(s)' PROVE Awaits(s)'
  BY DEF WaitInv
<1>0. IInv /\ WorkInv
  BY DEF ConnectInv
<1>1. CASE ConnectInsert(s)
  BY <1>1, WaitBegins
<1>2. CASE ~ConnectInsert(s)
  <2>1. /\ Waits(s) /\ own'[s] = own[s]
        /\ pc'[s] = pc[s] \/ ConnectRequest(s) \/ ConnectArm(s)
    BY <1>0, <1>2, WaitedBefore
  <2>2. PICK o \in Obj : o = own[s] /\ Used(o) /\ conn[o].key = s /\ Awaits(s)
    BY <2>1, WaitOwns
  <2>3. own'[s] = o /\ ~conn'[o].ready /\ pc'[s] \in WaitSteps
    BY <2>1, <2>2 DEF Waits
  <2>4. conn'[o].phase = "Connecting"
    BY <2>1, <2>2, WaitConn
  <2>5. connections'[s] = o \/ Taken(o)'
    <3>1. connections[s] = o \/ Taken(o)
      BY <2>2 DEF Awaits
    <3> QED
      BY <2>1, <2>2, <2>3, <3>1, WaitTabled, WaitTaken
  <2>6. connections'[s] = o => connections[s] = o
    BY <2>2, KeepsPlace
  <2>7. connections'[s] = o => Answered(s)'
    BY <2>1, <2>2, <2>3, <2>6, WaitAnswered
  <2>8. connections'[s] = o /\ pc'[s] = "connecting" => EndComes(s)'
    BY <2>1, <2>2, <2>3, <2>6, WaitEnds
  <2> QED
    BY <2>3, <2>4, <2>5, <2>7, <2>8 DEF Awaits
<1> QED
  BY <1>1, <1>2

LEMMA InitConnect == Init => ConnectInv
<1> SUFFICES ASSUME Init PROVE ConnectInv
  OBVIOUS
<1>1. EventTyped
  BY DEF Init, EventTyped, Resetting
<1>2. WaitInv
  BY DEF Init, WaitInv, Waits, WaitSteps, Sock
<1> QED
  BY <1>1, <1>2, InitIInv, InitWork, InitPeer DEF ConnectInv

LEMMA NextConnect == ConnectInv /\ [Next]_vars => ConnectInv'
<1> SUFFICES ASSUME ConnectInv, [Next]_vars PROVE ConnectInv'
  OBVIOUS
<1>1. IInv /\ WorkInv /\ EventTyped /\ PeerInv /\ WaitInv /\ IInv'
  BY NextIInv DEF ConnectInv
<1>2. CASE Next
  BY <1>1, <1>2, NextWork, NextEvent, NextPeer, NextWait DEF ConnectInv
<1>3. CASE UNCHANGED vars
  <2> USE <1>3 DEF vars, tables, listenerVars, sockVars, timerVars, txVars, envVars
  <2>1. WorkInv'
    BY <1>1 DEF WorkInv, CallsTyped, Calls, QueuesTyped, OwnsItsKey, Busy, AcceptsPassive, Valid,
                Used, Members
  <2>2. PeerInv'
    BY <1>1 DEF PeerInv, NeverAsking, SilentUntilAsked, New, Used, Requested, Members
  <2>3. EventTyped'
    BY <1>1 DEF EventTyped
  <2>4. ASSUME NEW s \in Active, Waits(s)' PROVE Awaits(s)'
    <3>1. Waits(s)
      BY <2>4 DEF Waits, FirstAttempt
    <3>2. Awaits(s)
      BY <1>1, <3>1 DEF WaitInv
    <3> QED
      BY <3>2 DEF Awaits, Taken, Answered, EndComes, ExpiryQueued, DeferredArm, Members
  <2> QED
    BY <1>1, <2>1, <2>2, <2>3, <2>4 DEF ConnectInv, WaitInv
<1> QED
  BY <1>2, <1>3

\* A socket waiting in connect(), for the first time under its ConnId, always has
\* something that will end the wait: the timer of its connection, an expiry or an
\* arming completion still queued, or the bottom half that took the connection from
\* the table.
THEOREM ConnectAlwaysEnds == Spec => []ConnectWillEnd
<1>1. ConnectInv => ConnectWillEnd
  <2> SUFFICES ASSUME ConnectInv, NEW s \in Active, NEW o, o = own[s],
                      pc[s] = "connecting", FirstAttempt(s), ~conn[o].ready
               PROVE  \/ TaskHolds(o)
                      \/ /\ connections[s] = o
                         /\ conn[o].ticking \/ ExpiryQueued(o) \/ DeferredArm(s)
    BY DEF ConnectWillEnd
  <2>1. Waits(s)
    BY DEF Waits, WaitSteps
  <2>2. Awaits(s)
    BY <2>1 DEF ConnectInv, WaitInv
  <2>3. Taken(o) => TaskHolds(o)
    BY DEF Taken, TaskHolds
  <2> QED
    BY <2>2, <2>3 DEF Awaits, EndComes
<1> QED
  BY <1>1, InitConnect, NextConnect, PTL DEF Spec

-------------------------------------------------------------------------------
(* A connection the listener made, until its timer or its socket removes   *)
(* it.                                                                     *)

Accepted(o) == Used(o) /\ conn[o].key \in PassiveKey
Full(o) == conn[o].local = Both
\* Out of both tables for good.
Gone(o) == Used(o) /\ ~Tabled(o) /\ ~(rx.at = "insert" /\ rx.obj = o)

\* Its close timeout runs, is queued, or is on its way to closing_connections.
LookedUp(o) ==
    /\ timer.at = "closing" /\ timer.key = conn[o].key /\ timer.gen = conn[o].gen
    /\ connections[conn[o].key] # o
Comes(o) == conn[o].gen # 0 /\ (conn[o].ticking \/ ExpiryQueued(o) \/ LookedUp(o))

\* What a socket's call still does: let the connection go, arm its close timeout, or
\* remove it from the tables.
Leaving(s) ==
    pc[s] = "release" \/ (plan[s].drop /\ pc[s] \in {"sendShutdown", "armClose", "sendRst"})
Arming(s) ==
    /\ plan[s].arm
    /\ \/ pc[s] \in {"sendShutdown", "armClose"}
       \/ pc[s] \in {"dropDecide", "dropTable"} /\ plan[s].flags # {}
Removing(s) ==
    /\ plan[s].rst
    /\ \/ pc[s] \in {"sendShutdown", "armClose"} /\ ~plan[s].drop
       \/ pc[s] \in {"unlist", "dropDecide"}
       \/ pc[s] = "dropTable" /\ plan[s].table = "Remove"

\* No socket has it yet, and nobody has shut it down from this side.
Alone(o) == Accepted(o) /\ ~Full(o) /\ \A s \in Sock : own[s] = o => ~Busy(s)
Listed == Members(backlog) \cup drained.held
Handles == {"insert", "push", "undo"}
Accompanied(o) ==
    \/ o \in Listed
    \/ rx.at \in Handles /\ rx.obj = o
    \/ \E s \in Sock : own[s] = o /\ Busy(s) /\ ~Leaving(s)

PlanRec ==
    [flags : SUBSET Both, rst : BOOLEAN, arm : BOOLEAN,
     table : {"Keep", "Remove", "MoveToClosing"}, drop : BOOLEAN]
PlansTyped == plan \in [Sock -> PlanRec]

\* Without congestion nothing waits in software, and a peer that was not asked does
\* not respond.
Unasked ==
    /\ txPending = <<>> /\ txDone = <<>>
    /\ \A k \in PassiveKey : peer[k] # "asked"
    /\ \A p \in Members(inbound) : p.op = "response" => p.key \notin PassiveKey

TimerRec ==
    [at : {"idle", "closing", "drop", "rst"}, key : Key \cup {None}, gen : Nat,
     obj : Obj \cup {None}, rst : BOOLEAN]

\* An armed timer's generation is its own.
Timed ==
    /\ \A o \in Obj :
        /\ conn[o].gen < generation
        /\ conn[o].ticking => Used(o) /\ conn[o].key \in Key
    /\ \A o, p \in Obj : conn[o].gen = conn[p].gen /\ conn[o].gen # 0 => o = p
    /\ \A e \in Members(timerEvents) : e.key \in Key
    /\ timer \in TimerRec /\ (timer.at = "closing" => timer.key \in Key)

\* What is in the backlog, or was drained of it, nobody else has.
ListedInv ==
    /\ drained \in [held : SUBSET Obj, current : Obj \cup {None}]
    /\ Distinct(backlog)
    /\ listening => drained.held = {}
    /\ \A o \in Listed : Alone(o)
    /\ \A o \in drained.held :
        LeftActive(o) /\ (drained.current = o => conn[o].phase # "Closing")

\* Nor what the RX taskless is putting there.
PendingInv ==
    rx.at \in Handles =>
        /\ Alone(rx.obj) /\ rx.obj \notin Listed
        /\ conn[rx.obj].phase # "Closing" /\ conn[rx.obj].key = rx.key

\* A bottom half resets only what it took from the tables.
TakenInv ==
    /\ \A o \in event.held : Gone(o)
    /\ rx.at = "onRst" => rx.obj \in Obj /\ Gone(rx.obj)

\* A drop leaves the connection listed only when both directions are shut.
DropsInv ==
    \A s \in Passive :
        pc[s] = "dropDecide" \/ (pc[s] = "dropTable" /\ plan[s].table # "Remove")
            => Full(own[s])

\* Once both directions are shut somebody is removing it, or it is closing and its
\* timeout is armed or about to be.
Ends(o) ==
    \/ \E s \in Sock : own[s] = o /\ Removing(s)
    \/ /\ conn[o].phase = "Closing"
       /\ Comes(o) \/ \E s \in Sock : own[s] = o /\ Arming(s)
FullInv == \A o \in Obj : Accepted(o) /\ Tabled(o) /\ Full(o) => Ends(o)

\* Until then somebody has it, or it can close no more by itself.
HalfInv ==
    \A o \in Obj : Accepted(o) /\ Tabled(o) /\ ~Full(o) =>
        Accompanied(o) \/ (conn[o].phase # "Closing" /\ LeftActive(o))

\* The inductive invariant behind OrphanWillClose.
BaseInv == IInv /\ WorkInv /\ EventTyped /\ PlansTyped
CloseInv ==
    /\ BaseInv /\ Unasked /\ Timed /\ ListedInv /\ PendingInv /\ TakenInv
    /\ DropsInv /\ FullInv /\ HalfInv
\* Every SHUTDOWN enters the virtqueue at once.
AllSent == ~Congested /\ "shutdown" \notin CanFail

LEMMA GoneStays ==
    ASSUME IInv, Next, NEW o \in Obj, Gone(o)
    PROVE  Gone(o)'
<1>1. Shape
  BY NextShape
<1>2. Used(o) /\ ~Tabled(o) /\ ~(rx.at = "insert" /\ rx.obj = o)
  BY DEF Gone
<1>3. ~Tabled(o)'
  BY <1>1, <1>2, ShapeTables
<1>4. Used(o)'
  BY <1>1, <1>2 DEF Shape, Kept, Used
<1>5. ~(rx'.at = "insert" /\ rx'.obj = o)
  BY <1>1, <1>2 DEF Shape, RxQuiet, RxTookFresh, Fresh, Used
<1> QED
  BY <1>3, <1>4, <1>5 DEF Gone

LEMMA LeftActiveStays ==
    ASSUME IInv, Next, NEW o \in Obj, LeftActive(o)
    PROVE  LeftActive(o)'
<1>1. Shape
  BY NextShape
<1>2. Used(o) /\ (\A k \in Key : connections[k] # o) /\ ~(rx.at = "insert" /\ rx.obj = o)
  BY DEF LeftActive, Used
<1>3. \A k \in Key : connections'[k] # o
  BY <1>1, <1>2, ShapeTables
<1>4. Used(o)'
  BY <1>1, <1>2 DEF Shape, Kept, Used
<1>5. ~(rx'.at = "insert" /\ rx'.obj = o)
  BY <1>1, <1>2 DEF Shape, RxQuiet, RxTookFresh, Fresh, Used
<1> QED
  BY <1>3, <1>4, <1>5 DEF LeftActive, Used

\* A connection in neither table under its own ConnId is in no table.
LEMMA RemovedGone ==
    ASSUME IInv, Next, NEW o \in Obj, Used(o), NEW k, k = conn[o].key,
           connections'[k] # o, o \notin Members(closing'[k])
    PROVE  ~Tabled(o)'
<1>1. Placed' /\ conn'[o].key = k
  BY NextShape, ShapeTables DEF Shape, Kept
<1>2. \A j \in Key : j # k => connections'[j] # o /\ o \notin Members(closing'[j])
  BY <1>1 DEF Placed, Members
<1> QED
  BY <1>2 DEF Tabled, Members

\* Where a table entry comes from, and who left `connections` for good.
LEMMA TabledFrom ==
    ASSUME IInv, Next, NEW o \in Obj, Used(o)
    PROVE  /\ Tabled(o)' => Tabled(o) \/ (rx.at = "insert" /\ rx'.at # "insert" /\ o = rx.obj)
           /\ Tabled(o) /\ connections[conn[o].key] # o => connections'[conn[o].key] # o
           /\ conn'[o].phase # "unused" /\ conn'[o].key = conn[o].key
<1>1. Shape
  BY NextShape
<1>2. ASSUME Tabled(o), connections[conn[o].key] # o
      PROVE  connections'[conn[o].key] # o
  <2>1. PICK k \in Key : connections[k] = o \/ o \in Members(closing[k])
    BY <1>2 DEF Tabled
  <2>2. conn[o].key = k
    BY <2>1 DEF IInv, Placed
  <2>3. rx.at = "insert" => rx.obj # o
    BY <1>2 DEF IInv, InsertIsNew
  <2> QED
    BY <1>1, <1>2, <2>1, <2>2, <2>3, ShapeTables
<1> QED
  BY <1>1, <1>2, ShapeTables DEF Shape, Kept, Used

LEMMA InstanceRemoved ==
    ASSUME IInv, Next, NEW o \in Obj, Used(o), conn[o].key \in Key, RemoveInstance(o)
    PROVE  ~Tabled(o)'
<1> DEFINE k == conn[o].key
<1>1. k \in Key /\ closing[k] \in Seq(Obj)
  BY DEF IInv, TablesTyped
<1>2. connections'[k] = None /\ closing'[k] = Without(closing[k], o)
  BY <1>1 DEF RemoveInstance, WithoutActive, IInv, TablesTyped
<1> HIDE DEF k
<1>3. o \notin Members(closing'[k]) /\ connections'[k] # o
  BY <1>1, <1>2, WithoutShrinks, SpaceAssumption
<1> QED
  BY <1>3, RemovedGone DEF k

\* What a step does to an accepted connection.
Same(o) == conn'[o].local = conn[o].local /\ SameTimer(o)

LEMMA LocallyShutFields ==
    ASSUME ObjectsTyped, NEW o \in Obj, NEW dirs, conn' = LocallyShut(o, dirs)
    PROVE  /\ conn'[o].local = conn[o].local \cup dirs
           /\ conn'[o].phase = IF ReadyToReset(o, dirs) THEN "Closed"
                               ELSE IF FullyShut(o, dirs) THEN "Closing" ELSE conn[o].phase
           /\ conn'[o].gen = conn[o].gen /\ conn'[o].ticking = conn[o].ticking
BY DEF ObjectsTyped, ConnRec, LocallyShut

LEMMA ArmedFields ==
    ASSUME ObjectsTyped, NEW o \in Obj, conn' = Armed(o)
    PROVE  /\ conn'[o].local = conn[o].local /\ conn'[o].phase = conn[o].phase
           /\ conn'[o].gen = generation /\ conn'[o].ticking
BY DEF ObjectsTyped, ConnRec, Armed

LEMMA TimedOutFields ==
    ASSUME ObjectsTyped, NEW o \in Obj, conn' = TimedOut(o)
    PROVE  /\ conn'[o].local = conn[o].local
           /\ conn'[o].phase # "Closing" /\ conn'[o].gen = 0 /\ ~conn'[o].ticking
<1> DEFINE c == [conn EXCEPT ![o].gen = 0, ![o].ticking = FALSE]
<1>1. /\ c \in [Obj -> ConnRec] /\ c[o].local = conn[o].local /\ c[o].phase = conn[o].phase
      /\ c[o].gen = 0 /\ ~c[o].ticking
  BY DEF ObjectsTyped, ConnRec
<1>2. TimedOut(o) = CASE conn[o].phase = "Connecting" ->
                            [c EXCEPT ![o].phase = "Reset", ![o].err = TRUE, ![o].ready = TRUE]
                      [] conn[o].phase = "Closing" -> [c EXCEPT ![o].phase = "Closed"]
                      [] OTHER -> c
  BY DEF TimedOut
<1> HIDE DEF c
<1>3. CASE conn[o].phase = "Connecting"
  <2>1. conn' = [c EXCEPT ![o].phase = "Reset", ![o].err = TRUE, ![o].ready = TRUE]
    BY <1>2, <1>3
  <2> QED
    BY <1>1, <2>1 DEF ConnRec
<1>4. CASE conn[o].phase = "Closing"
  <2>1. conn' = [c EXCEPT ![o].phase = "Closed"]
    BY <1>2, <1>4
  <2> QED
    BY <1>1, <2>1 DEF ConnRec
<1>5. CASE conn[o].phase \notin {"Connecting", "Closing"}
  <2>1. conn' = c
    BY <1>2, <1>5
  <2> QED
    BY <1>1, <1>5, <2>1
<1> QED
  BY <1>3, <1>4, <1>5

\* The steps of a socket that accept() returned.
PassiveStep(s) ==
    \/ Accept(s) \/ Recv(s) \/ DropBegin(s) \/ \E dirs \in SUBSET Both : Shutdown(s, dirs)
    \/ DropShut(s) \/ DropDecide(s) \/ DropTable(s)
    \/ SendShutdown(s) \/ CloseArm(s) \/ Unlist(s) \/ SendRst(s) \/ Release(s)

LEMMA CallsOfPassive ==
    ASSUME WorkInv, NEW s \in Sock, SockStep(s), s \notin Active
    PROVE  PassiveStep(s)
<1>1. pc[s] \notin Connects
  BY DEF WorkInv, CallsTyped, Calls
<1>2. /\ ~ConnectRequest(s) /\ ~ConnectArm(s) /\ ~ConnectFinish(s)
      /\ ~ConnectUndo(s) /\ ~ConnectUnwrap(s) /\ ~ConnectInsert(s)
  BY <1>1 DEF Connects, ConnectRequest, ConnectArm, ConnectFinish, ConnectUndo, ConnectUnwrap,
              ConnectInsert
<1> QED
  BY <1>2, Zenon DEF SockStep, CallStep, PassiveStep

\* The owner of an accepted connection came from accept().
LEMMA OwnerIsPassive ==
    ASSUME WorkInv, NEW s \in Sock, Busy(s), Accepted(own[s])
    PROVE  s \notin Active /\ s \in Passive
<1>1. Valid(own[s], KeysOf(s))
  BY DEF WorkInv, OwnsItsKey
<1> QED
  BY <1>1, SpaceAssumption DEF Valid, KeysOf, Accepted, Sock

OwnerStep(s, o) ==
    /\ s \in Passive /\ own[s] = o /\ own' = own
    /\ \/ CloseArm(s) /\ conn' = Armed(o)
       \/ /\ DropBegin(s) /\ conn[o].phase = "Connecting" /\ conn'[o].phase = "Closed"
          /\ conn'[o].local = conn[o].local
          /\ conn'[o].gen = conn[o].gen /\ conn'[o].ticking = conn[o].ticking
       \/ DropShut(s) /\ conn' = LocallyShut(o, Both)
       \/ \E dirs \in SUBSET Both : Shutdown(s, dirs) /\ conn' = LocallyShut(o, dirs)

LEMMA SockEffect ==
    ASSUME IInv, WorkInv, NEW s \in Sock, SockStep(s), NEW o \in Obj, Accepted(o)
    PROVE  Same(o) \/ OwnerStep(s, o)
<1>0. ObjectsTyped
  BY DEF IInv
<1>1. CASE conn'[o] = conn[o]
  BY <1>1 DEF Same, SameTimer
<1>2. CASE own[s] = o /\ Busy(s)
  <2>1. s \in Passive /\ PassiveStep(s)
    BY <1>2, OwnerIsPassive, CallsOfPassive
  <2>2. CASE \/ Accept(s) \/ DropDecide(s) \/ DropTable(s) \/ SendShutdown(s) \/ Unlist(s)
             \/ SendRst(s) \/ Release(s)
    <3>1. conn' = conn
      BY <2>2, Zenon DEF Accept, DropDecide, DropTable, SendShutdown, Unlist, SendRst, Release
    <3> QED
      BY <3>1 DEF Same, SameTimer
  <2>3. CASE Recv(s)
    <3>1. conn' = [conn EXCEPT ![o].rx = @ - 1]
      BY <1>2, <2>3 DEF Recv
    <3> QED
      BY <1>0, <3>1 DEF ObjectsTyped, ConnRec, Same, SameTimer
  <2>4. CASE DropBegin(s)
    <3> DEFINE p == conn[o].phase
    <3>1. /\ conn' = [conn EXCEPT ![o].phase = IF p = "Connecting" THEN "Closed" ELSE p]
          /\ own' = own
      BY <1>2, <2>4 DEF DropBegin
    <3>2. /\ conn'[o].local = conn[o].local
          /\ conn'[o].gen = conn[o].gen /\ conn'[o].ticking = conn[o].ticking
          /\ conn'[o].phase = IF p = "Connecting" THEN "Closed" ELSE p
      BY <1>0, <3>1 DEF ObjectsTyped, ConnRec
    <3> QED
      BY <1>2, <2>1, <2>4, <3>1, <3>2 DEF Same, SameTimer, OwnerStep
  <2>5. CASE DropShut(s) \/ CloseArm(s) \/ \E dirs \in SUBSET Both : Shutdown(s, dirs)
    BY <1>2, <2>1, <2>5 DEF DropShut, CloseArm, Shutdown, ArmTimer, OwnerStep
  <2> QED
    BY <2>1, <2>2, <2>3, <2>4, <2>5 DEF PassiveStep
<1> QED
  BY <1>1, <1>2, SockObj DEF Accepted

\* The RX taskless resets only what has left the tables, and a SHUTDOWN that completes
\* the peer's side closes the connection or takes it out of them.
LEMMA RxEffect ==
    ASSUME IInv, WorkInv, Unasked, TakenInv, Next, RxStep, NEW o \in Obj, Accepted(o)
    PROVE  /\ conn'[o].local = conn[o].local
           /\ \/ SameTimer(o)
              \/ Gone(o) /\ conn'[o].phase = "Reset"
              \/ /\ RxShutdown /\ connections[conn[o].key] = o
                 /\ conn'[o].gen = conn[o].gen /\ conn'[o].ticking = conn[o].ticking
                 /\ conn'[o].phase = "Closing" \/ ~Tabled(o)'
<1>0. ObjectsTyped /\ Used(o) /\ conn[o].key \in PassiveKey
  BY DEF IInv, Accepted
<1>1. ASSUME conn'[o] = conn[o]
      PROVE  conn'[o].local = conn[o].local /\ SameTimer(o)
  BY <1>1 DEF SameTimer
<1> DEFINE p == Head(inbound)
           k == p.key
           x == connections[k]
<1>2. CASE RxRequest
  <2>1. conn' = conn \/ \E y \in Fresh : conn' = [conn EXCEPT ![y] = NewConn(k, "Connected")]
    BY <1>2, Zenon DEF RxRequest
  <2>2. conn'[o] = conn[o]
    BY <1>0, <2>1 DEF ObjectsTyped, Fresh, Used
  <2> QED
    BY <1>1, <2>2
<1>3. CASE \/ RxInsert \/ RxPush \/ RxUndo \/ RxRespond \/ RxUnlist \/ RxRelease \/ RxSendRst
           \/ RxRst
  <2>1. conn' = conn
    BY <1>3, Zenon DEF RxInsert, RxPush, RxUndo, RxRespond, RxUnlist, RxRelease, RxSendRst, RxRst
  <2> QED
    BY <1>1, <2>1
<1>4. CASE RxOnRst
  <2>1. conn' = WithRst(rx.obj) /\ Gone(rx.obj)
    BY <1>4 DEF RxOnRst, RxAt, TakenInv
  <2>2. /\ conn'[o].local = conn[o].local
        /\ rx.obj = o => conn'[o].phase = "Reset"
    BY <1>0, <2>1 DEF ObjectsTyped, ConnRec, WithRst
  <2> QED
    BY <1>0, <1>1, <2>1, <2>2, WithRstAt
<1>5. CASE RxResponse \/ RxShutdown \/ RxData
  <2>1. p \in Packet /\ k \in Key /\ inbound # <<>> /\ inbound \in Seq(Packet)
    BY <1>0, <1>5, RxTakesType DEF RxResponse, RxShutdown, RxData, Packet, RxTakes, ObjectsTyped
  <2>2. x = o => k = conn[o].key
    BY <2>1 DEF IInv, Placed
  <2>3. CASE RxResponse
    <3>1. p \in Members(inbound) /\ p.op = "response"
      BY <2>1, <2>3, MembersOf DEF RxResponse, RxTakes
    <3>2. k \notin PassiveKey
      BY <3>1 DEF Unasked
    <3>3. x # o
      BY <1>0, <2>2, <3>2
    <3>4. conn' = conn \/ conn' = [conn EXCEPT ![x].gen = 0, ![x].ticking = FALSE,
                                ![x].phase = "Connected", ![x].ready = TRUE]
      BY <2>3, Zenon DEF RxResponse
    <3> HIDE DEF x
    <3>5. conn'[o] = conn[o]
      BY <1>0, <3>3, <3>4 DEF ObjectsTyped
    <3> QED
      BY <1>1, <3>5
  <2>4. CASE RxData
    <3>1. conn' = conn \/ conn' = [conn EXCEPT ![x].rx = @ + 1]
      BY <2>4 DEF RxData
    <3> HIDE DEF x
    <3>2. SameTimer(o) /\ conn'[o].local = conn[o].local
      BY <1>0, <3>1 DEF ObjectsTyped, ConnRec, SameTimer
    <3> QED
      BY <3>2
  <2>5. CASE RxShutdown
    <3> DEFINE theirs == conn[x].peer \cup p.flags
               rst == theirs = Both /\ conn[x].local = Both /\ conn[x].rx = 0
               q == IF theirs # Both THEN conn[x].phase ELSE IF rst THEN "Closed" ELSE "Closing"
    <3>1. \/ conn' = conn
          \/ /\ conn' = [conn EXCEPT ![x].peer = theirs, ![x].phase = q]
             /\ connections' = IF theirs = Both THEN WithoutActive(k) ELSE connections
             /\ closing' = IF theirs = Both /\ ~rst
                           THEN [closing EXCEPT ![k] = Append(@, x)] ELSE closing
      BY <2>5, Zenon DEF RxShutdown
    <3> HIDE DEF x, theirs, q, rst
    <3>2. CASE conn' = conn \/ x # o
      <4>1. conn'[o] = conn[o]
        BY <1>0, <3>1, <3>2 DEF ObjectsTyped
      <4> QED
        BY <1>1, <4>1
    <3>3. CASE conn' # conn /\ x = o
      <4>1. conn' = [conn EXCEPT ![o].peer = theirs, ![o].phase = q]
        BY <3>1, <3>3
      <4>2. /\ conn'[o].local = conn[o].local /\ conn'[o].gen = conn[o].gen
            /\ conn'[o].ticking = conn[o].ticking /\ conn'[o].phase = q
        BY <1>0, <4>1 DEF ObjectsTyped, ConnRec
      <4>3. ASSUME rst, theirs = Both
            PROVE  ~Tabled(o)'
        <5>1. connections' = WithoutActive(k) /\ closing' = closing /\ k = conn[o].key
          BY <2>2, <3>1, <3>3, <4>3
        <5>2. connections[k] = o
          BY <3>3 DEF x
        <5> HIDE DEF k
        <5>3. k \in Key /\ o \notin Members(closing[k]) /\ connections'[k] # o
          BY <2>1, <5>1, <5>2, SpaceAssumption DEF IInv, Once, WithoutActive, TablesTyped
        <5> QED
          BY <1>0, <5>1, <5>3, RemovedGone
      <4>4. theirs # Both => q = conn[o].phase
        BY <3>3 DEF q
      <4>5. theirs = Both /\ ~rst => q = "Closing"
        BY DEF q
      <4>6. connections[conn[o].key] = o
        BY <2>2, <3>3 DEF x
      <4> QED
        BY <2>5, <4>2, <4>3, <4>4, <4>5, <4>6 DEF SameTimer
    <3> QED
      BY <3>2, <3>3
  <2> QED
    BY <1>5, <2>3, <2>4, <2>5
<1> QED
  BY <1>2, <1>3, <1>4, <1>5 DEF RxStep

\* A timeout removes the connection that was closing, and leaves the phase of others.
LEMMA TimerEffect ==
    ASSUME IInv, WorkInv, Timed, Next, TimerStep, NEW o \in Obj, Accepted(o)
    PROVE  /\ conn'[o].local = conn[o].local
           /\ \/ SameTimer(o)
              \/ /\ conn'[o].phase # "Closing"
                 /\ conn[o].phase = "Closing" => ~Tabled(o)'
<1>0. ObjectsTyped /\ Used(o)
  BY DEF IInv, Accepted
<1>1. ASSUME conn'[o] = conn[o]
      PROVE  conn'[o].local = conn[o].local /\ SameTimer(o)
  BY <1>1 DEF SameTimer
<1>2. ASSUME NEW x, conn' = TimedOut(x), x = o /\ conn[o].phase = "Closing" => ~Tabled(o)'
      PROVE  /\ conn'[o].local = conn[o].local
             /\ \/ SameTimer(o)
                \/ /\ conn'[o].phase # "Closing"
                   /\ conn[o].phase = "Closing" => ~Tabled(o)'
  <2>1. CASE x = o
    BY <1>0, <1>2, <2>1, TimedOutFields
  <2>2. CASE x # o
    BY <1>0, <1>1, <1>2, <2>2, TimedOutAt
  <2> QED
    BY <2>1, <2>2
<1>3. CASE TimerDrop \/ TimerSendRst
  BY <1>1, <1>3 DEF TimerDrop, TimerSendRst
<1>4. CASE TimerActive
  <2> DEFINE e == Head(timerEvents)
             k == e.key
             x == connections[k]
  <2>1. k \in Key
    <3>1. timerEvents \in Seq(TimerEvent) /\ timerEvents # <<>>
      BY <1>4 DEF TimerActive, WorkInv, QueuesTyped
    <3>2. e \in Members(timerEvents)
      BY <3>1, MembersOf
    <3> QED
      BY <3>2 DEF Timed
  <2>2. \/ conn' = conn
        \/ conn' = TimedOut(x) /\ (Expires(x) => connections' = WithoutActive(k))
    BY <1>4, Zenon DEF TimerActive
  <2>3. closing' = closing
    BY <1>4 DEF TimerActive
  <2> HIDE DEF k
  <2>4. ASSUME x = o, Expires(x) => connections' = WithoutActive(k), conn[o].phase = "Closing"
        PROVE  ~Tabled(o)'
    <3>1. connections' = WithoutActive(k) /\ k = conn[o].key
      BY <2>1, <2>4 DEF Expires, IInv, Placed
    <3>2. o \notin Members(closing[k]) /\ connections'[k] # o
      BY <2>1, <2>4, <3>1, SpaceAssumption DEF IInv, Once, WithoutActive, TablesTyped
    <3> QED
      BY <1>0, <2>3, <3>1, <3>2, RemovedGone
  <2> HIDE DEF x
  <2> QED
    BY <1>1, <1>2, <2>2, <2>4
<1>5. CASE TimerClosing
  <2> DEFINE k == timer.key
  <2>1. k \in Key /\ closing[k] \in Seq(Obj)
    BY <1>5 DEF TimerClosing, Timed, IInv, TablesTyped
  <2>2. \/ conn' = conn
        \/ \E x \in Members(closing[k]) :
              /\ conn' = TimedOut(x)
              /\ Expires(x) => PutBack(k, Without(closing[k], x))
    BY <1>5, Zenon DEF TimerClosing
  <2> HIDE DEF k
  <2>3. CASE conn' = conn
    BY <1>1, <2>3
  <2>4. ASSUME NEW x \in Members(closing[k]), conn' = TimedOut(x),
               Expires(x) => PutBack(k, Without(closing[k], x))
        PROVE  /\ conn'[o].local = conn[o].local
               /\ \/ SameTimer(o)
                  \/ /\ conn'[o].phase # "Closing"
                     /\ conn[o].phase = "Closing" => ~Tabled(o)'
    <3>1. ASSUME x = o, conn[o].phase = "Closing"
          PROVE  ~Tabled(o)'
      <4>1. /\ closing' = [closing EXCEPT ![k] = Without(closing[k], o)]
            /\ connections' = connections
        BY <2>4, <3>1 DEF Expires, PutBack
      <4>2. k = conn[o].key /\ connections[k] # o
        BY <2>1, <2>4, <3>1 DEF IInv, Placed, Once
      <4>3. closing'[k] = Without(closing[k], o)
        BY <2>1, <4>1 DEF IInv, TablesTyped
      <4>4. o \notin Members(closing'[k])
        BY <2>1, <4>3, WithoutShrinks
      <4> QED
        BY <1>0, <4>1, <4>2, <4>4, RemovedGone
    <3> QED
      BY <1>2, <2>4, <3>1
  <2> QED
    BY <2>2, <2>3, <2>4
<1> QED
  BY <1>3, <1>4, <1>5 DEF TimerStep

LEMMA OtherEffect ==
    ASSUME IInv, Unasked, TakenInv, ListedInv, NEW o \in Obj, Accepted(o),
           \/ ListenerDrop \/ DrainedReset \/ TransportReset \/ EventReset
           \/ TxDrain \/ TxApply \/ \E x \in Obj : TimerFires(x)
           \/ \E k \in Key : PeerStep(k)
    PROVE  /\ conn'[o].local = conn[o].local
           /\ SameTimer(o) \/ TimerFires(o)
              \/ (conn'[o].phase = "Reset" /\ (o \in drained.held \/ Gone(o)))
<1>0. ObjectsTyped
  BY DEF IInv
<1>1. ASSUME conn'[o] = conn[o]
      PROVE  conn'[o].local = conn[o].local /\ SameTimer(o)
  BY <1>1 DEF SameTimer
<1>2. CASE DrainedReset \/ EventReset
  <2>1. conn' = conn \/ \E x \in drained.held \cup event.held : conn' = WithRst(x)
    BY <1>2 DEF DrainedReset, EventReset, AfterReset
  <2>2. ASSUME NEW x \in drained.held \cup event.held, conn' = WithRst(x)
        PROVE  /\ conn'[o].local = conn[o].local
               /\ x # o => conn'[o] = conn[o]
               /\ x = o => conn'[o].phase = "Reset"
    BY <1>0, <2>2 DEF ObjectsTyped, ConnRec, WithRst
  <2>3. \A x \in event.held : Gone(x)
    BY DEF TakenInv
  <2> QED
    BY <1>1, <2>1, <2>2, <2>3
<1>3. CASE ListenerDrop \/ TransportReset \/ TxDrain \/ \E k \in Key : PeerStep(k)
  <2>1. conn' = conn
    BY <1>3 DEF ListenerDrop, TransportReset, TxDrain, PeerStep, PeerRequest, PeerResponse,
                PeerRst, PeerData, PeerShutdown, PeerSends
  <2> QED
    BY <1>1, <2>1
<1>4. CASE TxApply
  BY <1>4 DEF TxApply, Unasked
<1>5. CASE \E x \in Obj : TimerFires(x)
  <2>1. PICK x \in Obj : TimerFires(x) /\ conn' = [conn EXCEPT ![x].ticking = FALSE]
    BY <1>5 DEF TimerFires
  <2>2. conn'[o].local = conn[o].local /\ (x # o => conn'[o] = conn[o])
    BY <1>0, <2>1 DEF ObjectsTyped, ConnRec
  <2> QED
    BY <1>1, <2>1, <2>2
<1> QED
  BY <1>2, <1>3, <1>4, <1>5

-------------------------------------------------------------------------------
(* What a step does to the calls, and where the objects' timers come from. *)

LEMMA PlanStep ==
    ASSUME BaseInv, NEW s \in Sock, SockStep(s)
    PROVE  plan' = plan \/ \E p \in PlanRec : plan' = [plan EXCEPT ![s] = p]
<1> DEFINE o == own[s]
<1>0. PlansTyped /\ WorkInv /\ ObjectsTyped /\ NoPlan \in PlanRec
  BY DEF BaseInv, IInv, NoPlan, PlanRec
<1>1. CASE \/ ConnectInsert(s) \/ Accept(s) \/ Recv(s) \/ ConnectRequest(s) \/ ConnectArm(s)
           \/ ConnectFinish(s) \/ ConnectUndo(s) \/ ConnectUnwrap(s) \/ DropTable(s)
           \/ SendShutdown(s) \/ CloseArm(s) \/ Unlist(s) \/ SendRst(s) \/ Release(s)
  BY <1>1 DEF ConnectInsert, Accept, Recv, ConnectRequest, ConnectArm, ConnectFinish,
       ConnectUndo, ConnectUnwrap, DropTable, SendShutdown, CloseArm, Unlist, SendRst, Release,
       ArmTimer, sockVars
<1>2. ASSUME Busy(s), NEW dirs \in SUBSET Both
      PROVE  /\ LocalShutdown(o, dirs) \in PlanRec
             /\ [LocalShutdown(o, dirs) EXCEPT !.drop = TRUE] \in PlanRec
  <2>1. conn[o] \in ConnRec
    BY <1>0, <1>2 DEF WorkInv, OwnsItsKey, Valid, ObjectsTyped
  <2> QED
    BY <1>0, <2>1 DEF LocalShutdown, PlanRec, NoPlan, ReadyToReset, FullyShut, ConnRec
<1>3. CASE \E dirs \in SUBSET Both : Shutdown(s, dirs)
  <2>1. PICK dirs \in SUBSET Both : /\ plan' = [plan EXCEPT ![s] = LocalShutdown(o, dirs)]
                                    /\ Busy(s)
    BY <1>3 DEF Shutdown, Busy, AtRest
  <2> QED
    BY <1>2, <2>1
<1>4. CASE DropShut(s)
  <2>1. /\ plan' = [plan EXCEPT ![s] = [LocalShutdown(o, Both) EXCEPT !.drop = TRUE]]
        /\ Busy(s)
    BY <1>4 DEF DropShut, Busy, AtRest
  <2> QED
    BY <1>2, <2>1
<1>5. CASE DropBegin(s)
  <2>1. plan' = [plan EXCEPT ![s] = [NoPlan EXCEPT !.drop = TRUE, !.table = "Remove",
                                         !.rst = (conn[o].phase = "Connecting")]]
    BY <1>5 DEF DropBegin
  <2>2. [NoPlan EXCEPT !.drop = TRUE, !.table = "Remove",
                       !.rst = (conn[o].phase = "Connecting")] \in PlanRec
    BY <1>0 DEF NoPlan, PlanRec
  <2> QED
    BY <2>1, <2>2
<1>6. CASE DropDecide(s)
  <2>1. PICK t \in {"Keep", "Remove", "MoveToClosing"} : plan' = [plan EXCEPT ![s].table = t]
    BY <1>6 DEF DropDecide
  <2>2. [plan[s] EXCEPT !.table = t] \in PlanRec
    BY <1>0 DEF PlansTyped, PlanRec
  <2>3. plan' = [plan EXCEPT ![s] = [plan[s] EXCEPT !.table = t]]
    BY <2>1
  <2> QED
    BY <2>2, <2>3
<1> QED
  BY <1>1, <1>3, <1>4, <1>5, <1>6 DEF SockStep, CallStep

\* Only its own step changes a socket's call.
LEMMA CallFrame ==
    ASSUME BaseInv, Next
    PROVE  /\ PlansTyped'
           /\ \A s \in Sock : SockStep(s) \/ (/\ own'[s] = own[s] /\ pc'[s] = pc[s]
                                              /\ plan'[s] = plan[s])
           /\ (\E s \in Sock : SockStep(s)) \/ UNCHANGED <<own, pc, plan>>
<1>0. PlansTyped /\ WorkInv /\ IInv
  BY DEF BaseInv
<1>1. CASE \E t \in Sock : SockStep(t)
  <2>1. PICK t \in Sock : SockStep(t)
    BY <1>1
  <2>2. plan' = plan \/ \E p \in PlanRec : plan' = [plan EXCEPT ![t] = p]
    BY <2>1, PlanStep
  <2>3. PlansTyped' /\ \A s \in Sock : s # t => plan'[s] = plan[s]
    BY <1>0, <2>2 DEF PlansTyped
  <2> QED
    BY <1>0, <1>1, <2>1, <2>3, SockFrame
<1>2. CASE ~\E t \in Sock : SockStep(t)
  <2>1. ASSUME RxStep PROVE UNCHANGED sockVars
    BY <2>1, Zenon DEF RxStep, RxRequest, RxInsert, RxPush, RxUndo, RxRespond, RxUnlist,
       RxOnRst, RxRelease, RxSendRst, RxResponse, RxRst, RxShutdown, RxData, RxFrame
  <2>2. ASSUME TimerStep PROVE UNCHANGED sockVars
    BY <2>2, Zenon DEF TimerStep, TimerActive, TimerClosing, TimerDrop, TimerSendRst, TimerFrame
  <2>3. ASSUME \/ ListenerDrop \/ DrainedReset \/ TransportReset \/ EventReset
               \/ TxDrain \/ TxApply \/ \E x \in Obj : TimerFires(x)
               \/ \E k \in Key : PeerStep(k)
        PROVE  UNCHANGED sockVars
    BY <2>3, Zenon DEF ListenerDrop, DrainedReset, TransportReset, EventReset, TxDrain, TxApply,
       TimerFires, PeerStep, PeerRequest, PeerResponse, PeerRst, PeerData, PeerShutdown,
       PeerSends
  <2>4. UNCHANGED <<own, pc, plan>>
    BY <1>2, <2>1, <2>2, <2>3 DEF Next, sockVars
  <2> QED
    BY <1>0, <2>4 DEF PlansTyped
<1> QED
  BY <1>1, <1>2

\* One object loses its timer, or keeps it.
Dims(x) ==
    /\ Used(x) /\ generation' = generation
    /\ \A o \in Obj : o # x => conn'[o] = conn[o]
    /\ conn'[x].gen \in {conn[x].gen, 0} /\ (conn'[x].ticking => conn[x].ticking)
Arms(x) ==
    /\ Used(x) /\ conn[x].key \in Key
    /\ conn' = Armed(x) /\ generation' = generation + 1
Makes(x) ==
    /\ x \in Fresh /\ generation' = generation
    /\ \E k \in Key : \E p \in {"Connecting", "Connected"} :
        /\ conn' = [conn EXCEPT ![x] = NewConn(k, p)]
        /\ k \in PassiveKey =>
              /\ rx'.at = "insert" /\ rx'.obj = x /\ rx'.key = k /\ p = "Connected"
              /\ UNCHANGED <<own, pc, listenerVars>>
ConnForm ==
    \/ conn' = conn /\ generation' = generation
    \/ \E x \in Obj : Dims(x) \/ Arms(x) \/ Makes(x)

LEMMA DimsForms ==
    ASSUME ObjectsTyped, NEW x \in Obj, Used(x), generation' = generation,
           \/ conn' = WithRst(x)
           \/ conn' = TimedOut(x)
           \/ \E dirs : conn' = LocallyShut(x, dirs)
           \/ \E v : \/ conn' = [conn EXCEPT ![x].rx = v] \/ conn' = [conn EXCEPT ![x].err = v]
                     \/ conn' = [conn EXCEPT ![x].phase = v]
           \/ conn' = [conn EXCEPT ![x].ticking = FALSE]
           \/ \E v, w : conn' = [conn EXCEPT ![x].peer = v, ![x].phase = w]
           \/ conn' = [conn EXCEPT ![x].gen = 0, ![x].ticking = FALSE,
                                ![x].phase = "Connected", ![x].ready = TRUE]
    PROVE  Dims(x)
<1>1. CASE conn' = WithRst(x)
  BY <1>1 DEF ObjectsTyped, ConnRec, WithRst, Dims
<1>2. CASE conn' = TimedOut(x)
  BY <1>2, TimedOutFields, TimedOutAt DEF Dims
<1>3. CASE \E dirs : conn' = LocallyShut(x, dirs)
  BY <1>3 DEF ObjectsTyped, ConnRec, LocallyShut, Dims
<1>4. CASE \E v : \/ conn' = [conn EXCEPT ![x].rx = v] \/ conn' = [conn EXCEPT ![x].err = v]
                  \/ conn' = [conn EXCEPT ![x].phase = v]
  BY <1>4 DEF ObjectsTyped, ConnRec, Dims
<1>5. CASE conn' = [conn EXCEPT ![x].ticking = FALSE]
  BY <1>5 DEF ObjectsTyped, ConnRec, Dims
<1>6. ASSUME NEW v, NEW w, conn' = [conn EXCEPT ![x].peer = v, ![x].phase = w]
      PROVE  Dims(x)
  <2>1. DOMAIN conn = Obj /\ conn[x] \in ConnRec
    BY DEF ObjectsTyped
  <2>2. /\ conn'[x] = [conn[x] EXCEPT !.peer = v, !.phase = w]
        /\ \A o \in Obj : o # x => conn'[o] = conn[o]
    BY <1>6, <2>1
  <2>3. conn'[x].gen = conn[x].gen /\ conn'[x].ticking = conn[x].ticking
    BY <2>1, <2>2 DEF ConnRec
  <2> QED
    BY <2>2, <2>3 DEF Dims
<1>7. CASE conn' = [conn EXCEPT ![x].gen = 0, ![x].ticking = FALSE,
                                ![x].phase = "Connected", ![x].ready = TRUE]
  BY <1>7 DEF ObjectsTyped, ConnRec, Dims
<1> QED
  BY <1>1, <1>2, <1>3, <1>4, <1>5, <1>6, <1>7

LEMMA SockForm ==
    ASSUME IInv, WorkInv, NEW s \in Sock, SockStep(s)
    PROVE  ConnForm
<1> DEFINE o == own[s]
<1>0. ObjectsTyped
  BY DEF IInv
<1>1. ASSUME Busy(s) PROVE o \in Obj /\ Used(o) /\ conn[o].key \in Key
  BY <1>1 DEF WorkInv, OwnsItsKey, Valid, KeysOf, Key
<1>2. CASE ConnectInsert(s)
  <2>1. PICK x \in Fresh : conn' = [conn EXCEPT ![x] = NewConn(s, "Connecting")]
    BY <1>2 DEF ConnectInsert
  <2>2. s \in Key /\ s \notin PassiveKey /\ generation' = generation
    BY <1>2, SpaceAssumption DEF ConnectInsert, Key
  <2> QED
    BY <2>1, <2>2 DEF ConnForm, Makes, Fresh
<1>3. CASE \/ ConnectRequest(s) \/ ConnectUnwrap(s) \/ DropDecide(s) \/ SendShutdown(s)
           \/ SendRst(s) \/ Release(s) \/ Accept(s) \/ ConnectUndo(s) \/ DropTable(s)
           \/ Unlist(s)
  <2>1. conn' = conn /\ generation' = generation
    BY <1>3, Zenon DEF ConnectRequest, ConnectUnwrap, DropDecide, SendShutdown, SendRst,
       Release, Accept, ConnectUndo, DropTable, Unlist
  <2> QED
    BY <2>1 DEF ConnForm
<1>4. CASE ConnectArm(s) \/ CloseArm(s)
  <2>1. conn' = Armed(o) /\ Busy(s) /\ generation' = generation + 1
    BY <1>4 DEF ConnectArm, CloseArm, ArmTimer, Busy, AtRest
  <2> QED
    BY <1>1, <2>1 DEF ConnForm, Arms
<1>5. CASE \/ ConnectFinish(s) \/ Recv(s) \/ DropBegin(s) \/ DropShut(s)
           \/ \E dirs \in SUBSET Both : Shutdown(s, dirs)
  <2>1. Busy(s) /\ generation' = generation
    BY <1>5 DEF ConnectFinish, Recv, DropBegin, DropShut, Shutdown, Busy, AtRest
  <2>2. \/ \E dirs : conn' = LocallyShut(o, dirs)
        \/ \E v : \/ conn' = [conn EXCEPT ![o].rx = v] \/ conn' = [conn EXCEPT ![o].err = v]
                  \/ conn' = [conn EXCEPT ![o].phase = v]
    BY <1>5 DEF ConnectFinish, Recv, DropBegin, DropShut, Shutdown
  <2> HIDE DEF o
  <2> QED
    BY <1>0, <1>1, <2>1, <2>2, DimsForms DEF ConnForm
<1> QED
  BY <1>2, <1>3, <1>4, <1>5 DEF SockStep, CallStep

LEMMA RxForm ==
    ASSUME IInv, WorkInv, TakenInv, RxStep
    PROVE  ConnForm
<1>0. ObjectsTyped
  BY DEF IInv
<1>1. CASE RxRequest
  <2> DEFINE k == Head(inbound).key
  <2>1. k \in Key /\ generation' = generation /\ UNCHANGED <<own, pc, listenerVars>>
    BY <1>1, RxTakesType DEF RxRequest, RxFrame, Packet, sockVars
  <2>2. CASE ~(k \in PassiveKey /\ listening)
    <3>1. conn' = conn
      BY <1>1, <2>2 DEF RxRequest
    <3> QED
      BY <2>1, <3>1 DEF ConnForm
  <2>3. CASE k \in PassiveKey /\ listening
    <3>1. PICK x \in Fresh : /\ conn' = [conn EXCEPT ![x] = NewConn(k, "Connected")]
                             /\ rx'.at = "insert" /\ rx'.obj = x /\ rx'.key = k
      BY <1>1, <2>3 DEF RxRequest, RxGoes
    <3> QED
      BY <2>1, <3>1 DEF ConnForm, Makes, Fresh
  <2> QED
    BY <2>2, <2>3
<1>2. CASE \/ RxInsert \/ RxPush \/ RxUndo \/ RxRespond \/ RxUnlist \/ RxRelease \/ RxSendRst
           \/ RxRst
  <2>1. conn' = conn /\ generation' = generation
    BY <1>2, Zenon DEF RxInsert, RxPush, RxUndo, RxRespond, RxUnlist, RxRelease, RxSendRst,
       RxRst, RxFrame
  <2> QED
    BY <2>1 DEF ConnForm
<1>3. CASE RxOnRst
  <2>1. /\ conn' = WithRst(rx.obj) /\ rx.obj \in Obj /\ Used(rx.obj)
        /\ generation' = generation
    BY <1>3 DEF RxOnRst, RxAt, TakenInv, Gone, RxFrame
  <2> QED
    BY <1>0, <2>1, DimsForms DEF ConnForm
<1>4. CASE RxResponse \/ RxShutdown \/ RxData
  <2> DEFINE k == Head(inbound).key
             x == connections[k]
  <2>1. k \in Key /\ generation' = generation
    BY <1>4, RxTakesType, Zenon DEF RxResponse, RxShutdown, RxData, Packet, RxFrame
  <2>2. x # None => x \in Obj /\ Used(x)
    BY <2>1 DEF IInv, Placed, TablesTyped
  <2>3. \/ conn' = conn
        \/ /\ x # None
           /\ \/ \E v : conn' = [conn EXCEPT ![x].rx = v]
              \/ \E v, w : conn' = [conn EXCEPT ![x].peer = v, ![x].phase = w]
              \/ conn' = [conn EXCEPT ![x].gen = 0, ![x].ticking = FALSE,
                                ![x].phase = "Connected", ![x].ready = TRUE]
    <3>1. CASE RxResponse
      BY <3>1, Zenon DEF RxResponse
    <3>2. CASE RxShutdown
      BY <3>2, Zenon DEF RxShutdown
    <3>3. CASE RxData
      BY <3>3 DEF RxData
    <3> QED
      BY <1>4, <3>1, <3>2, <3>3
  <2> HIDE DEF x, k
  <2> QED
    BY <1>0, <2>1, <2>2, <2>3, DimsForms DEF ConnForm
<1> QED
  BY <1>1, <1>2, <1>3, <1>4 DEF RxStep

LEMMA OtherForm ==
    ASSUME IInv, WorkInv, EventTyped, Timed, Unasked, TakenInv, ListedInv,
           \/ TimerStep \/ ListenerDrop \/ DrainedReset \/ TransportReset \/ EventReset
           \/ TxDrain \/ TxApply \/ \E x \in Obj : TimerFires(x)
           \/ \E k \in Key : PeerStep(k)
    PROVE  ConnForm
<1>0. ObjectsTyped
  BY DEF IInv
<1>1. CASE TimerDrop \/ TimerSendRst
  BY <1>1 DEF TimerDrop, TimerSendRst, TimerFrame, ConnForm
<1>2. CASE TimerActive \/ TimerClosing
  <2>1. generation' = generation
    BY <1>2 DEF TimerActive, TimerClosing, TimerFrame
  <2>2. CASE TimerActive
    <3> DEFINE e == Head(timerEvents)
               x == connections[e.key]
    <3>1. timerEvents \in Seq(TimerEvent) /\ timerEvents # <<>>
      BY <2>2 DEF TimerActive, WorkInv, QueuesTyped
    <3>2. e \in Members(timerEvents)
      BY <3>1, MembersOf
    <3>3. e.key \in Key
      BY <3>2 DEF Timed
    <3>4. x # None => x \in Obj /\ Used(x)
      BY <3>3 DEF IInv, Placed, TablesTyped
    <3>5. conn' = conn \/ (x # None /\ conn' = TimedOut(x))
      BY <2>2 DEF TimerActive
    <3> HIDE DEF x
    <3> QED
      BY <1>0, <2>1, <3>4, <3>5, DimsForms DEF ConnForm
  <2>3. CASE TimerClosing
    <3>1. timer.key \in Key /\ closing[timer.key] \in Seq(Obj)
      BY <2>3 DEF TimerClosing, Timed, IInv, TablesTyped
    <3>2. conn' = conn \/ \E x \in Members(closing[timer.key]) : conn' = TimedOut(x)
      BY <2>3, Zenon DEF TimerClosing
    <3>3. \A x \in Members(closing[timer.key]) : x \in Obj /\ Used(x)
      BY <3>1, SeqMembers DEF IInv, Placed
    <3> QED
      BY <1>0, <2>1, <3>2, <3>3, DimsForms DEF ConnForm
  <2> QED
    BY <1>2, <2>2, <2>3
<1>3. CASE DrainedReset \/ EventReset
  <2>1. /\ conn' = conn \/ \E x \in drained.held \cup event.held : conn' = WithRst(x)
        /\ generation' = generation
    BY <1>3 DEF DrainedReset, EventReset, AfterReset
  <2>2. \A x \in drained.held : x \in Obj /\ Used(x)
    BY DEF ListedInv, LeftActive, Used
  <2>3. \A x \in event.held : x \in Obj /\ Used(x)
    BY DEF TakenInv, Gone, EventTyped
  <2> QED
    BY <1>0, <2>1, <2>2, <2>3, DimsForms DEF ConnForm
<1>4. CASE ListenerDrop \/ TransportReset \/ TxDrain \/ \E k \in Key : PeerStep(k)
  <2>1. conn' = conn /\ generation' = generation
    BY <1>4 DEF ListenerDrop, TransportReset, TxDrain, PeerStep, PeerRequest, PeerResponse,
                PeerRst, PeerData, PeerShutdown, PeerSends
  <2> QED
    BY <2>1 DEF ConnForm
<1>5. CASE TxApply
  BY <1>5 DEF TxApply, Unasked
<1>6. CASE \E x \in Obj : TimerFires(x)
  <2>1. PICK x \in Obj : /\ conn[x].ticking /\ conn' = [conn EXCEPT ![x].ticking = FALSE]
                         /\ generation' = generation
    BY <1>6 DEF TimerFires
  <2>2. Used(x)
    BY <2>1 DEF Timed
  <2> QED
    BY <1>0, <2>1, <2>2, DimsForms DEF ConnForm
<1> QED
  BY <1>1, <1>2, <1>3, <1>4, <1>5, <1>6 DEF TimerStep

LEMMA NextForm ==
    ASSUME CloseInv, Next
    PROVE  ConnForm
BY SockForm, RxForm, OtherForm DEF CloseInv, BaseInv, Next

\* Where an accepted connection comes from.
LEMMA AcceptedFrom ==
    ASSUME CloseInv, Next, NEW o \in Obj, Accepted(o)'
    PROVE  \/ Accepted(o)
           \/ /\ Makes(o) /\ ~Used(o) /\ rx'.at = "insert" /\ rx'.obj = o
              /\ rx'.key = conn'[o].key /\ conn'[o].local = {}
              /\ conn'[o].phase = "Connected" /\ UNCHANGED <<own, pc, listenerVars>>
<1>0. ObjectsTyped /\ IInv
  BY DEF CloseInv, BaseInv, IInv
<1>1. CASE Used(o)
  BY <1>0, <1>1, TabledFrom DEF Accepted
<1>2. CASE ~Used(o)
  <2>1. conn'[o] # conn[o]
    BY <1>2 DEF Accepted, Used
  <2>2. PICK x \in Obj : Dims(x) \/ Arms(x) \/ Makes(x)
    BY <2>1, NextForm DEF ConnForm
  <2>3. ~Dims(x)
    BY <1>2, <2>1 DEF Dims
  <2>4. ~Arms(x)
    <3> SUFFICES ASSUME Arms(x) PROVE FALSE
      OBVIOUS
    <3>1. x # o /\ conn' = Armed(x)
      BY <1>2 DEF Arms
    <3> QED
      BY <1>0, <2>1, <3>1, ArmedAt
  <2>5. PICK k \in Key, p \in {"Connecting", "Connected"} :
           /\ conn' = [conn EXCEPT ![x] = NewConn(k, p)]
           /\ k \in PassiveKey =>
                 /\ rx'.at = "insert" /\ rx'.obj = x /\ rx'.key = k /\ p = "Connected"
                 /\ UNCHANGED <<own, pc, listenerVars>>
    BY <2>2, <2>3, <2>4 DEF Makes
  <2>6. x = o /\ conn'[o] = NewConn(k, p)
    BY <1>0, <2>1, <2>5 DEF ObjectsTyped
  <2>7. /\ conn'[o].key = k /\ conn'[o].local = {} /\ conn'[o].phase = p
    BY <2>6 DEF NewConn
  <2>8. k \in PassiveKey /\ Makes(o)
    BY <2>2, <2>3, <2>4, <2>6, <2>7 DEF Accepted
  <2> QED
    BY <1>2, <2>5, <2>6, <2>7, <2>8
<1> QED
  BY <1>1, <1>2

LEMMA TimerStateSteps ==
    ASSUME IInv, WorkInv, Next
    PROVE  timer' = timer \/ TimerStep
<1>1. CASE \E t \in Sock : SockStep(t)
  BY <1>1, NextWork, SocketQueues
<1>2. CASE RxStep
  BY <1>2, RxSends
<1>3. CASE \/ ListenerDrop \/ DrainedReset \/ TransportReset \/ EventReset \/ TxDrain \/ TxApply
           \/ \E x \in Obj : TimerFires(x)
           \/ \E k \in Key : PeerStep(k)
  BY <1>3 DEF ListenerDrop, DrainedReset, TransportReset, EventReset, TxDrain, TxApply,
              TimerFires, PeerStep, PeerRequest, PeerResponse, PeerRst, PeerData, PeerShutdown,
              PeerSends, timerVars
<1> QED
  BY <1>1, <1>2, <1>3 DEF Next

LEMMA NextTimed ==
    ASSUME CloseInv, Next
    PROVE  Timed'
<1>0. /\ IInv /\ WorkInv /\ ObjectsTyped /\ Timed /\ generation \in Nat
      /\ timerEvents \in Seq(TimerEvent)
  BY DEF CloseInv, BaseInv, IInv, ObjectsTyped, WorkInv, QueuesTyped
<1> DEFINE Gens == /\ \A o \in Obj :
                       /\ conn'[o].gen < generation'
                       /\ conn'[o].ticking => Used(o)' /\ conn'[o].key \in Key
                   /\ \A o, p \in Obj :
                       conn'[o].gen = conn'[p].gen /\ conn'[o].gen # 0 => o = p
<1>1. Gens
  <2>0. \A o \in Obj : /\ conn[o].gen \in Nat
                       /\ Used(o) => Used(o)' /\ conn'[o].key = conn[o].key
    BY <1>0, TabledFrom DEF ObjectsTyped, ConnRec, Used
  <2>1. CASE conn' = conn /\ generation' = generation
    BY <1>0, <2>1 DEF Timed, Used
  <2>2. ASSUME NEW x \in Obj, Dims(x) PROVE Gens
    BY <1>0, <2>0, <2>2 DEF Timed, Dims
  <2>3. ASSUME NEW x \in Obj, Arms(x) PROVE Gens
    <3>1. /\ conn'[x].gen = generation /\ Used(x) /\ conn[x].key \in Key
          /\ generation' = generation + 1
          /\ \A o \in Obj : o # x => conn'[o] = conn[o]
      BY <1>0, <2>3, ArmedFields, ArmedAt DEF Arms
    <3> QED
      BY <1>0, <2>0, <3>1 DEF Timed
  <2>4. ASSUME NEW x \in Obj, Makes(x) PROVE Gens
    <3>1. /\ conn'[x].gen = 0 /\ ~conn'[x].ticking /\ generation' = generation
          /\ \A o \in Obj : o # x => conn'[o] = conn[o]
      BY <1>0, <2>4 DEF Makes, NewConn, ObjectsTyped
    <3> QED
      BY <1>0, <2>0, <3>1 DEF Timed
  <2> QED
    BY <2>1, <2>2, <2>3, <2>4, NextForm DEF ConnForm
<1>2. \A e \in Members(timerEvents') : e.key \in Key
  <2>1. CASE timerEvents' = timerEvents
    BY <1>0, <2>1 DEF Timed
  <2>2. CASE TimerActive
    <3>1. timerEvents # <<>> /\ timerEvents' = Tail(timerEvents)
      BY <2>2 DEF TimerActive
    <3> QED
      BY <1>0, <3>1, MembersOf DEF Timed
  <2>3. ASSUME NEW x \in Obj, TimerFires(x)
        PROVE  \A e \in Members(timerEvents') : e.key \in Key
    <3> DEFINE e == [key |-> conn[x].key, gen |-> conn[x].gen]
    <3>1. conn[x].key \in Key /\ timerEvents' = Append(timerEvents, e) /\ e \in TimerEvent
      BY <1>0, <2>3 DEF TimerFires, Timed, TimerEvent, ObjectsTyped, ConnRec
    <3>2. Members(timerEvents') = Members(timerEvents) \cup {e}
      BY <1>0, <3>1, MembersOf
    <3> QED
      BY <1>0, <3>1, <3>2 DEF Timed
  <2> QED
    BY <1>0, <2>1, <2>2, <2>3, TimerQueueSteps
<1>3. timer' \in TimerRec /\ (timer'.at = "closing" => timer'.key \in Key)
  <2>0. /\ timer \in TimerRec /\ TimerIdle \in TimerRec /\ TimerIdle.at # "closing"
        /\ timer.at = "closing" => timer.key \in Key
    BY <1>0 DEF Timed, TimerRec, TimerIdle
  <2>1. ASSUME NEW o \in Obj \cup {None}, NEW k \in Key \cup {None}, HoldExpired(o, k)
        PROVE  timer' \in TimerRec /\ timer'.at # "closing"
    BY <2>1 DEF HoldExpired, TimerRec
  <2>2. CASE TimerActive
    <3> DEFINE e == Head(timerEvents)
               c == [TimerIdle EXCEPT !.at = "closing", !.key = e.key, !.gen = e.gen]
    <3>1. timerEvents # <<>> /\ e \in Members(timerEvents) /\ e \in TimerEvent
      BY <1>0, <2>2, MembersOf DEF TimerActive
    <3>2. e.key \in Key /\ e.gen \in Nat /\ connections[e.key] \in Obj \cup {None}
      BY <1>0, <3>1 DEF Timed, TimerEvent, IInv, TablesTyped
    <3>3. HoldExpired(connections[e.key], e.key) \/ timer' = c
      BY <2>2, Zenon DEF TimerActive
    <3> HIDE DEF e
    <3>4. c \in TimerRec /\ c.key = e.key
      BY <3>2 DEF TimerRec, TimerIdle
    <3> HIDE DEF c
    <3> QED
      BY <2>1, <3>2, <3>3, <3>4
  <2>3. CASE TimerClosing
    <3>1. timer' = TimerIdle \/ \E o \in Members(closing[timer.key]) : HoldExpired(o, timer.key)
      BY <2>3, Zenon DEF TimerClosing
    <3>2. Members(closing[timer.key]) \subseteq Obj /\ timer.key \in Key
      BY <1>0, <2>0, <2>3, SeqMembers DEF TimerClosing, IInv, TablesTyped
    <3> QED
      BY <2>0, <2>1, <3>1, <3>2
  <2>4. CASE TimerDrop
    <3>1. timer' = [timer EXCEPT !.at = "rst", !.obj = None] \/ timer' = TimerIdle
      BY <2>4 DEF TimerDrop
    <3> QED
      BY <2>0, <3>1 DEF TimerRec
  <2>5. CASE TimerSendRst
    BY <2>0, <2>5 DEF TimerSendRst
  <2> QED
    BY <2>0, <2>2, <2>3, <2>4, <2>5, <1>0, TimerStateSteps DEF TimerStep
<1> QED
  BY <1>1, <1>2, <1>3 DEF Timed

-------------------------------------------------------------------------------
(* Without congestion the peer hears of nothing it was not sent.           *)

LEMMA SendStaysUnasked ==
    ASSUME WorkInv, Unasked, ~Congested, NEW op, NEW k, NEW act, Sends(op, k, act),
           op # "request" \/ k \notin PassiveKey
    PROVE  /\ txPending' = <<>> /\ txDone' = <<>>
           /\ \A j \in PassiveKey : peer'[j] # "asked"
<1>1. peer \in [Key -> PeerStates] /\ PassiveKey \subseteq Key
  BY DEF WorkInv, QueuesTyped, Key
<1>2. \A j \in PassiveKey : AfterGuest(op, k, peer)[j] # "asked"
  BY <1>1 DEF AfterGuest, Unasked
<1> QED
  BY <1>2 DEF Sends, SendDirect, SendQueued, SendFails, txVars, Unasked

LEMMA NextUnasked ==
    ASSUME CloseInv, Next, ~Congested
    PROVE  Unasked'
<1>0. IInv /\ WorkInv /\ Unasked /\ Kept(conn')
  BY NextWork DEF CloseInv, BaseInv
<1> DEFINE Quiet == /\ txPending' = <<>> /\ txDone' = <<>>
                    /\ \A j \in PassiveKey : peer'[j] # "asked"
<1>1. Quiet
  <2>1. CASE UNCHANGED txVars
    BY <1>0, <2>1 DEF Unasked, txVars
  <2>2. ASSUME NEW op \in Ops \ {"request"}, NEW k, NEW act, Sends(op, k, act)
        PROVE  Quiet
    BY <1>0, <2>2, SendStaysUnasked
  <2>3. CASE \E t \in Sock : SockStep(t)
    <3>1. PICK t \in Sock : SockStep(t)
      BY <2>3
    <3>2. CASE t \in Active /\ \E act : Sends("request", t, act)
      <4>1. t \notin PassiveKey
        BY <3>2, SpaceAssumption
      <4> QED
        BY <1>0, <3>2, <4>1, SendStaysUnasked
    <3> QED
      BY <1>0, <2>1, <2>2, <3>1, <3>2, SocketSends DEF SockSends, Sends, Ops
  <2>4. CASE RxStep
    BY <1>0, <2>1, <2>2, <2>4, RxSends DEF Ops
  <2>5. CASE TimerStep
    BY <1>0, <2>1, <2>2, <2>5, TimerWork DEF Ops
  <2>6. CASE ListenerDrop \/ DrainedReset \/ EventReset \/ \E x \in Obj : TimerFires(x)
    <3>1. UNCHANGED txVars
      BY <2>6, Zenon DEF ListenerDrop, DrainedReset, EventReset, TimerFires
    <3> QED
      BY <2>1, <3>1
  <2>7. CASE TransportReset
    BY <1>0, <2>7 DEF TransportReset, Unasked, Key
  <2>8. CASE TxDrain \/ TxApply
    <3>1. Len(txPending) = 0
      BY <1>0 DEF Unasked
    <3> QED
      BY <1>0, <2>8, <3>1 DEF TxDrain, TxApply, Unasked
  <2>9. CASE \E k \in Key : PeerStep(k)
    <3>1. PICK k \in Key, next \in {"asking", "open", "idle", "shut"} :
             peer' = [peer EXCEPT ![k] = next] /\ UNCHANGED <<txPending, txDone>>
      BY <2>9 DEF PeerStep, PeerRequest, PeerResponse, PeerRst, PeerData, PeerShutdown, PeerSends
    <3>2. peer \in [Key -> PeerStates] /\ PassiveKey \subseteq Key
      BY <1>0 DEF WorkInv, QueuesTyped, Key
    <3> QED
      BY <1>0, <3>1, <3>2 DEF Unasked
  <2> QED
    BY <2>3, <2>4, <2>5, <2>6, <2>7, <2>8, <2>9 DEF Next
<1>2. \A p \in Members(inbound') : p.op = "response" => p.key \notin PassiveKey
  <2>0. inbound \in Seq(Packet)
    BY <1>0 DEF IInv, ObjectsTyped
  <2>1. CASE inbound' = inbound
    BY <1>0, <2>1 DEF Unasked
  <2>2. CASE inbound # <<>> /\ inbound' = Tail(inbound)
    BY <1>0, <2>0, <2>2, MembersOf DEF Unasked
  <2>3. CASE \E k \in Key : PeerStep(k)
    <3>1. PICK k \in Key, op \in {"request", "response", "rst", "rw", "shutdown"},
               flags \in SUBSET Both :
             /\ op = "response" => peer[k] = "asked"
             /\ inbound' = Append(inbound, [op |-> op, key |-> k, flags |-> flags])
      BY <2>3, SpaceAssumption DEF PeerStep, PeerRequest, PeerResponse, PeerRst, PeerData,
         PeerShutdown, PeerSends, Both
    <3> DEFINE p == [op |-> op, key |-> k, flags |-> flags]
    <3>2. p \in Packet
      BY DEF Packet
    <3>3. Members(inbound') = Members(inbound) \cup {p}
      BY <2>0, <3>1, <3>2, MembersOf
    <3>4. p.op = "response" => p.key \notin PassiveKey
      BY <1>0, <3>1 DEF Unasked
    <3> HIDE DEF p
    <3> QED
      BY <1>0, <3>3, <3>4 DEF Unasked
  <2> QED
    BY <1>0, <2>1, <2>2, <2>3, InboundSteps
<1> QED
  BY <1>1, <1>2 DEF Unasked

-------------------------------------------------------------------------------
(* Who changes an accepted connection, the listener's lists and the RX     *)
(* taskless.                                                               *)

LEMMA Effects ==
    ASSUME CloseInv, Next, NEW o \in Obj, Accepted(o)
    PROVE  \/ \E s \in Sock : SockStep(s) /\ OwnerStep(s, o)
           \/ /\ conn'[o].local = conn[o].local
              /\ \/ SameTimer(o)
                 \/ Gone(o) /\ conn'[o].phase = "Reset"
                 \/ /\ RxShutdown /\ connections[conn[o].key] = o
                    /\ conn'[o].gen = conn[o].gen /\ conn'[o].ticking = conn[o].ticking
                    /\ conn'[o].phase = "Closing" \/ ~Tabled(o)'
                 \/ /\ TimerStep /\ conn'[o].phase # "Closing"
                    /\ conn[o].phase = "Closing" => ~Tabled(o)'
                 \/ TimerFires(o)
                 \/ conn'[o].phase = "Reset" /\ o \in drained.held
<1>0. IInv /\ WorkInv /\ Unasked /\ TakenInv /\ ListedInv /\ Timed
  BY DEF CloseInv, BaseInv
<1>1. CASE \E s \in Sock : SockStep(s)
  BY <1>0, <1>1, SockEffect DEF Same
<1>2. CASE RxStep
  BY <1>0, <1>2, RxEffect
<1>3. CASE TimerStep
  BY <1>0, <1>3, TimerEffect
<1>4. CASE \/ ListenerDrop \/ DrainedReset \/ TransportReset \/ EventReset
           \/ TxDrain \/ TxApply \/ \E x \in Obj : TimerFires(x)
           \/ \E k \in Key : PeerStep(k)
  BY <1>0, <1>4, OtherEffect
<1> QED
  BY <1>1, <1>2, <1>3, <1>4 DEF Next

LEMMA LocalGrows ==
    ASSUME CloseInv, Next, NEW o \in Obj, Accepted(o)
    PROVE  /\ Accepted(o)' /\ conn[o].local \subseteq conn'[o].local
           /\ Full(o) => Full(o)'
<1>0. IInv /\ ObjectsTyped
  BY DEF CloseInv, BaseInv, IInv
<1>1. Accepted(o)'
  BY <1>0, TabledFrom DEF Accepted, Used
<1>2. conn[o].local \subseteq conn'[o].local
  BY <1>0, Effects, ArmedFields, LocallyShutFields DEF OwnerStep
<1>3. conn'[o].local \subseteq Both
  BY <1>0, NextIInv DEF IInv, ObjectsTyped, ConnRec
<1> QED
  BY <1>1, <1>2, <1>3 DEF Full

LEMMA ListSteps ==
    ASSUME BaseInv, Next
    PROVE  \/ UNCHANGED <<listening, backlog, drained>>
           \/ \E s \in Sock : Accept(s)
           \/ ListenerDrop \/ DrainedReset \/ RxPush
<1>1. CASE \E s \in Sock : SockStep(s)
  <2>1. PICK s \in Sock : SockStep(s)
    BY <1>1
  <2>2. CASE \/ ConnectInsert(s) \/ Recv(s) \/ DropBegin(s)
             \/ \E dirs \in SUBSET Both : Shutdown(s, dirs)
    BY <2>2 DEF ConnectInsert, Recv, DropBegin, Shutdown, listenerVars
  <2>3. CASE CallStep(s)
    BY <2>3 DEF CallStep, ConnectRequest, SendShutdown, SendRst, ConnectArm, ConnectFinish,
       ConnectUndo, ConnectUnwrap, DropShut, DropDecide, DropTable, CloseArm, Unlist,
       Release, ArmTimer, listenerVars
  <2> QED
    BY <2>1, <2>2, <2>3 DEF SockStep
<1>2. CASE RxStep
  BY <1>2 DEF RxStep, RxRequest, RxInsert, RxUndo, RxRespond, RxUnlist, RxOnRst,
     RxRelease, RxSendRst, RxResponse, RxRst, RxShutdown, RxData, RxFrame, listenerVars
<1>3. CASE TimerStep
  BY <1>3 DEF TimerStep, TimerActive, TimerClosing, TimerDrop, TimerSendRst, TimerFrame,
     listenerVars
<1>4. CASE \/ ListenerDrop \/ DrainedReset \/ TransportReset \/ EventReset
           \/ TxDrain \/ TxApply \/ \E x \in Obj : TimerFires(x)
           \/ \E k \in Key : PeerStep(k)
  BY <1>4 DEF TransportReset, EventReset, TxDrain, TxApply, TimerFires, PeerStep, PeerRequest,
     PeerResponse, PeerRst, PeerData, PeerShutdown, PeerSends, listenerVars
<1> QED
  BY <1>1, <1>2, <1>3, <1>4 DEF Next

LEMMA RxSteps ==
    ASSUME BaseInv, Next
    PROVE  rx' = rx \/ RxStep
<1>0. IInv /\ WorkInv /\ Kept(conn')
  BY NextWork DEF BaseInv
<1> QED
  BY <1>0, SocketQueues, TimerWork, OtherWork DEF Next

\* Until somebody accepts it, a connection stays nobody's.
LEMMA AloneStays ==
    ASSUME CloseInv, Next, NEW o \in Obj, Alone(o),
           \A s \in Sock : Accept(s) => o # Head(backlog)
    PROVE  Alone(o)'
<1>0. IInv /\ WorkInv /\ BaseInv /\ Accepted(o) /\ Used(o)
  BY DEF CloseInv, BaseInv, Alone, Accepted
<1>1. ASSUME NEW s \in Sock, OwnerStep(s, o)
      PROVE  FALSE
  <2>1. Busy(s) /\ own[s] = o
    BY <1>1 DEF OwnerStep, Busy, AtRest, CloseArm, DropBegin, DropShut, Shutdown
  <2> QED
    BY <2>1 DEF Alone
<1>2. Accepted(o)' /\ ~Full(o)'
  BY <1>0, <1>1, LocalGrows, Effects DEF Alone, Full
<1>3. ASSUME NEW s \in Sock, own'[s] = o, Busy(s)'
      PROVE  FALSE
  <2>1. SockStep(s)
    <3> SUFFICES ASSUME own'[s] = own[s], pc'[s] = pc[s]
                 PROVE  FALSE
      BY <1>0, CallFrame
    <3> QED
      BY <1>3 DEF Alone, Busy
  <2>2. own[s] # o \/ ~Busy(s)
    BY DEF Alone
  <2>3. own \in [Sock -> Obj \cup {None}] /\ None # o
    BY <1>0, SpaceAssumption DEF WorkInv, CallsTyped
  <2>4. CASE ConnectInsert(s)
    <3>1. PICK x \in Fresh : own' = [own EXCEPT ![s] = x]
      BY <2>4 DEF ConnectInsert
    <3> QED
      BY <1>0, <1>3, <2>3, <3>1 DEF Fresh, Used
  <2>5. CASE Accept(s)
    BY <1>3, <2>3, <2>5 DEF Accept
  <2>6. CASE \/ Recv(s) \/ DropBegin(s) \/ (\E dirs \in SUBSET Both : Shutdown(s, dirs))
             \/ CallStep(s)
    <3>1. Busy(s)
      BY <2>6 DEF Recv, DropBegin, Shutdown, CallStep, ConnectRequest, ConnectArm, ConnectFinish,
                  ConnectUndo, ConnectUnwrap, DropShut, DropDecide, DropTable, SendShutdown,
                  CloseArm, Unlist, SendRst, Release, Busy, AtRest
    <3>2. own' = own \/ own' = [own EXCEPT ![s] = None]
      BY <2>6 DEF Recv, DropBegin, Shutdown, CallStep, ConnectRequest, ConnectArm, ConnectFinish,
                  ConnectUndo, ConnectUnwrap, DropShut, DropDecide, DropTable, SendShutdown,
                  CloseArm, Unlist, SendRst, Release, ArmTimer, sockVars
    <3> QED
      BY <1>3, <2>2, <2>3, <3>1, <3>2
  <2> QED
    BY <2>1, <2>4, <2>5, <2>6 DEF SockStep
<1> QED
  BY <1>2, <1>3 DEF Alone

\* While nobody owns it, only a SHUTDOWN of the peer starts to close it, and only an
\* active one.
LEMMA StaysOpen ==
    ASSUME CloseInv, Next, NEW o \in Obj, Alone(o), conn[o].phase # "Closing",
           rx.at # "idle" \/ connections[conn[o].key] # o
    PROVE  conn'[o].phase # "Closing"
<1>0. IInv /\ Accepted(o)
  BY DEF CloseInv, BaseInv, Alone
<1>1. ASSUME NEW s \in Sock, OwnerStep(s, o)
      PROVE  FALSE
  <2>1. Busy(s) /\ own[s] = o
    BY <1>1 DEF OwnerStep, Busy, AtRest, CloseArm, DropBegin, DropShut, Shutdown
  <2> QED
    BY <2>1 DEF Alone
<1>2. RxShutdown => rx.at = "idle"
  BY DEF RxShutdown, RxTakes
<1>3. TimerFires(o) => conn'[o].phase = conn[o].phase
  BY <1>0 DEF TimerFires, IInv, ObjectsTyped, ConnRec
<1> QED
  BY <1>0, <1>1, <1>2, <1>3, Effects DEF SameTimer

LEMMA TailDistinct ==
    ASSUME NEW q \in Seq(Obj), q # <<>>, Distinct(q)
    PROVE  Distinct(Tail(q)) /\ Head(q) \notin Members(Tail(q))
<1> DEFINE r == Tail(q)
<1>1. /\ Len(q) \in Nat /\ DOMAIN q = 1..Len(q) /\ Len(q) >= 1 /\ Head(q) = q[1]
      /\ Len(r) = Len(q) - 1 /\ DOMAIN r = 1..Len(r)
      /\ \A i \in 1..Len(r) : r[i] = q[i + 1]
  BY LenProperties, HeadTailProperties, EmptySeq
<1> HIDE DEF r
<1>2. \A i \in DOMAIN r : i + 1 \in DOMAIN q /\ i + 1 # 1 /\ r[i] = q[i + 1]
  BY <1>1
<1>3. Distinct(r)
  BY <1>1, <1>2 DEF Distinct
<1>4. Head(q) \notin Members(r)
  BY <1>1, <1>2 DEF Distinct, Members
<1> QED
  BY <1>3, <1>4 DEF r

\* What the lists hold comes from them, or from the RX taskless.
LEMMA ListedFrom ==
    ASSUME CloseInv, Next
    PROVE  /\ drained' \in [held : SUBSET Obj, current : Obj \cup {None}]
           /\ Distinct(backlog)'
           /\ listening' => drained'.held = {}
           /\ Listed' \subseteq Listed \cup {o \in {rx.obj} : RxPush /\ Room}
           /\ \A s \in Sock : Accept(s) => Head(backlog) \in Listed /\ Head(backlog) \notin Listed'
           /\ drained'.held \subseteq drained.held \/ (ListenerDrop /\ drained'.held = Members(backlog))
           /\ drained'.current \in Obj =>
                \/ drained'.current = drained.current
                \/ conn'[drained'.current].phase = "Reset"
<1>0. /\ IInv /\ WorkInv /\ BaseInv /\ ListedInv /\ PendingInv /\ backlog \in Seq(Obj)
      /\ drained \in [held : SUBSET Obj, current : Obj \cup {None}] /\ ObjectsTyped
      /\ Members(backlog) \subseteq Obj /\ None \notin Obj
  BY MembersOf, SpaceAssumption DEF CloseInv, BaseInv, WorkInv, QueuesTyped, ListedInv, IInv
<1>1. CASE UNCHANGED <<listening, backlog, drained>>
  <2>1. \A s \in Sock : ~Accept(s)
    <3> SUFFICES ASSUME NEW s \in Sock, Accept(s) PROVE FALSE
      OBVIOUS
    <3>1. backlog # <<>> /\ backlog' = Tail(backlog) /\ backlog' = backlog
      BY <1>1 DEF Accept
    <3> QED
      BY <1>0, <3>1, HeadTailProperties, LenProperties
  <2> QED
    BY <1>0, <1>1, <2>1 DEF ListedInv, Listed, Distinct, Members
<1>2. ASSUME NEW s \in Sock, Accept(s)
      PROVE  /\ UNCHANGED <<drained, listening>> /\ listening /\ Distinct(backlog)'
             /\ Members(backlog') \subseteq Members(backlog)
             /\ Head(backlog) \in Members(backlog) /\ Head(backlog) \notin Members(backlog')
  <2>1. /\ UNCHANGED <<drained, listening>> /\ listening /\ backlog # <<>>
        /\ backlog' = Tail(backlog)
    BY <1>2 DEF Accept
  <2>2. Distinct(Tail(backlog)) /\ Head(backlog) \notin Members(Tail(backlog))
    BY <1>0, <2>1, TailDistinct DEF ListedInv
  <2> QED
    BY <1>0, <2>1, <2>2, MembersOf DEF Distinct, Members
<1>3. CASE \E s \in Sock : Accept(s)
  BY <1>0, <1>2, <1>3 DEF ListedInv, Listed
<1>4. \A s \in Sock : Accept(s) => UNCHANGED drained /\ rx' = rx
  BY DEF Accept
<1>5. CASE ListenerDrop
  <2>1. /\ listening' = FALSE /\ backlog' = <<>> /\ drained' = Resetting(Members(backlog))
        /\ Members(<<>>) = {} /\ Distinct(<<>>)
    BY <1>5 DEF ListenerDrop, Members, Distinct
  <2>2. Listed' = Members(backlog) /\ drained'.held = Members(backlog) /\ drained'.current = None
    BY <2>1 DEF Listed, Resetting
  <2>3. ASSUME NEW s \in Sock, Accept(s) PROVE FALSE
    <3>1. pc' = [pc EXCEPT ![s] = "connected"] /\ pc[s] = "init" /\ pc' = pc
      BY <1>5, <2>3 DEF Accept, ListenerDrop, Goto, sockVars
    <3> QED
      BY <1>0, <3>1 DEF WorkInv, CallsTyped
  <2> QED
    BY <1>0, <1>5, <2>1, <2>2, <2>3 DEF Resetting, Listed, Distinct, Members
<1>6. CASE DrainedReset
  <2>1. UNCHANGED <<listening, backlog, pc>>
    BY <1>6 DEF DrainedReset, sockVars
  <2>2. \/ \E o \in drained.held : conn' = WithRst(o) /\ drained' = [drained EXCEPT !.current = o]
        \/ drained' = Resetting(drained.held \ {drained.current})
    BY <1>6 DEF DrainedReset, AfterReset
  <2>3. /\ drained' \in [held : SUBSET Obj, current : Obj \cup {None}]
        /\ drained'.held \subseteq drained.held
    BY <1>0, <2>2 DEF Resetting
  <2>4. drained'.current \in Obj => conn'[drained'.current].phase = "Reset"
    <3>1. \A o \in Obj : WithRst(o)[o].phase = "Reset"
      BY <1>0 DEF ObjectsTyped, ConnRec, WithRst
    <3> QED
      BY <1>0, <2>2, <3>1 DEF Resetting
  <2>5. ASSUME NEW s \in Sock, Accept(s) PROVE FALSE
    <3>1. pc' = [pc EXCEPT ![s] = "connected"] /\ pc[s] = "init" /\ pc' = pc
      BY <2>1, <2>5 DEF Accept, Goto
    <3> QED
      BY <1>0, <3>1 DEF WorkInv, CallsTyped
  <2> QED
    BY <1>0, <2>1, <2>3, <2>4, <2>5 DEF ListedInv, Listed, Distinct, Members
<1>7. CASE RxPush
  <2>1. /\ UNCHANGED <<listening, drained, pc>> /\ rx.at = "push"
        /\ backlog' = IF Room THEN Append(backlog, rx.obj) ELSE backlog
    BY <1>7 DEF RxPush, RxAt, sockVars
  <2>2. rx.obj \in Obj /\ rx.obj \notin Members(backlog)
    BY <1>0, <2>1 DEF WorkInv, AcceptsPassive, Valid, PendingInv, Handles, Listed
  <2>3. /\ Distinct(backlog)'
        /\ Members(backlog') = Members(backlog) \cup {o \in {rx.obj} : Room}
    <3>1. CASE Room
      <4>1. Distinct(Append(backlog, rx.obj))
        BY <1>0, <2>2, SeqMembers DEF ListedInv
      <4>2. backlog' = Append(backlog, rx.obj)
        BY <2>1, <3>1
      <4>3. Members(Append(backlog, rx.obj)) = Members(backlog) \cup {rx.obj}
        BY <1>0, <2>2, MembersOf
      <4> QED
        BY <3>1, <4>1, <4>2, <4>3 DEF Distinct, Members
    <3>2. CASE ~Room
      BY <1>0, <2>1, <3>2 DEF ListedInv, Distinct, Members
    <3> QED
      BY <3>1, <3>2
  <2>4. ASSUME NEW s \in Sock, Accept(s) PROVE FALSE
    <3>1. pc' = [pc EXCEPT ![s] = "connected"] /\ pc[s] = "init" /\ pc' = pc
      BY <2>1, <2>4 DEF Accept, Goto
    <3> QED
      BY <1>0, <3>1 DEF WorkInv, CallsTyped
  <2> QED
    BY <1>0, <1>7, <2>1, <2>3, <2>4 DEF ListedInv, Listed, Members
<1> QED
  BY <1>0, <1>1, <1>3, <1>5, <1>6, <1>7, ListSteps

LEMMA NextListed ==
    ASSUME CloseInv, Next
    PROVE  ListedInv'
<1>0. IInv /\ WorkInv /\ BaseInv /\ ListedInv /\ PendingInv /\ ObjectsTyped
  BY DEF CloseInv, BaseInv, IInv
<1>1. ASSUME NEW o \in Listed'
      PROVE  /\ Alone(o) /\ Alone(o)' /\ o \in Obj
             /\ o \in Listed \/ (rx.at = "push" /\ o = rx.obj)
  <2>1. o \in Listed \/ (rx.at = "push" /\ o = rx.obj)
    BY <1>1, ListedFrom DEF RxPush, RxAt
  <2>2. Alone(o) /\ o \in Obj
    <3>1. Listed \subseteq Obj
      BY <1>0, MembersOf DEF Listed, ListedInv, WorkInv, QueuesTyped
    <3>2. rx.at = "push" => rx.obj \in Obj
      BY <1>0 DEF WorkInv, AcceptsPassive, Valid
    <3> QED
      BY <1>0, <2>1, <3>1, <3>2 DEF ListedInv, PendingInv, Handles
  <2>3. \A s \in Sock : Accept(s) => o # Head(backlog)
    BY <1>1, ListedFrom
  <2> QED
    BY <2>1, <2>2, <2>3, AloneStays
<1>2. ASSUME NEW o \in drained'.held
      PROVE  LeftActive(o)' /\ (drained'.current = o => conn'[o].phase # "Closing")
  <2>0. o \in Listed' /\ Alone(o) /\ o \in Obj
    BY <1>1, <1>2 DEF Listed
  <2>1. LeftActive(o)'
    <3>1. CASE o \in drained.held
      BY <1>0, <2>0, <3>1, LeftActiveStays DEF ListedInv
    <3>2. CASE o \notin drained.held
      <4>1. ListenerDrop /\ o \in Members(backlog) /\ o \in Listed
        BY <1>2, <3>2, ListedFrom DEF Listed
      <4>2. /\ connections' = [k \in Key |-> IF \E p \in Members(backlog) : conn[p].key = k
                                             THEN None ELSE connections[k]]
            /\ conn' = conn /\ rx' = rx
        BY <4>1 DEF ListenerDrop
      <4>3. \A k \in Key : connections'[k] # o
        <5> SUFFICES ASSUME NEW k \in Key, connections'[k] = o PROVE FALSE
          OBVIOUS
        <5>1. connections[k] = o /\ conn[o].key # k
          BY <2>0, <4>1, <4>2, SpaceAssumption
        <5> QED
          BY <1>0, <2>0, <5>1 DEF IInv, Placed
      <4>4. ~(rx.at = "insert" /\ rx.obj = o)
        BY <1>0, <4>1 DEF PendingInv, Handles
      <4> QED
        BY <2>0, <4>2, <4>3, <4>4 DEF LeftActive, Alone, Accepted, Used
    <3> QED
      BY <3>1, <3>2
  <2>2. ASSUME drained'.current = o PROVE conn'[o].phase # "Closing"
    <3>1. CASE drained.current = o /\ o \in drained.held
      <4>1. conn[o].phase # "Closing" /\ LeftActive(o)
        BY <1>0, <3>1 DEF ListedInv
      <4>2. conn[o].key \in Key
        BY <2>0 DEF Alone, Accepted, Key
      <4> QED
        BY <2>0, <4>1, <4>2, StaysOpen DEF LeftActive
    <3>2. CASE o \notin drained.held
      <4>1. ListenerDrop
        BY <1>2, <3>2, ListedFrom
      <4>2. drained'.current = None
        BY <4>1 DEF ListenerDrop, Resetting
      <4> QED
        BY <2>0, <2>2, <4>2, SpaceAssumption
    <3> QED
      BY <2>0, <2>2, <3>1, <3>2, ListedFrom
  <2> QED
    BY <2>1, <2>2
<1>3. \A o \in Listed' : Alone(o)'
  BY <1>1
<1> QED
  BY <1>2, <1>3, ListedFrom DEF ListedInv

\* How the RX taskless goes on when it neither makes a connection nor takes one.
LEMMA RxGoesOn ==
    ASSUME RxStep
    PROVE  \/ RxRequest \/ RxInsert \/ RxPush \/ RxUnlist \/ RxRst \/ RxData
           \/ rx' = rx \/ rx'.at \in {"idle", "rst", "unlist", "release"}
<1>1. CASE RxUndo \/ RxRespond
  BY <1>1 DEF RxUndo, RxRespond, RxGoes, RxIdle
<1>2. CASE RxOnRst \/ RxRelease \/ RxSendRst
  BY <1>2 DEF RxOnRst, RxRelease, RxSendRst, RxGoes, RxIdle
<1>3. CASE RxResponse
  BY <1>3 DEF RxResponse
<1>4. CASE RxShutdown
  <2>1. rx' = rx \/ \E k : RxGoes("rst", k, None, FALSE)
    BY <1>4, Zenon DEF RxShutdown
  <2> QED
    BY <2>1 DEF RxGoes
<1> QED
  BY <1>1, <1>2, <1>3, <1>4 DEF RxStep

\* What the RX taskless handles before the listener has it.
LEMMA PendingFrom ==
    ASSUME CloseInv, Next, rx'.at \in Handles
    PROVE  \/ /\ rx.at \in Handles /\ rx'.obj = rx.obj /\ rx'.key = rx.key
              /\ RxPush => ~Room
           \/ RxRequest /\ rx'.at = "insert" /\ rx'.obj \in Fresh /\ Makes(rx'.obj)
              /\ rx'.key \in PassiveKey
<1>0. BaseInv /\ IInv
  BY DEF CloseInv, BaseInv
<1>1. CASE rx' = rx
  BY <1>1 DEF RxPush, RxAt, RxGoes
<1>2. CASE RxStep /\ rx' # rx
  <2>1. CASE RxRequest
    <3> DEFINE k == Head(inbound).key
    <3>1. k \in PassiveKey /\ listening
      BY <2>1 DEF RxRequest, RxGoes, Handles
    <3>2. PICK x \in Fresh : /\ conn' = [conn EXCEPT ![x] = NewConn(k, "Connected")]
                             /\ rx'.at = "insert" /\ rx'.key = k /\ rx'.obj = x
      BY <2>1, <3>1 DEF RxRequest, RxGoes
    <3>3. UNCHANGED <<own, pc, listenerVars>> /\ generation' = generation
      BY <2>1 DEF RxRequest, RxFrame, sockVars
    <3> QED
      BY <2>1, <3>1, <3>2, <3>3 DEF Makes, Key
  <2>2. CASE RxInsert \/ RxPush
    BY <2>2 DEF RxInsert, RxPush, RxAt, RxGoes, Handles
  <2>3. CASE RxUnlist \/ RxRst \/ RxData
    <3>1. rx' = rx \/ \E k, o, r : RxGoes("onRst", k, o, r) \/ RxGoes("rst", k, o, r)
      BY <2>3, Zenon DEF RxUnlist, RxRst, RxData
    <3> QED
      BY <1>2, <3>1 DEF RxGoes, Handles
  <2> QED
    BY <1>2, <2>1, <2>2, <2>3, RxGoesOn DEF Handles
<1> QED
  BY <1>0, <1>1, <1>2, RxSteps

\* A connection made this instant is nobody's.
LEMMA MadeAlone ==
    ASSUME CloseInv, Next, NEW o \in Obj, ~Used(o), Accepted(o)'
    PROVE  Alone(o)' /\ o \notin Listed' /\ conn'[o].phase # "Closing"
<1>0. WorkInv /\ ListedInv
  BY DEF CloseInv, BaseInv
<1>1. /\ conn'[o].local = {} /\ conn'[o].phase = "Connected" /\ UNCHANGED <<own, pc, listenerVars>>
  BY AcceptedFrom DEF Accepted
<1>2. \A s \in Sock : own[s] = o => ~Busy(s)
  BY <1>0 DEF WorkInv, OwnsItsKey, Valid
<1>3. o \notin Listed
  BY <1>0 DEF ListedInv, Alone, Accepted
<1> QED
  BY <1>1, <1>2, <1>3 DEF Alone, Full, Both, Busy, Listed, Members, listenerVars

LEMMA NextPending ==
    ASSUME CloseInv, Next
    PROVE  PendingInv'
<1> SUFFICES ASSUME rx'.at \in Handles, NEW o, o = rx'.obj
             PROVE  /\ Alone(o)' /\ o \notin Listed'
                    /\ conn'[o].phase # "Closing" /\ conn'[o].key = rx'.key
  BY DEF PendingInv, Alone, Accepted, Used, Full, Listed
<1>0. IInv /\ WorkInv /\ PendingInv
  BY DEF CloseInv, BaseInv
<1>1. CASE /\ rx.at \in Handles /\ rx'.obj = rx.obj /\ rx'.key = rx.key
           /\ RxPush => ~Room
  <2>1. o \in Obj /\ Alone(o) /\ o \notin Listed
        /\ conn[o].phase # "Closing" /\ conn[o].key = rx.key
    BY <1>0, <1>1 DEF PendingInv, WorkInv, AcceptsPassive, Valid, Handles
  <2>2. \A s \in Sock : Accept(s) => o # Head(backlog)
    BY <2>1, ListedFrom
  <2>3. Alone(o)' /\ conn'[o].phase # "Closing"
    BY <1>1, <2>1, <2>2, AloneStays, StaysOpen DEF Handles
  <2>4. o \notin Listed'
    BY <1>1, <2>1, ListedFrom
  <2>5. conn'[o].key = rx.key
    BY <1>0, <2>1, TabledFrom DEF Alone, Accepted
  <2> QED
    BY <1>1, <2>3, <2>4, <2>5
<1>2. CASE RxRequest /\ rx'.at = "insert" /\ rx'.obj \in Fresh /\ Makes(rx'.obj)
           /\ rx'.key \in PassiveKey
  <2>1. o \in Obj /\ ~Used(o)
    BY <1>2 DEF Fresh, Used
  <2>2. conn'[o].phase # "unused" /\ conn'[o].key = rx'.key
    BY <1>0, <1>2, NextIInv DEF IInv, InsertIsNew, Used
  <2> QED
    BY <1>2, <2>1, <2>2, MadeAlone DEF Accepted, Used
<1> QED
  BY <1>1, <1>2, PendingFrom

\* A drop that shut both directions, and one that removes.
LEMMA NextDrops ==
    ASSUME CloseInv, Next
    PROVE  DropsInv'
<1>0. IInv /\ ObjectsTyped /\ WorkInv /\ BaseInv /\ DropsInv /\ PlansTyped
      /\ pc \in [Sock -> SockSteps] /\ own \in [Sock -> Obj \cup {None}]
  BY DEF CloseInv, BaseInv, IInv, WorkInv, CallsTyped
<1> SUFFICES ASSUME NEW s \in Passive,
                    pc'[s] = "dropDecide" \/ (pc'[s] = "dropTable" /\ plan'[s].table # "Remove")
             PROVE  conn'[own'[s]].local = Both
  BY DEF DropsInv, Full
<1>1. s \in Sock /\ s \notin Active
  BY SpaceAssumption DEF Sock
<1>2. ASSUME Busy(s)
      PROVE  own[s] \in Obj /\ (Full(own[s]) => conn'[own[s]].local = Both)
  <2>1. own[s] \in Obj /\ Accepted(own[s])
    BY <1>0, <1>1, <1>2 DEF WorkInv, OwnsItsKey, Valid, KeysOf, Accepted
  <2>2. ASSUME NEW o \in Obj, Accepted(o), Full(o)
        PROVE  conn'[o].local = Both
    BY <2>2, LocalGrows DEF Full
  <2> QED
    BY <2>1, <2>2
<1>3. CASE own'[s] = own[s] /\ pc'[s] = pc[s] /\ plan'[s] = plan[s]
  <2>1. Full(own[s]) /\ Busy(s)
    BY <1>0, <1>3 DEF DropsInv, Busy, AtRest
  <2> QED
    BY <1>2, <1>3, <2>1
<1>4. CASE SockStep(s)
  <2>1. PassiveStep(s)
    BY <1>0, <1>1, <1>4, CallsOfPassive
  <2>2. CASE DropShut(s)
    <3>1. conn' = LocallyShut(own[s], Both) /\ own' = own /\ Busy(s)
      BY <2>2 DEF DropShut, Busy, AtRest
    <3>2. own[s] \in Obj
      BY <1>2, <3>1
    <3>3. conn'[own[s]].local = conn[own[s]].local \cup Both
      BY <1>0, <3>1, <3>2, LocallyShutFields
    <3>4. conn[own[s]].local \subseteq Both
      BY <1>0, <3>2 DEF ObjectsTyped, ConnRec
    <3> QED
      BY <3>1, <3>3, <3>4
  <2>3. CASE DropDecide(s)
    <3>1. own' = own /\ Busy(s) /\ pc[s] = "dropDecide"
      BY <2>3 DEF DropDecide, Busy, AtRest
    <3>2. Full(own[s])
      BY <1>0, <3>1 DEF DropsInv
    <3> QED
      BY <1>2, <3>1, <3>2
  <2>4. CASE DropBegin(s)
    <3>1. /\ pc'[s] \in {"dropShut", "dropTable"}
          /\ plan'[s].table = "Remove"
      BY <1>0, <1>1, <2>4 DEF DropBegin, Goto, PlansTyped, NoPlan
    <3> QED
      BY <3>1
  <2>5. CASE Accept(s) \/ Recv(s) \/ \E dirs \in SUBSET Both : Shutdown(s, dirs)
    <3>1. pc'[s] \in {"connected", "sendShutdown"}
      BY <1>0, <1>1, <2>5 DEF Accept, Recv, Shutdown, Goto, sockVars
    <3> QED
      BY <3>1
  <2>6. CASE DropTable(s) \/ SendShutdown(s) \/ CloseArm(s) \/ Unlist(s) \/ SendRst(s) \/ Release(s)
    <3>1. pc'[s] \notin {"dropDecide", "dropTable"}
      BY <1>0, <1>1, <2>6 DEF DropTable, SendShutdown, CloseArm, Unlist, SendRst, Release, Goto,
         Done, AfterShutdown
    <3> QED
      BY <3>1
  <2> QED
    BY <2>1, <2>2, <2>3, <2>4, <2>5, <2>6 DEF PassiveStep
<1> QED
  BY <1>0, <1>1, <1>3, <1>4, CallFrame

\* The bottom halves reset what has left the tables.
LEMMA NextTaken ==
    ASSUME CloseInv, Next
    PROVE  TakenInv'
<1>0. /\ IInv /\ WorkInv /\ BaseInv /\ TakenInv /\ EventTyped /\ ObjectsTyped
      /\ None \notin Obj
  BY SpaceAssumption DEF CloseInv, BaseInv, IInv
<1>1. ASSUME NEW o \in event'.held
      PROVE  Gone(o)'
  <2>1. CASE o \in event.held
    <3>1. o \in Obj /\ Gone(o)
      BY <1>0, <2>1 DEF TakenInv, EventTyped
    <3> QED
      BY <1>0, <3>1, GoneStays
  <2>2. CASE o \notin event.held
    <3>1. event' # event
      BY <1>1, <2>2
    <3>2. ~EventReset
      <4> SUFFICES ASSUME EventReset PROVE FALSE
        OBVIOUS
      <4>1. \/ \E x \in event.held : event' = [event EXCEPT !.current = x]
            \/ event' = Resetting(event.held \ {event.current})
        BY DEF EventReset, AfterReset
      <4> QED
        BY <1>0, <1>1, <2>2, <4>1 DEF EventTyped, Resetting
    <3>3. TransportReset
      BY <1>0, <3>1, <3>2, EventSteps
    <3>4. /\ event'.held = {x \in Obj : Tabled(x)} /\ conn' = conn /\ rx' = rx
          /\ connections' = [k \in Key |-> None] /\ closing' = [k \in Key |-> <<>>]
      BY <3>3 DEF TransportReset, Resetting
    <3>5. o \in Obj /\ Tabled(o)
      BY <1>1, <3>4
    <3>6. Used(o) /\ ~(rx.at = "insert" /\ rx.obj = o)
      BY <1>0, <3>5 DEF Tabled, IInv, Placed, InsertIsNew
    <3> QED
      BY <1>0, <3>4, <3>5, <3>6 DEF Gone, Used, Tabled, Members
  <2> QED
    BY <2>1, <2>2
<1>2. ASSUME rx'.at = "onRst", NEW o, rx'.obj = o
      PROVE  o \in Obj /\ Gone(o)'
  <2>0. ASSUME o \in Obj, Used(o), ~Tabled(o)'
        PROVE  o \in Obj /\ Gone(o)'
    <3>1. Used(o)'
      BY <1>0, <2>0, TabledFrom DEF Used
    <3> QED
      BY <1>2, <2>0, <3>1 DEF Gone
  <2>1. CASE rx' = rx
    <3>1. o \in Obj /\ Gone(o)
      BY <1>0, <1>2, <2>1 DEF TakenInv
    <3> QED
      BY <1>0, <3>1, GoneStays
  <2>2. CASE RxUnlist
    <3>1. /\ o \in Obj /\ Used(o) /\ conn[o].key \in Key
          /\ RemoveInstance(o)
      BY <1>0, <1>2, <2>2 DEF RxUnlist, RxAt, RxGoes, WorkInv, AcceptsPassive, Valid, Key
    <3> QED
      BY <1>0, <2>0, <3>1, InstanceRemoved
  <2>3. CASE RxRst /\ rx' # rx
    <3> DEFINE k == Head(inbound).key
    <3>1. /\ o # None /\ connections' = WithoutActive(k)
          /\ o = IF connections[k] # None THEN connections[k]
                 ELSE IF Len(closing[k]) = 1 THEN closing[k][1] ELSE None
          /\ closing' = IF connections[k] = None /\ o # None
                        THEN [closing EXCEPT ![k] = <<>>] ELSE closing
      BY <1>2, <2>3 DEF RxRst, RxGoes
    <3>2. k \in Key
      BY <1>0, <2>3, RxTakesType DEF RxRst, Packet
    <3>3. /\ closing[k] \in Seq(Obj) /\ connections[k] \in Obj \cup {None}
          /\ closing \in [Key -> Seq(Obj)] /\ connections \in [Key -> Obj \cup {None}]
      BY <1>0, <3>2 DEF IInv, TablesTyped
    <3> HIDE DEF k
    <3>4. Len(closing[k]) = 1 => closing[k][1] \in Members(closing[k])
      BY <3>3 DEF Members
    <3>5. o \in Obj /\ (connections[k] = o \/ (connections[k] = None /\ o \in Members(closing[k])))
      BY <3>1, <3>3, <3>4, SeqMembers
    <3>6. Used(o) /\ conn[o].key = k /\ (connections[k] = o => o \notin Members(closing[k]))
      BY <1>0, <3>2, <3>5 DEF IInv, Placed, Once
    <3>7. connections'[k] # o /\ o \notin Members(closing'[k])
      <4>1. CASE connections[k] = o
        BY <1>0, <3>1, <3>2, <3>3, <3>5, <3>6, <4>1 DEF WithoutActive
      <4>2. CASE connections[k] = None
        <5>1. closing'[k] = <<>> /\ connections'[k] = None
          BY <3>1, <3>2, <3>3, <4>2 DEF WithoutActive
        <5> QED
          BY <1>0, <3>5, <5>1 DEF Members
      <4> QED
        BY <3>5, <4>1, <4>2
    <3>8. ~Tabled(o)'
      BY <1>0, <3>5, <3>6, <3>7, RemovedGone
    <3> QED
      BY <2>0, <3>5, <3>6, <3>8
  <2>4. CASE RxData /\ rx' # rx
    <3> DEFINE k == Head(inbound).key
    <3>1. o # None /\ o = connections[k] /\ connections' = WithoutActive(k) /\ closing' = closing
      BY <1>2, <2>4 DEF RxData, RxGoes
    <3>2. k \in Key
      BY <1>0, <2>4, RxTakesType DEF RxData, Packet
    <3>3. o \in Obj /\ Used(o) /\ conn[o].key = k /\ o \notin Members(closing[k])
          /\ connections \in [Key -> Obj \cup {None}]
      BY <1>0, <3>1, <3>2 DEF IInv, TablesTyped, Placed, Once
    <3>4. connections'[k] # o /\ o \notin Members(closing'[k])
      BY <1>0, <3>1, <3>2, <3>3 DEF WithoutActive
    <3> HIDE DEF k
    <3>5. ~Tabled(o)'
      BY <1>0, <3>3, <3>4, RemovedGone
    <3> QED
      BY <2>0, <3>3, <3>5
  <2>5. CASE RxRequest \/ RxInsert \/ RxPush
    BY <1>2, <2>5 DEF RxRequest, RxInsert, RxPush, RxGoes
  <2> QED
    BY <1>0, <1>2, <2>1, <2>2, <2>3, <2>4, <2>5, RxSteps, RxGoesOn
<1> QED
  BY <1>1, <1>2 DEF TakenInv, Gone, Used, Tabled

-------------------------------------------------------------------------------
(* What is to remove a connection does not get lost.                       *)

\* A socket inside a call on an accepted connection.
LEMMA OwnerCalls ==
    ASSUME CloseInv, NEW s \in Sock, NEW o \in Obj, Accepted(o), own[s] = o, Busy(s)
    PROVE  /\ s \in Passive /\ (SockStep(s) => PassiveStep(s))
           /\ conn[o].key \in Key /\ Used(o)
<1>1. WorkInv
  BY DEF CloseInv, BaseInv
<1> QED
  BY <1>1, OwnerIsPassive, CallsOfPassive DEF Accepted, Key

LEMMA RemovingStep ==
    ASSUME CloseInv, Next, AllSent, NEW s \in Sock, NEW o \in Obj, Accepted(o), own[s] = o,
           Removing(s), Tabled(o)'
    PROVE  own'[s] = o /\ Removing(s)'
<1>0. /\ IInv /\ WorkInv /\ BaseInv /\ pc \in [Sock -> SockSteps] /\ plan \in [Sock -> PlanRec]
  BY DEF CloseInv, BaseInv, WorkInv, CallsTyped, PlansTyped
<1>1. CASE own'[s] = own[s] /\ pc'[s] = pc[s] /\ plan'[s] = plan[s]
  BY <1>1 DEF Removing
<1>2. CASE SockStep(s)
  <2>1. Busy(s)
    BY DEF Removing, Busy, AtRest
  <2>2. PassiveStep(s) /\ conn[o].key \in Key /\ Used(o)
    BY <1>2, <2>1, OwnerCalls
  <2>3. pc[s] \in {"sendShutdown", "armClose", "unlist", "dropDecide", "dropTable"}
        /\ plan[s].rst
    BY DEF Removing
  <2>4. ~RemoveInstance(o)
    BY <1>0, <2>2, InstanceRemoved
  <2>5. CASE SendShutdown(s)
    <3>1. pc[s] = "sendShutdown" /\ UNCHANGED <<own, plan>> /\ ~plan[s].drop
      BY <2>5 DEF SendShutdown, Removing
    <3>2. pc'[s] = "armClose" \/ pc'[s] = AfterShutdown(s)
      BY <1>0, <2>5 DEF SendShutdown, Goto, SendQueued, SendFails, AllSent
    <3> QED
      BY <2>3, <3>1, <3>2 DEF AfterShutdown, Removing
  <2>6. CASE CloseArm(s)
    <3>1. UNCHANGED <<own, plan>> /\ ~plan[s].drop /\ pc'[s] = AfterShutdown(s)
      BY <1>0, <2>6 DEF CloseArm, ArmTimer, Removing, Goto
    <3> QED
      BY <2>3, <3>1 DEF AfterShutdown, Removing
  <2>7. CASE Unlist(s)
    BY <2>4, <2>7 DEF Unlist
  <2>8. CASE DropDecide(s)
    <3>1. /\ own' = own /\ pc'[s] = "dropTable"
          /\ plan' = [plan EXCEPT ![s].table = "Remove"]
      BY <1>0, <2>3, <2>8 DEF DropDecide, Goto
    <3>2. plan'[s].table = "Remove" /\ plan'[s].rst = plan[s].rst
      BY <1>0, <3>1 DEF PlanRec
    <3> QED
      BY <2>3, <3>1, <3>2 DEF Removing
  <2>9. CASE DropTable(s)
    BY <2>4, <2>9 DEF DropTable, Removing
  <2>10. CASE \/ Accept(s) \/ Recv(s) \/ DropBegin(s) \/ (\E dirs \in SUBSET Both : Shutdown(s, dirs))
              \/ DropShut(s) \/ SendRst(s) \/ Release(s)
    BY <2>3, <2>10 DEF Accept, Recv, DropBegin, Shutdown, DropShut, SendRst, Release
  <2> QED
    BY <2>2, <2>5, <2>6, <2>7, <2>8, <2>9, <2>10 DEF PassiveStep
<1> QED
  BY <1>0, <1>1, <1>2, CallFrame

LEMMA ArmingStep ==
    ASSUME CloseInv, Next, AllSent, NEW s \in Sock, NEW o \in Obj, Accepted(o), own[s] = o,
           Arming(s)
    PROVE  \/ own'[s] = o /\ Arming(s)'
           \/ /\ conn' = Armed(o) /\ conn'[o].phase = conn[o].phase
              /\ conn'[o].gen # 0 /\ conn'[o].ticking
<1>0. /\ IInv /\ WorkInv /\ BaseInv /\ pc \in [Sock -> SockSteps] /\ plan \in [Sock -> PlanRec]
      /\ ObjectsTyped
  BY DEF CloseInv, BaseInv, WorkInv, CallsTyped, PlansTyped, IInv
<1>1. CASE own'[s] = own[s] /\ pc'[s] = pc[s] /\ plan'[s] = plan[s]
  BY <1>1 DEF Arming
<1>2. CASE SockStep(s)
  <2>1. Busy(s)
    BY DEF Arming, Busy, AtRest
  <2>2. PassiveStep(s)
    BY <1>2, <2>1, OwnerCalls
  <2>3. pc[s] \in {"sendShutdown", "armClose", "dropDecide", "dropTable"} /\ plan[s].arm
    BY DEF Arming
  <2>5. CASE SendShutdown(s)
    <3>1. UNCHANGED <<own, plan>> /\ pc'[s] = "armClose"
      BY <1>0, <2>3, <2>5 DEF SendShutdown, Goto, SendQueued, SendFails, AllSent
    <3> QED
      BY <2>3, <3>1 DEF Arming
  <2>6. CASE CloseArm(s)
    <3>1. conn' = Armed(o)
      BY <2>6 DEF CloseArm, ArmTimer
    <3>2. conn[o].gen \in Nat /\ conn[o].gen < generation /\ generation \in Nat
      BY <1>0 DEF CloseInv, Timed, ObjectsTyped, ConnRec
    <3> QED
      BY <1>0, <3>1, <3>2, ArmedFields
  <2>7. CASE DropDecide(s)
    <3>1. PICK t : own' = own /\ pc'[s] = "dropTable" /\ plan' = [plan EXCEPT ![s].table = t]
      BY <1>0, <2>7 DEF DropDecide, Goto
    <3>2. plan'[s].arm = plan[s].arm /\ plan'[s].flags = plan[s].flags
      BY <1>0, <3>1 DEF PlanRec
    <3> QED
      BY <2>3, <2>7, <3>1, <3>2 DEF Arming, DropDecide
  <2>8. CASE DropTable(s)
    <3>1. UNCHANGED <<own, plan>> /\ pc'[s] = "sendShutdown"
      BY <1>0, <2>8 DEF DropTable, Goto, Arming
    <3> QED
      BY <2>3, <3>1 DEF Arming
  <2>9. CASE \/ Accept(s) \/ Recv(s) \/ DropBegin(s) \/ (\E dirs \in SUBSET Both : Shutdown(s, dirs))
              \/ DropShut(s) \/ SendRst(s) \/ Release(s) \/ Unlist(s)
    BY <2>3, <2>9 DEF Accept, Recv, DropBegin, Shutdown, DropShut, SendRst, Release, Unlist
  <2> QED
    BY <2>2, <2>5, <2>6, <2>7, <2>8, <2>9 DEF PassiveStep
<1> QED
  BY <1>0, <1>1, <1>2, CallFrame

\* An armed timer of a listed connection fires, is queued, and finds it in one table or
\* in the other.
LEMMA ComesStays ==
    ASSUME CloseInv, Next, NEW o \in Obj, Accepted(o), Tabled(o), Comes(o),
           conn'[o].gen = conn[o].gen, conn'[o].ticking = conn[o].ticking \/ TimerFires(o)
    PROVE  Comes(o)'
<1> DEFINE k == conn[o].key
           e == [key |-> k, gen |-> conn[o].gen]
<1>0. /\ IInv /\ WorkInv /\ BaseInv /\ Timed /\ ObjectsTyped /\ Used(o) /\ conn[o].gen # 0
      /\ timerEvents \in Seq(TimerEvent) /\ k \in Key /\ None \notin Obj
  BY SpaceAssumption DEF CloseInv, BaseInv, WorkInv, QueuesTyped, IInv, Accepted, Comes, Key
<1>1. conn'[o].key = k /\ e \in TimerEvent
      /\ (connections[k] # o => connections'[k] # o)
  BY <1>0, TabledFrom DEF TimerEvent, ObjectsTyped, ConnRec
<1>2. ASSUME NEW x, conn' = TimedOut(x)
      PROVE  x # o
  BY <1>0, <1>2, TimedOutFields
<1>3. ASSUME TimerFires(o)
      PROVE  Comes(o)'
  <2>1. timerEvents' = Append(timerEvents, e)
    BY <1>3 DEF TimerFires
  <2> HIDE DEF e
  <2>2. e \in Members(timerEvents')
    BY <1>0, <1>1, <2>1, MembersOf
  <2>3. e \in Members(timerEvents)'
    BY <2>2 DEF Members
  <2> QED
    BY <1>0, <1>1, <2>3 DEF Comes, ExpiryQueued, e
<1>4. CASE conn[o].ticking /\ conn'[o].ticking = conn[o].ticking
  BY <1>0, <1>4 DEF Comes
<1>5. CASE ExpiryQueued(o)
  <2>1. e \in Members(timerEvents)
    BY <1>5 DEF ExpiryQueued
  <2>2. e \in Members(timerEvents') => Comes(o)'
    <3>1. e \in Members(timerEvents') => e \in Members(timerEvents)'
      BY DEF Members
    <3> QED
      BY <1>0, <1>1, <3>1 DEF Comes, ExpiryQueued
  <2>3. CASE timerEvents' = timerEvents
    BY <2>1, <2>2, <2>3
  <2>4. CASE \E x \in Obj : TimerFires(x)
    <3>1. PICK x \in Obj : timerEvents' = Append(timerEvents, [key |-> conn[x].key,
                                                               gen |-> conn[x].gen])
      BY <2>4 DEF TimerFires
    <3>2. [key |-> conn[x].key, gen |-> conn[x].gen] \in TimerEvent
      BY <1>0 DEF TimerEvent, ObjectsTyped, ConnRec
    <3>3. Members(timerEvents) \subseteq Members(timerEvents')
      BY <1>0, <3>1, <3>2, MembersOf
    <3> QED
      BY <2>1, <2>2, <3>3
  <2>5. CASE TimerActive
    <3> DEFINE h == Head(timerEvents)
    <3>1. timerEvents # <<>> /\ timerEvents' = Tail(timerEvents)
      BY <2>5 DEF TimerActive
    <3>2. Members(timerEvents) = {h} \cup Members(Tail(timerEvents))
      BY <1>0, <3>1, MembersOf
    <3>3. CASE e # h
      <4>1. e \in Members(Tail(timerEvents))
        BY <2>1, <3>2, <3>3
      <4> QED
        BY <2>2, <3>1, <4>1
    <3>4. CASE e = h
      <4> DEFINE x == connections[k]
      <4>1. h.key = k /\ h.gen = conn[o].gen
        BY <3>4
      <4>2. ~(x # None /\ conn[x].gen = h.gen)
        <5> SUFFICES ASSUME x # None, conn[x].gen = h.gen
                     PROVE  FALSE
          OBVIOUS
        <5>1. x \in Obj
          BY <1>0 DEF IInv, TablesTyped
        <5>2. x = o
          BY <1>0, <4>1, <5>1 DEF Timed
        <5>3. conn' = TimedOut(x)
          BY <2>5, <4>1 DEF TimerActive
        <5> QED
          BY <1>2, <5>2, <5>3
      <4>3. timer' = [TimerIdle EXCEPT !.at = "closing", !.key = h.key, !.gen = h.gen]
            /\ connections' = connections
        BY <2>5, <4>1, <4>2 DEF TimerActive
      <4>4. x # o
        BY <1>0, <4>1, <4>2
      <4>5. LookedUp(o)'
        BY <1>1, <4>1, <4>3, <4>4 DEF LookedUp, TimerIdle
      <4> QED
        BY <1>0, <4>5 DEF Comes
    <3> QED
      BY <3>3, <3>4
  <2> QED
    BY <1>0, <2>3, <2>4, <2>5, TimerQueueSteps
<1>6. CASE LookedUp(o)
  <2>1. timer.at = "closing" /\ timer.key = k /\ timer.gen = conn[o].gen /\ connections[k] # o
    BY <1>6 DEF LookedUp
  <2>2. CASE timer' = timer
    <3>1. LookedUp(o)'
      BY <1>1, <2>1, <2>2 DEF LookedUp
    <3> QED
      BY <1>0, <3>1 DEF Comes
  <2>3. CASE TimerStep
    <3>1. TimerClosing
      BY <2>1, <2>3 DEF TimerStep, TimerActive, TimerDrop, TimerSendRst
    <3>2. o \in Members(closing[k])
      BY <1>0, <2>1 DEF Tabled, IInv, Placed
    <3>3. \E x \in Members(closing[k]) : conn[x].gen = timer.gen /\ conn' = TimedOut(x)
      BY <2>1, <3>1, <3>2 DEF TimerClosing
    <3>4. Members(closing[k]) \subseteq Obj
      BY <1>0, SeqMembers DEF IInv, TablesTyped
    <3> QED
      BY <1>0, <1>2, <2>1, <3>3, <3>4 DEF Timed
  <2> QED
    BY <1>0, <2>2, <2>3, TimerStateSteps
<1> QED
  BY <1>3, <1>4, <1>5, <1>6 DEF Comes

\* The step of the owner that shuts the second direction, or shuts again.
LEMMA OwnerShuts ==
    ASSUME CloseInv, Next, NEW s \in Sock, SockStep(s), NEW o \in Obj, Accepted(o), own[s] = o,
           NEW dirs \in SUBSET Both, conn' = LocallyShut(o, dirs), FullyShut(o, dirs),
           (Shutdown(s, dirs)) \/ (DropShut(s) /\ dirs = Both)
    PROVE  /\ own'[s] = o /\ conn'[o].gen = conn[o].gen /\ conn'[o].ticking = conn[o].ticking
           /\ \/ Removing(s)'
              \/ /\ conn'[o].phase = "Closing"
                 /\ Arming(s)' \/ (DropShut(s) /\ Full(o))
<1>0. /\ ObjectsTyped /\ pc \in [Sock -> SockSteps] /\ plan \in [Sock -> PlanRec]
      /\ conn[o] \in ConnRec /\ NoPlan \in PlanRec
  BY DEF CloseInv, BaseInv, WorkInv, CallsTyped, PlansTyped, IInv, ObjectsTyped, NoPlan, PlanRec
<1> DEFINE p == LocalShutdown(o, dirs)
<1>1. /\ conn'[o].phase = IF ReadyToReset(o, dirs) THEN "Closed" ELSE "Closing"
      /\ conn'[o].gen = conn[o].gen /\ conn'[o].ticking = conn[o].ticking
  BY <1>0, LocallyShutFields
<1>2. /\ p.rst = ReadyToReset(o, dirs) /\ p.arm = ~ReadyToReset(o, dirs)
      /\ p.flags = dirs \ conn[o].local /\ p.drop = FALSE /\ p.table = "Keep" /\ p \in PlanRec
  <2>1. ReadyToReset(o, dirs) \in BOOLEAN /\ FullyShut(o, dirs) = TRUE
    BY DEF ReadyToReset, FullyShut
  <2>2. dirs \ conn[o].local \in SUBSET Both
    BY DEF Both
  <2> QED
    BY <2>1, <2>2 DEF LocalShutdown, NoPlan, PlanRec
<1> HIDE DEF p
<1>3. CASE Shutdown(s, dirs)
  <2>1. /\ own' = own /\ pc'[s] = "sendShutdown" /\ plan'[s] = p
    BY <1>0, <1>3 DEF Shutdown, Goto, p
  <2> QED
    BY <1>1, <1>2, <2>1 DEF Removing, Arming
<1>4. CASE DropShut(s) /\ dirs = Both
  <2>1. /\ own' = own /\ pc'[s] = "dropDecide" /\ plan'[s] = [p EXCEPT !.drop = TRUE]
    BY <1>0, <1>4 DEF DropShut, Goto, p
  <2>2. plan'[s].rst = p.rst /\ plan'[s].arm = p.arm /\ plan'[s].flags = p.flags
    BY <1>2, <2>1 DEF PlanRec
  <2>3. ~Full(o) => p.flags # {}
    BY <1>0, <1>2, <1>4 DEF Full, ConnRec
  <2> QED
    BY <1>1, <1>2, <1>4, <2>1, <2>2, <2>3 DEF Removing, Arming
<1> QED
  BY <1>3, <1>4

LEMMA NextFull ==
    ASSUME CloseInv, Next, AllSent
    PROVE  FullInv'
<1> SUFFICES ASSUME NEW o \in Obj, Accepted(o)', Tabled(o)', Full(o)'
             PROVE  Ends(o)'
  BY DEF FullInv
<1>0. /\ IInv /\ WorkInv /\ BaseInv /\ ObjectsTyped /\ PendingInv /\ ListedInv /\ FullInv
  BY DEF CloseInv, BaseInv, IInv
<1>1. Accepted(o) /\ Used(o)
  BY AcceptedFrom DEF Full, Accepted, Both
<1>2. Tabled(o)
  <2>1. SUFFICES ASSUME rx.at = "insert", o = rx.obj, rx'.at # "insert"
                 PROVE  FALSE
    BY <1>0, <1>1, TabledFrom
  <2>2. Alone(o)
    BY <1>0, <2>1 DEF PendingInv, Handles
  <2>3. \A s \in Sock : Accept(s) => rx' = rx
    BY DEF Accept
  <2> QED
    BY <2>1, <2>2, <2>3, AloneStays DEF Alone
<1>3. ASSUME NEW s \in Sock, own'[s] = o, Removing(s)'
      PROVE  Ends(o)'
  BY <1>3 DEF Ends, Removing
<1>4. ASSUME conn'[o].phase = "Closing", Comes(o)' \/ \E s \in Sock : own'[s] = o /\ Arming(s)'
      PROVE  Ends(o)'
  BY <1>4 DEF Ends, Arming
<1>5. ASSUME conn'[o].gen # 0, conn'[o].ticking PROVE Comes(o)'
  BY <1>5 DEF Comes
<1>6. ASSUME ~Full(o)
      PROVE  Ends(o)'
  <2>1. conn'[o].local # conn[o].local
    BY <1>6 DEF Full
  <2>2. PICK s \in Sock : SockStep(s) /\ OwnerStep(s, o)
    BY <1>1, <2>1, Effects
  <2>3. CloseArm(s) => conn' # Armed(o)
    BY <1>0, <2>1, ArmedFields
  <2>4. PICK dirs \in SUBSET Both : /\ conn' = LocallyShut(o, dirs)
                                    /\ Shutdown(s, dirs) \/ (DropShut(s) /\ dirs = Both)
    BY <2>1, <2>2, <2>3 DEF OwnerStep
  <2>5. FullyShut(o, dirs)
    BY <1>0, <2>4, LocallyShutFields DEF Full, FullyShut
  <2> QED
    BY <1>1, <1>3, <1>4, <1>6, <2>2, <2>4, <2>5, OwnerShuts DEF OwnerStep
<1>7. ASSUME Full(o), NEW s \in Sock, own[s] = o, Removing(s)
      PROVE  Ends(o)'
  BY <1>1, <1>3, <1>7, RemovingStep
<1>8. ASSUME Full(o), conn[o].phase = "Closing",
             Comes(o) \/ \E s \in Sock : own[s] = o /\ Arming(s)
      PROVE  Ends(o)'
  <2>1. ASSUME conn'[o].phase = "Closing", conn'[o].gen = conn[o].gen,
               conn'[o].ticking = conn[o].ticking \/ TimerFires(o)
        PROVE  Ends(o)'
    BY <1>1, <1>2, <1>4, <1>5, <1>8, <2>1, ArmingStep, ComesStays
  <2>2. ASSUME NEW s \in Sock, SockStep(s), OwnerStep(s, o)
        PROVE  Ends(o)'
    <3>1. CASE CloseArm(s) /\ conn' = Armed(o)
      <4>1. conn[o].gen \in Nat /\ conn[o].gen < generation /\ generation \in Nat
        BY <1>0 DEF CloseInv, Timed, ObjectsTyped, ConnRec
      <4>2. conn'[o].phase = "Closing" /\ conn'[o].gen # 0 /\ conn'[o].ticking
        BY <1>0, <1>8, <3>1, <4>1, ArmedFields
      <4> QED
        BY <1>4, <1>5, <4>2
    <3>2. CASE DropShut(s) /\ conn' = LocallyShut(o, Both)
      <4>1. FullyShut(o, Both)
        BY <1>8 DEF Full, FullyShut
      <4>2. own'[s] = o /\ conn'[o].gen = conn[o].gen /\ conn'[o].ticking = conn[o].ticking
            /\ (Removing(s)' \/ conn'[o].phase = "Closing")
        BY <1>1, <2>2, <3>2, <4>1, OwnerShuts DEF OwnerStep
      <4> QED
        BY <1>3, <2>1, <4>2
    <3>3. ASSUME NEW dirs \in SUBSET Both, Shutdown(s, dirs)
          PROVE  FALSE
      <4>1. LocalShutdown(o, dirs).flags # {}
        BY <2>2, <3>3 DEF Shutdown, OwnerStep
      <4>2. LocalShutdown(o, dirs).flags = dirs \ conn[o].local
        BY DEF LocalShutdown, NoPlan
      <4> QED
        BY <1>8, <4>1, <4>2 DEF Full
    <3> QED
      BY <1>8, <2>2, <3>1, <3>2, <3>3 DEF OwnerStep
  <2>3. TimerFires(o) => conn'[o].phase = conn[o].phase /\ conn'[o].gen = conn[o].gen
    BY <1>0 DEF TimerFires, ObjectsTyped, ConnRec
  <2>4. ~Gone(o)
    BY <1>2 DEF Gone
  <2>5. o \notin drained.held
    BY <1>0, <1>8 DEF ListedInv, Listed, Alone
  <2> QED
    BY <1>1, <1>8, <2>1, <2>2, <2>3, <2>4, <2>5, Effects DEF SameTimer
<1> QED
  BY <1>0, <1>1, <1>2, <1>6, <1>7, <1>8 DEF FullInv, Ends

\* A listed connection leaves the lists by accept() or after its reset.
LEMMA ListedTo ==
    ASSUME CloseInv, Next, NEW o \in Listed
    PROVE  \/ o \in Listed'
           \/ \E s \in Sock : Accept(s) /\ o = Head(backlog)
           \/ o \in drained.held /\ drained.current = o /\ conn' = conn
<1>0. /\ BaseInv /\ WorkInv /\ ListedInv /\ PendingInv /\ backlog \in Seq(Obj)
  BY DEF CloseInv, BaseInv, WorkInv, QueuesTyped
<1>1. CASE UNCHANGED <<listening, backlog, drained>>
  BY <1>1 DEF Listed, Members
<1>2. CASE \E s \in Sock : Accept(s)
  <2>1. PICK s \in Sock : Accept(s)
    BY <1>2
  <2>2. backlog # <<>> /\ backlog' = Tail(backlog) /\ drained' = drained
    BY <2>1 DEF Accept
  <2>3. Members(backlog) = {Head(backlog)} \cup Members(Tail(backlog))
    BY <1>0, <2>2, MembersOf
  <2>4. o \in Members(Tail(backlog)) \cup drained.held => o \in Listed'
    BY <2>2 DEF Listed, Members
  <2> QED
    BY <2>1, <2>3, <2>4 DEF Listed
<1>3. CASE ListenerDrop
  BY <1>0, <1>3 DEF ListenerDrop, Resetting, ListedInv, Listed
<1>4. CASE DrainedReset
  <2>1. backlog' = backlog
    BY <1>4 DEF DrainedReset
  <2>2. \/ \E x \in drained.held : drained' = [drained EXCEPT !.current = x]
        \/ drained' = Resetting(drained.held \ {drained.current}) /\ conn' = conn
    BY <1>4 DEF DrainedReset, AfterReset
  <2> QED
    BY <1>0, <2>1, <2>2 DEF Listed, Resetting, ListedInv, Members
<1>5. CASE RxPush
  <2>1. /\ drained' = drained
        /\ backlog' = IF Room THEN Append(backlog, rx.obj) ELSE backlog
    BY <1>5 DEF RxPush
  <2>2. rx.obj \in Obj
    BY <1>0, <1>5 DEF RxPush, RxAt, WorkInv, AcceptsPassive, Valid
  <2>3. Members(Append(backlog, rx.obj)) = Members(backlog) \cup {rx.obj}
    BY <1>0, <2>2, MembersOf
  <2> QED
    BY <2>1, <2>3 DEF Listed, Members
<1> QED
  BY <1>0, <1>1, <1>2, <1>3, <1>4, <1>5, ListSteps

\* The owner of a connection still open on this side stays with it.
LEMMA OwnerKeeps ==
    ASSUME CloseInv, Next, NEW s \in Sock, NEW o \in Obj, Accepted(o), ~Full(o),
           own[s] = o, Busy(s), ~Leaving(s), Tabled(o)'
    PROVE  own'[s] = o /\ Busy(s)' /\ ~Leaving(s)'
<1>0. /\ IInv /\ WorkInv /\ BaseInv /\ pc \in [Sock -> SockSteps] /\ plan \in [Sock -> PlanRec]
  BY DEF CloseInv, BaseInv, WorkInv, CallsTyped, PlansTyped
<1>1. CASE own'[s] = own[s] /\ pc'[s] = pc[s] /\ plan'[s] = plan[s]
  BY <1>1 DEF Leaving, Busy
<1>2. CASE SockStep(s)
  <2>1. PassiveStep(s) /\ s \in Passive /\ conn[o].key \in Key /\ Used(o)
    BY <1>2, OwnerCalls
  <2>2. ~RemoveInstance(o)
    BY <1>0, <2>1, InstanceRemoved
  <2>3. CASE Accept(s) \/ Release(s)
    BY <2>3 DEF Accept, Release, Busy, AtRest, Leaving
  <2>4. CASE Recv(s)
    BY <1>1, <2>4 DEF Recv, sockVars
  <2>5. CASE DropBegin(s)
    <3>1. own' = own /\ pc'[s] \in {"dropShut", "dropTable"}
      BY <1>0, <2>5 DEF DropBegin, Goto
    <3> QED
      BY <3>1 DEF Leaving, Busy, AtRest
  <2>6. CASE \E dirs \in SUBSET Both : Shutdown(s, dirs)
    <3>1. PICK dirs \in SUBSET Both : /\ own' = own /\ pc'[s] = "sendShutdown"
                                      /\ plan' = [plan EXCEPT ![s] = LocalShutdown(o, dirs)]
      BY <1>0, <2>6 DEF Shutdown, Goto
    <3>2. ~plan'[s].drop
      BY <1>0, <3>1 DEF LocalShutdown, NoPlan
    <3> QED
      BY <3>1, <3>2 DEF Leaving, Busy, AtRest
  <2>7. CASE DropShut(s) \/ DropDecide(s)
    <3>1. own' = own /\ pc'[s] \in {"dropDecide", "dropTable"}
      BY <1>0, <2>7 DEF DropShut, DropDecide, Goto
    <3> QED
      BY <3>1 DEF Leaving, Busy, AtRest
  <2>8. CASE DropTable(s)
    <3>1. pc[s] = "dropTable" /\ plan[s].table # "Remove"
      BY <2>2, <2>8 DEF DropTable
    <3> QED
      BY <2>1, <3>1 DEF CloseInv, DropsInv
  <2>9. CASE SendShutdown(s) \/ CloseArm(s) \/ SendRst(s)
    <3>1. UNCHANGED <<own, plan>> /\ ~plan[s].drop
      BY <2>9 DEF SendShutdown, CloseArm, SendRst, ArmTimer, Leaving
    <3>2. pc'[s] \in {"armClose", "connected", Done(s), AfterShutdown(s)}
      BY <1>0, <2>9 DEF SendShutdown, CloseArm, SendRst, Goto
    <3> QED
      BY <3>1, <3>2 DEF Done, AfterShutdown, Leaving, Busy, AtRest
  <2>10. CASE Unlist(s)
    BY <2>2, <2>10 DEF Unlist
  <2> QED
    BY <2>1, <2>3, <2>4, <2>5, <2>6, <2>7, <2>8, <2>9, <2>10 DEF PassiveStep
<1> QED
  BY <1>0, <1>1, <1>2, CallFrame

LEMMA NextHalf ==
    ASSUME CloseInv, Next
    PROVE  HalfInv'
<1> SUFFICES ASSUME NEW o \in Obj, Accepted(o)', Tabled(o)', ~Full(o)'
             PROVE  Accompanied(o)' \/ (conn'[o].phase # "Closing" /\ LeftActive(o)')
  BY DEF HalfInv
<1>0. /\ IInv /\ WorkInv /\ BaseInv /\ ObjectsTyped /\ PendingInv /\ ListedInv /\ HalfInv
      /\ pc \in [Sock -> SockSteps] /\ own \in [Sock -> Obj \cup {None}]
  BY DEF CloseInv, BaseInv, IInv, WorkInv, CallsTyped
<1>1. ASSUME rx'.at \in Handles, rx'.obj = o PROVE Accompanied(o)'
  BY <1>1 DEF Accompanied
<1>2. ASSUME o \in Listed' PROVE Accompanied(o)'
  BY <1>2 DEF Accompanied
<1>3. ASSUME NEW s \in Sock, own'[s] = o, Busy(s)', ~Leaving(s)' PROVE Accompanied(o)'
  BY <1>3 DEF Accompanied
<1>4. CASE ~Accepted(o)
  BY <1>1, <1>4, AcceptedFrom DEF Handles
<1>5. ASSUME Accepted(o) PROVE Used(o) /\ ~Full(o)
  BY <1>5, LocalGrows DEF Accepted
<1>6. CASE Accepted(o) /\ o \in Listed
  <2>1. CASE \E s \in Sock : Accept(s) /\ o = Head(backlog)
    <3>1. PICK s \in Sock : Accept(s) /\ o = Head(backlog)
      BY <2>1
    <3>2. own'[s] = o /\ pc'[s] = "connected"
      BY <1>0, <3>1 DEF Accept, Goto
    <3> QED
      BY <1>3, <3>2 DEF Busy, AtRest, Leaving
  <2>2. CASE o \in drained.held /\ drained.current = o /\ conn' = conn
    <3>1. LeftActive(o) /\ conn[o].phase # "Closing"
      BY <1>0, <2>2 DEF ListedInv
    <3> QED
      BY <1>0, <2>2, <3>1, LeftActiveStays
  <2> QED
    BY <1>2, <1>6, <2>1, <2>2, ListedTo
<1>7. CASE Accepted(o) /\ rx.at \in Handles /\ rx.obj = o
  <2>1. CASE rx' = rx
    BY <1>1, <1>7, <2>1
  <2>2. CASE RxStep
    <3>1. RxInsert \/ RxPush \/ RxUndo
      BY <1>7, <2>2 DEF RxStep, RxRequest, RxRespond, RxUnlist, RxOnRst, RxRelease, RxSendRst,
         RxResponse, RxRst, RxShutdown, RxData, RxTakes, RxAt, Handles
    <3>2. CASE RxInsert
      BY <1>1, <1>7, <3>2 DEF RxInsert, RxGoes, Handles
    <3>3. CASE RxPush
      <4>1. CASE Room
        <5>1. backlog' = Append(backlog, o) /\ backlog \in Seq(Obj)
          BY <1>0, <1>7, <3>3, <4>1 DEF RxPush, WorkInv, QueuesTyped
        <5>2. o \in Members(backlog')
          BY <5>1, MembersOf
        <5> QED
          BY <1>2, <5>2 DEF Listed, Members
      <4>2. CASE ~Room
        BY <1>1, <1>7, <3>3, <4>2 DEF RxPush, RxGoes, Handles
      <4> QED
        BY <4>1, <4>2
    <3>4. CASE RxUndo
      <4>1. conn' = conn /\ connections' = WithoutActive(rx.key) /\ rx'.at = "rst"
        BY <3>4 DEF RxUndo, RxGoes
      <4>2. conn[o].key = rx.key /\ rx.key \in Key /\ conn[o].phase # "Closing"
        BY <1>0, <1>7 DEF PendingInv, WorkInv, QueuesTyped, Handles
      <4>3. connections'[rx.key] # o
        BY <1>0, <4>1, <4>2, SpaceAssumption DEF WithoutActive, IInv, TablesTyped
      <4>4. Placed'
        BY <1>0, NextIInv DEF IInv
      <4>5. \A k \in Key : connections'[k] # o
        BY <4>1, <4>2, <4>3, <4>4 DEF Placed
      <4>6. LeftActive(o)'
        BY <1>5, <1>7, <4>1, <4>5 DEF LeftActive, Used
      <4> QED
        BY <4>1, <4>2, <4>6
    <3> QED
      BY <3>1, <3>2, <3>3, <3>4
  <2> QED
    BY <1>0, <2>1, <2>2, RxSteps
<1>8. CASE Accepted(o) /\ \E s \in Sock : own[s] = o /\ Busy(s) /\ ~Leaving(s)
  BY <1>3, <1>5, <1>8, OwnerKeeps
<1>9. CASE Accepted(o) /\ Tabled(o) /\ conn[o].phase # "Closing" /\ LeftActive(o)
  <2>1. LeftActive(o)'
    BY <1>0, <1>9, LeftActiveStays
  <2>2. connections[conn[o].key] # o /\ conn[o].key \in Key
    BY <1>9 DEF LeftActive, Accepted, Key
  <2>3. ASSUME NEW dirs \in SUBSET Both, conn' = LocallyShut(o, dirs)
        PROVE  conn'[o].phase # "Closing"
    <3>1. ~FullyShut(o, dirs)
      BY <1>0, <2>3, LocallyShutFields DEF Full, FullyShut
    <3> QED
      BY <1>0, <1>9, <2>3, <3>1, LocallyShutFields DEF ReadyToReset
  <2>4. ASSUME NEW s \in Sock, OwnerStep(s, o)
        PROVE  conn'[o].phase # "Closing"
    BY <1>0, <1>9, <2>3, <2>4, ArmedFields DEF OwnerStep
  <2>5. TimerFires(o) => conn'[o].phase = conn[o].phase
    BY <1>0 DEF TimerFires, ObjectsTyped, ConnRec
  <2>6. conn'[o].phase # "Closing"
    BY <1>9, <2>2, <2>4, <2>5, Effects DEF SameTimer
  <2> QED
    BY <2>1, <2>6
<1>10. CASE Accepted(o) /\ ~Tabled(o)
  <2>1. rx.at = "insert" /\ o = rx.obj
    BY <1>0, <1>5, <1>10, TabledFrom
  <2> QED
    BY <1>7, <1>10, <2>1 DEF Handles
<1> QED
  BY <1>0, <1>4, <1>5, <1>6, <1>7, <1>8, <1>9, <1>10 DEF HalfInv, Accompanied

LEMMA InitClose == Init => CloseInv
<1> SUFFICES ASSUME Init PROVE CloseInv
  OBVIOUS
<1>0. \A o \in Obj : /\ ~Used(o) /\ conn[o].gen = 0 /\ ~conn[o].ticking
  BY DEF Init, NewConn, Used
<1>1. BaseInv
  BY InitIInv, InitWork DEF Init, BaseInv, EventTyped, Resetting, PlansTyped, PlanRec, NoPlan
<1>2. Unasked
  BY DEF Init, Unasked, Members, Key
<1>3. Timed
  BY <1>0 DEF Init, Timed, Members, TimerRec, TimerIdle
<1>4. ListedInv /\ PendingInv /\ TakenInv /\ DropsInv
  BY SpaceAssumption DEF Init, ListedInv, Listed, PendingInv, TakenInv, DropsInv, Members, Resetting,
                         Distinct, RxIdle, Handles, Sock
<1>5. FullInv /\ HalfInv
  BY <1>0 DEF FullInv, HalfInv, Accepted
<1> QED
  BY <1>1, <1>2, <1>3, <1>4, <1>5 DEF CloseInv

LEMMA StutterClose == ASSUME CloseInv, UNCHANGED vars PROVE CloseInv'
<1> USE DEF vars, tables, listenerVars, sockVars, timerVars, txVars, envVars
<1>1. BaseInv'
  <2>1. IInv'
    BY NextIInv DEF CloseInv, BaseInv
  <2>2. WorkInv'
    BY DEF CloseInv, BaseInv, WorkInv, CallsTyped, Calls, QueuesTyped, OwnsItsKey, Busy,
           AcceptsPassive, Valid, Used, Members
  <2> QED
    BY <2>1, <2>2 DEF CloseInv, BaseInv, EventTyped, PlansTyped
<1>2. Unasked' /\ Timed'
  BY DEF CloseInv, Unasked, Timed, Used, Members
<1>3. \A o \in Obj : /\ Accepted(o)' = Accepted(o) /\ Tabled(o)' = Tabled(o) /\ Full(o)' = Full(o)
                     /\ Alone(o)' = Alone(o) /\ LeftActive(o)' = LeftActive(o)
                     /\ Gone(o)' = Gone(o) /\ Comes(o)' = Comes(o)
  BY DEF Accepted, Tabled, Full, Alone, LeftActive, Gone, Comes, LookedUp, ExpiryQueued, Used, Busy,
         Members
<1>4. ListedInv'
  BY DEF CloseInv, ListedInv, Listed, Alone, Accepted, Full, Used, Busy, LeftActive, Members, Distinct
<1>5. PendingInv'
  BY DEF CloseInv, PendingInv, Listed, Alone, Accepted, Full, Used, Busy, Members
<1>6. TakenInv'
  BY DEF CloseInv, TakenInv, Gone, Tabled, Used, Members
<1>7. DropsInv'
  BY DEF CloseInv, DropsInv, Full
<1>8. FullInv'
  BY <1>3 DEF CloseInv, FullInv, Ends, Removing, Arming
<1>9. HalfInv'
  BY <1>3 DEF CloseInv, HalfInv, Accompanied, Listed, Members, Leaving, Busy
<1> QED
  BY <1>1, <1>2, <1>4, <1>5, <1>6, <1>7, <1>8, <1>9 DEF CloseInv

LEMMA NextClose ==
    ASSUME AllSent, CloseInv, [Next]_vars
    PROVE  CloseInv'
<1>1. CASE Next
  <2>1. BaseInv'
    BY <1>1, NextIInv, NextWork, NextEvent, CallFrame DEF CloseInv, BaseInv
  <2>2. Unasked'
    BY <1>1, NextUnasked DEF AllSent
  <2> QED
    BY <1>1, <2>1, <2>2, NextTimed, NextListed, NextPending, NextTaken, NextDrops, NextFull,
       NextHalf DEF CloseInv
<1> QED
  BY <1>1, StutterClose

\* A closing connection that the listener made and that only the tables still refer to
\* has its close timeout armed, queued or being looked up, however many sockets, ConnIds
\* and objects there are and whatever the peer, the listener and the resets do, as long as
\* every SHUTDOWN enters the virtqueue at once (`send_packet` neither fails nor queues it).
THEOREM OrphansAreTimed ==
    ASSUME ~Congested, "shutdown" \notin CanFail
    PROVE  Spec => []OrphanWillClose
<1>1. CloseInv => OrphanWillClose
  <2> SUFFICES ASSUME CloseInv, NEW o \in Obj, conn[o].key \in PassiveKey, Tabled(o),
                      conn[o].phase = "Closing", ~Owned(o), ~TaskHolds(o)
               PROVE  \/ conn[o].ticking \/ ExpiryQueued(o)
                      \/ timer.at = "closing" /\ timer.key = conn[o].key /\ timer.gen = conn[o].gen
    BY DEF OrphanWillClose
  <2>1. Accepted(o)
    BY DEF CloseInv, BaseInv, IInv, Placed, Tabled, Accepted
  <2>2. \A s \in Sock : own[s] # o
    BY DEF Owned
  <2>3. o \notin Listed /\ rx.obj # o
    BY DEF TaskHolds, Listed
  <2>4. Full(o)
    BY <2>1, <2>2, <2>3 DEF CloseInv, HalfInv, Accompanied
  <2>5. Comes(o)
    BY <2>1, <2>2, <2>4 DEF CloseInv, FullInv, Ends
  <2> QED
    BY <2>5 DEF Comes, LookedUp
<1>2. AllSent
  BY DEF AllSent
<1>3. CloseInv /\ [Next]_vars => CloseInv'
  BY <1>2, NextClose
<1> QED
  BY <1>1, <1>3, InitClose, PTL DEF Spec
=============================================================================
