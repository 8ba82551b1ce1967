----------------------------- MODULE IndexExtract -----------------------------
(***************************************************************************)
(* SwiftIndex, extractor/symbols.rs: what is extracted from one file.      *)
(*                                                                         *)
(* A source text is the sequence of its items in the order of the walk     *)
(* (parents before children); the text of an item is reduced to            *)
(*   kind     "fn", "struct" (any item without children), "trait", "mod",  *)
(*            "impl" or "use"                                              *)
(*   parent   index of the enclosing trait, mod or impl, 0 at top level    *)
(*   name     the name, for an impl the type, for a use the imported path  *)
(*   trait    for an impl the trait, or NoName                             *)
(*   line     first line                                                   *)
(*   calls    for a fn, the call expressions of the body: each is the      *)
(*            sequence of its normalised targets, a target a path          *)
(*   test     the signature text says that it is a test.  An attribute is  *)
(*            a node of its own and no part of the signature, so that      *)
(*            #[test] alone leaves it FALSE                                *)
(*   hints    what is left of a test's name without its test_ and should_  *)
(*            prefixes, and of that without an it_ prefix, if it has one   *)
(*   marks    what else the text of a fn shows (used by IndexDerived)      *)
(***************************************************************************)
EXTENDS Integers, Sequences, SequencesExt

CONSTANT NoName

NoSymbol == 0    \* no symbol: local indices start at 1

IsSymbol(n) == n.kind # "use"

\* The index in `symbols` of item i: walk_items pushes in walk order.
Local(src, i) ==
    IF i = 0 THEN NoSymbol ELSE Cardinality({j \in 1..i : IsSymbol(src[j])})

-----------------------------------------------------------------------------
(* Qualified names: the path of segments, and "#L<line>" (0 when absent).  *)

\* The scope handed to the children of item i.
Scope(src, base) ==
    LET prefix[i \in 0..Len(src)] ==
            IF i = 0 THEN base
            ELSE LET n == src[i]
                 IN  prefix[n.parent] \o
                     (IF n.kind = "impl" /\ n.trait # NoName THEN <<n.name, n.trait>>
                      ELSE <<n.name>>)
    IN  prefix

BaseQualname(src, base, i) ==
    LET n  == src[i]
        up == Scope(src, base)[n.parent]
    IN  IF n.kind # "impl" THEN Append(up, n.name)
        ELSE IF n.trait = NoName THEN up \o <<n.name, "impl", "__impl__">>
        ELSE up \o <<n.name, "impl", n.trait, "__impl__">>

\* next_qualname: every repetition of a base gets the line of its item.
Qualname(src, base, i) ==
    LET q == BaseQualname(src, base, i)
        again == \E j \in 1..i-1 : IsSymbol(src[j]) /\ BaseQualname(src, base, j) = q
    IN  [segs |-> q, line |-> IF again THEN src[i].line ELSE 0]

SymbolOf(src, base, i) ==
    [item |-> i, kind |-> src[i].kind, name |-> src[i].name, line |-> src[i].line,
     test |-> src[i].test, hints |-> src[i].hints, marks |-> src[i].marks,
     qual |-> Qualname(src, base, i), parent |-> Local(src, src[i].parent)]

\* The items in the order of the walk.
Walk(src) == [i \in DOMAIN src |-> i]

Symbols(src, base) ==
    FoldLeft(LAMBDA syms, i :
               IF IsSymbol(src[i]) THEN Append(syms, SymbolOf(src, base, i)) ELSE syms,
             <<>>, Walk(src))

-----------------------------------------------------------------------------
(* Hints resolved against the symbols of the same file.                    *)

\* An impl is stored under "impl T for X", which no hint spells.
Named(syms, name) == {k \in DOMAIN syms : syms[k].kind # "impl" /\ syms[k].name = name}

SharedPrefix(a, b) ==
    Cardinality({k \in 1..Len(a) : IsPrefix(SubSeq(a, 1, k), b)})

\* max_by_key: the last of the candidates with the longest shared prefix.
Nearest(syms, caller, K) ==
    LET near(k) == SharedPrefix(syms[caller].qual.segs, syms[k].qual.segs)
    IN  CHOOSE k \in K : \A j \in K : near(j) < near(k) \/ (near(j) = near(k) /\ j <= k)

ResolveTarget(syms, caller, t) ==
    LET exact  == {k \in DOMAIN syms : syms[k].qual = [segs |-> t, line |-> 0]}
        suffix == {k \in DOMAIN syms : /\ Len(t) > 1
                                       /\ syms[k].qual.line = 0
                                       /\ IsSuffix(t, syms[k].qual.segs)}
        named  == IF Len(t) = 1 THEN Named(syms, t[1]) \ {caller} ELSE {}
    IN  IF exact # {} THEN CHOOSE k \in exact : \A j \in exact : j <= k
        ELSE IF suffix # {} THEN Nearest(syms, caller, suffix)
        ELSE IF named # {} THEN Nearest(syms, caller, named)
        ELSE NoSymbol

\* The first target that resolves.
ResolveCall(syms, caller, targets) ==
    LET hit == SelectInSeq(targets, LAMBDA t : ResolveTarget(syms, caller, t) # NoSymbol)
    IN  IF hit = 0 THEN NoSymbol ELSE ResolveTarget(syms, caller, targets[hit])

FirstOf(K) == IF K = {} THEN NoSymbol ELSE CHOOSE k \in K : \A j \in K : k <= j

ResolveTest(syms, hint) == FirstOf({k \in Named(syms, hint) : ~syms[k].test})
ResolveTrait(syms, t)   == FirstOf({k \in Named(syms, t) : syms[k].kind = "trait"})

-----------------------------------------------------------------------------
(* Edges of a file, between local indices; NoSymbol is a NULL end.             *)

Edge(from, to, type) == [from |-> from, to |-> to, type |-> type]

\* Pushed during the walk, for item i.
WalkEdges(src, i) ==
    LET n  == src[i]
        up == Local(src, n.parent)
        me == Local(src, i)
    IN  IF n.kind = "use" THEN <<Edge(up, NoSymbol, "imports")>>
        ELSE (IF up = NoSymbol THEN <<>> ELSE <<Edge(up, me, "contains")>>) \o
             (IF n.kind = "mod" THEN <<Edge(up, me, "declares_mod")>> ELSE <<>>)

CallEdges(src, syms, i) ==
    IF src[i].kind # "fn" THEN <<>>
    ELSE [c \in DOMAIN src[i].calls |->
            Edge(Local(src, i), ResolveCall(syms, Local(src, i), src[i].calls[c]), "calls")]

TestEdges(src, syms, i) ==
    IF src[i].kind # "fn" \/ ~src[i].test THEN <<>>
    ELSE [h \in DOMAIN src[i].hints |->
            Edge(Local(src, i), ResolveTest(syms, src[i].hints[h]), "tests")]

ImplEdges(src, syms, i) ==
    IF src[i].kind = "impl" /\ src[i].trait # NoName
    THEN <<Edge(Local(src, i), ResolveTrait(syms, src[i].trait), "implements")>> ELSE <<>>

Edges(src, syms) ==
    LET each(E(_)) == FoldLeft(LAMBDA edges, i : edges \o E(i), <<>>, Walk(src))
    IN  each(LAMBDA i : WalkEdges(src, i)) \o each(LAMBDA i : CallEdges(src, syms, i)) \o
        each(LAMBDA i : TestEdges(src, syms, i)) \o each(LAMBDA i : ImplEdges(src, syms, i))

Imports(src) ==
    LET uses == SelectSeq(src, LAMBDA n : n.kind = "use")
    IN  [k \in DOMAIN uses |-> uses[k].name]

\* extract_file, for a file whose namespace and module path make up base.
Extract(src, base) ==
    LET syms == Symbols(src, base)
    IN  [symbols |-> syms, edges |-> Edges(src, syms), imports |-> Imports(src)]

==============================================================================
