------------------------- MODULE IndexUpdate_Proofs --------------------------
(***************************************************************************)
(* For every workspace, every text and every number of processes: the      *)
(* full-text tables of the index mirror the tables they index (SQLite      *)
(* knows nothing of that relation, and an id that was deleted is given     *)
(* again, so that it rests on what the store's own operations keep), no    *)
(* qualified name is given twice, and nothing but the two races that the   *)
(* model observes makes an update pass over a file that has changed.       *)
(***************************************************************************)
EXTENDS IndexUpdate, FiniteSetTheorems, SequenceTheorems, TLAPS

-----------------------------------------------------------------------------
(* What is scanned and extracted is a list. *)

IsList(q) == q \in Seq(ToSet(q))

LEMMA ListOfAny ==
    ASSUME NEW D, NEW q \in Seq(D)
    PROVE  IsList(q)
<1>1. Len(q) \in Nat /\ DOMAIN q = 1 .. Len(q) /\ q \in [1 .. Len(q) -> D]
  BY LenProperties
<1>2. q \in [1 .. Len(q) -> ToSet(q)]
  BY <1>1 DEF ToSet
<1> QED
  BY <1>1, <1>2 DEF IsList

LEMMA ListsJoin ==
    ASSUME NEW q, NEW r, IsList(q), IsList(r)
    PROVE  IsList(q \o r)
<1> DEFINE D == ToSet(q) \cup ToSet(r)
<1>1. q \in Seq(D) /\ r \in Seq(D)
  BY DEF IsList
<1>2. q \o r \in Seq(D)
  BY <1>1, ConcatProperties
<1> QED
  BY <1>2, ListOfAny

LEMMA ListGrows ==
    ASSUME NEW q, NEW x, IsList(q)
    PROVE  IsList(Append(q, x))
<1> DEFINE D == ToSet(q) \cup {x}
<1>1. q \in Seq(D) /\ x \in D
  BY DEF IsList
<1>2. Append(q, x) \in Seq(D)
  BY <1>1, AppendProperties
<1> QED
  BY <1>2, ListOfAny

LEMMA ElementOfList ==
    ASSUME NEW q, IsList(q)
    PROVE  DOMAIN q = 1 .. Len(q) /\ Len(q) \in Nat
BY LenProperties DEF IsList

\* The walk over the items.
LEMMA WalkIsList ==
    ASSUME NEW src, IsList(src)
    PROVE  Walk(src) \in Seq(DOMAIN src)
<1>1. DOMAIN src = 1 .. Len(src) /\ Len(src) \in Nat
  BY ElementOfList
<1> QED
  BY <1>1 DEF Walk

\* The symbols pushed for the items.
PushSymbol(env, syms, i) ==
    IF IsSymbol(env[1][i]) THEN Append(syms, SymbolOf(env[1], env[2], i)) ELSE syms
ListSoFar(env, i, q) == IsList(q)
Pushed == INSTANCE FoldInduction WITH Op <- PushSymbol, P <- ListSoFar

LEMMA EmptyList == IsList(<<>>)
BY DEF IsList

LEMMA SymbolsAreList ==
    ASSUME NEW src, NEW prefix, IsList(src)
    PROVE  IsList(Symbols(src, prefix))
<1> DEFINE env == <<src, prefix>>
           q == Walk(src)
<1>1. env[1] = src /\ env[2] = prefix
  OBVIOUS
<1>2. Symbols(src, prefix) = Pushed!Loop(env, <<>>, q)
  BY <1>1 DEF Symbols, PushSymbol, FoldLeft, MapThenFoldSet, Max,
         Pushed!Loop, Pushed!FoldLeft, Pushed!MapThenFoldSet, Pushed!Max
<1> HIDE DEF env, q
<1>3. q \in Seq(DOMAIN src)
  BY WalkIsList DEF q
<1>4. ListSoFar(env, 0, <<>>)
  BY EmptyList DEF ListSoFar
<1>5. \A i \in 0..Len(q) : \A acc :
         i < Len(q) /\ ListSoFar(env, i, acc) => ListSoFar(env, i + 1, PushSymbol(env, acc, q[i + 1]))
  BY ListGrows DEF ListSoFar, PushSymbol
<1>6. ListSoFar(env, Len(q), Pushed!Loop(env, <<>>, q))
  BY <1>3, <1>4, <1>5, Pushed!FoldLeftKeeps
<1> QED
  BY <1>2, <1>6 DEF ListSoFar

\* The edges of the items, a kind at a time.
AddWalk(env, edges, i)  == edges \o WalkEdges(env[1], i)
AddCalls(env, edges, i) == edges \o CallEdges(env[1], env[2], i)
AddTests(env, edges, i) == edges \o TestEdges(env[1], env[2], i)
AddImpls(env, edges, i) == edges \o ImplEdges(env[1], env[2], i)
Walked == INSTANCE FoldInduction WITH Op <- AddWalk,  P <- ListSoFar
Called == INSTANCE FoldInduction WITH Op <- AddCalls, P <- ListSoFar
Tested == INSTANCE FoldInduction WITH Op <- AddTests, P <- ListSoFar
Impled == INSTANCE FoldInduction WITH Op <- AddImpls, P <- ListSoFar

LEMMA OneIsList == ASSUME NEW x PROVE IsList(<<x>>)
<1>1. <<x>> \in Seq({x})
  OBVIOUS
<1> QED
  BY <1>1, ListOfAny

LEMMA ItemEdgesAreLists ==
    ASSUME NEW src, NEW syms, IsList(src),
           \A j \in DOMAIN src : IsList(src[j].calls) /\ IsList(src[j].hints),
           NEW i \in DOMAIN src
    PROVE  /\ IsList(WalkEdges(src, i)) /\ IsList(CallEdges(src, syms, i))
           /\ IsList(TestEdges(src, syms, i)) /\ IsList(ImplEdges(src, syms, i))
<1>1. IsList(WalkEdges(src, i))
  <2> DEFINE n == src[i]
             up == Local(src, n.parent)
             me == Local(src, i)
             a == IF up = NoSymbol THEN <<>> ELSE <<Edge(up, me, "contains")>>
             b == IF n.kind = "mod" THEN <<Edge(up, me, "declares_mod")>> ELSE <<>>
             c == <<Edge(up, NoSymbol, "imports")>>
  <2>1. IsList(a) /\ IsList(b) /\ IsList(c)
    BY OneIsList, EmptyList
  <2>2. IsList(a \o b)
    <3> HIDE DEF a, b
    <3> QED
      BY <2>1, ListsJoin
  <2>3. WalkEdges(src, i) \in {c, a \o b}
    BY Zenon DEF WalkEdges
  <2> HIDE DEF a, b, c
  <2> QED
    BY <2>1, <2>2, <2>3
<1>2. IsList(CallEdges(src, syms, i))
  <2> DEFINE calls == src[i].calls
             e(c) == Edge(Local(src, i), ResolveCall(syms, Local(src, i), calls[c]), "calls")
             r == [c \in DOMAIN calls |-> e(c)]
  <2>1. DOMAIN calls = 1 .. Len(calls) /\ Len(calls) \in Nat
    BY ElementOfList
  <2> HIDE DEF e, calls
  <2>2. r \in Seq({e(c) : c \in DOMAIN calls})
    BY <2>1
  <2>3. IsList(r)
    BY <2>2, ListOfAny
  <2>4. CallEdges(src, syms, i) \in {<<>>, r}
    BY Zenon DEF CallEdges, e, calls
  <2> QED
    BY <2>3, <2>4, EmptyList
<1>3. IsList(TestEdges(src, syms, i))
  <2> DEFINE hints == src[i].hints
             e(h) == Edge(Local(src, i), ResolveTest(syms, hints[h]), "tests")
             r == [h \in DOMAIN hints |-> e(h)]
  <2>1. DOMAIN hints = 1 .. Len(hints) /\ Len(hints) \in Nat
    BY ElementOfList
  <2> HIDE DEF e, hints
  <2>2. r \in Seq({e(h) : h \in DOMAIN hints})
    BY <2>1
  <2>3. IsList(r)
    BY <2>2, ListOfAny
  <2>4. TestEdges(src, syms, i) \in {<<>>, r}
    BY Zenon DEF TestEdges, e, hints
  <2> QED
    BY <2>3, <2>4, EmptyList
<1>4. IsList(ImplEdges(src, syms, i))
  BY OneIsList, EmptyList, Zenon DEF ImplEdges
<1> QED
  BY <1>1, <1>2, <1>3, <1>4

LEMMA EdgesAreList ==
    ASSUME NEW src, NEW syms, IsList(src),
           \A j \in DOMAIN src : IsList(src[j].calls) /\ IsList(src[j].hints)
    PROVE  IsList(Edges(src, syms))
<1> DEFINE env == <<src, syms>>
           q == Walk(src)
           a == Walked!Loop(env, <<>>, q)
           b == Called!Loop(env, <<>>, q)
           c == Tested!Loop(env, <<>>, q)
           d == Impled!Loop(env, <<>>, q)
<1>1. env[1] = src /\ env[2] = syms
  OBVIOUS
<1>2. a = FoldLeft(LAMBDA edges, i : edges \o WalkEdges(src, i), <<>>, Walk(src))
  BY <1>1 DEF AddWalk, FoldLeft, MapThenFoldSet, Max,
         Walked!Loop, Walked!FoldLeft, Walked!MapThenFoldSet, Walked!Max
<1>3. b = FoldLeft(LAMBDA edges, i : edges \o CallEdges(src, syms, i), <<>>, Walk(src))
  BY <1>1 DEF AddCalls, FoldLeft, MapThenFoldSet, Max,
         Called!Loop, Called!FoldLeft, Called!MapThenFoldSet, Called!Max
<1>4. c = FoldLeft(LAMBDA edges, i : edges \o TestEdges(src, syms, i), <<>>, Walk(src))
  BY <1>1 DEF AddTests, FoldLeft, MapThenFoldSet, Max,
         Tested!Loop, Tested!FoldLeft, Tested!MapThenFoldSet, Tested!Max
<1>5. d = FoldLeft(LAMBDA edges, i : edges \o ImplEdges(src, syms, i), <<>>, Walk(src))
  BY <1>1 DEF AddImpls, FoldLeft, MapThenFoldSet, Max,
         Impled!Loop, Impled!FoldLeft, Impled!MapThenFoldSet, Impled!Max
<1>6. Edges(src, syms) = a \o b \o c \o d
  BY <1>2, <1>3, <1>4, <1>5, Zenon DEF Edges
<1> HIDE DEF q, env
<1>7. q \in Seq(DOMAIN src)
  BY WalkIsList DEF q
<1>8. ASSUME NEW i \in 0..Len(q), i < Len(q)
      PROVE  q[i + 1] \in DOMAIN src
  BY <1>7, <1>8, LenProperties
<1>9. ListSoFar(env, 0, <<>>)
  BY EmptyList DEF ListSoFar
<1>10. env[1] = src /\ env[2] = syms
  BY <1>1 DEF env
<1>11. IsList(a)
  <2>1. \A i \in 0..Len(q) : \A acc :
         i < Len(q) /\ ListSoFar(env, i, acc) => ListSoFar(env, i + 1, AddWalk(env, acc, q[i + 1]))
    BY <1>8, <1>10, ItemEdgesAreLists, ListsJoin DEF ListSoFar, AddWalk
  <2> QED
    BY <1>7, <1>9, <2>1, Walked!FoldLeftKeeps DEF ListSoFar
<1>12. IsList(b)
  <2>1. \A i \in 0..Len(q) : \A acc :
         i < Len(q) /\ ListSoFar(env, i, acc) => ListSoFar(env, i + 1, AddCalls(env, acc, q[i + 1]))
    BY <1>8, <1>10, ItemEdgesAreLists, ListsJoin DEF ListSoFar, AddCalls
  <2> QED
    BY <1>7, <1>9, <2>1, Called!FoldLeftKeeps DEF ListSoFar
<1>13. IsList(c)
  <2>1. \A i \in 0..Len(q) : \A acc :
         i < Len(q) /\ ListSoFar(env, i, acc) => ListSoFar(env, i + 1, AddTests(env, acc, q[i + 1]))
    BY <1>8, <1>10, ItemEdgesAreLists, ListsJoin DEF ListSoFar, AddTests
  <2> QED
    BY <1>7, <1>9, <2>1, Tested!FoldLeftKeeps DEF ListSoFar
<1>14. IsList(d)
  <2>1. \A i \in 0..Len(q) : \A acc :
         i < Len(q) /\ ListSoFar(env, i, acc) => ListSoFar(env, i + 1, AddImpls(env, acc, q[i + 1]))
    BY <1>8, <1>10, ItemEdgesAreLists, ListsJoin DEF ListSoFar, AddImpls
  <2> QED
    BY <1>7, <1>9, <2>1, Impled!FoldLeftKeeps DEF ListSoFar
<1> HIDE DEF a, b, c, d
<1> QED
  BY <1>6, <1>11, <1>12, <1>13, <1>14, ListsJoin

-----------------------------------------------------------------------------
(* The files scanned are the paths that may exist, with what their place   *)
(* in the workspace says of them.                                          *)

PushFile(env, scanned, p) ==
    IF p \in env[1] /\ ShouldIndex(p) THEN Append(scanned, Scanned(p)) ELSE scanned
ScannedSoFar(env, i, q) == q \in Seq({Scanned(p) : p \in Paths \cap env[1]})
Scan == INSTANCE FoldInduction WITH Op <- PushFile, P <- ScannedSoFar

LEMMA ScanRustFilesType ==
    ASSUME NEW present
    PROVE  ScanRustFiles(present) \in Seq({Scanned(p) : p \in Paths \cap present})
<1> DEFINE env == <<present>>
           D == {Scanned(p) : p \in Paths \cap present}
<1>1. env[1] = present
  OBVIOUS
<1>2. ScanRustFiles(present) = Scan!Loop(env, <<>>, PathOrder)
  BY <1>1 DEF ScanRustFiles, PushFile, FoldLeft, MapThenFoldSet, Max,
         Scan!Loop, Scan!FoldLeft, Scan!MapThenFoldSet, Scan!Max
<1>3. PathOrder \in Seq(Paths)
  BY ConstantsAssumption
<1> HIDE DEF env
<1>4. ScannedSoFar(env, 0, <<>>)
  BY <1>1 DEF ScannedSoFar
<1>5. ASSUME NEW i \in 0..Len(PathOrder), NEW acc, i < Len(PathOrder), ScannedSoFar(env, i, acc)
      PROVE  ScannedSoFar(env, i + 1, PushFile(env, acc, PathOrder[i + 1]))
  <2>1. PathOrder[i + 1] \in Paths
    BY <1>3, <1>5, LenProperties
  <2>2. PathOrder[i + 1] \in present => Scanned(PathOrder[i + 1]) \in D
    BY <2>1
  <2>3. acc \in Seq(D)
    BY <1>1, <1>5 DEF ScannedSoFar
  <2>4. PathOrder[i + 1] \in present => Append(acc, Scanned(PathOrder[i + 1])) \in Seq(D)
    <3> HIDE DEF D
    <3> QED
      BY <2>2, <2>3, AppendProperties
  <2> QED
    BY <1>1, <2>3, <2>4 DEF ScannedSoFar, PushFile
<1>6. ScannedSoFar(env, Len(PathOrder), Scan!Loop(env, <<>>, PathOrder))
  BY <1>3, <1>4, <1>5, Scan!FoldLeftKeeps
<1> QED
  BY <1>1, <1>2, <1>6 DEF ScannedSoFar

LEMMA ScannedPath == ASSUME NEW p PROVE Scanned(p).path = p
BY DEF Scanned

\* What is extracted from a readable content are lists of symbols and edges.
LEMMA ExtractedLists ==
    ASSUME NEW c \in DOMAIN Source, NEW f \in Paths
    PROVE  IsList(Extracted[c][f].symbols) /\ IsList(Extracted[c][f].edges)
<1> DEFINE src == Source[c]
           prefix == Scanned(f).ns \o Scanned(f).mod
           syms == Symbols(src, prefix)
<1>1. IsList(src) /\ \A i \in DOMAIN src : IsList(src[i].calls) /\ IsList(src[i].hints)
  BY SourceAssumption DEF IsList
<1>2. IsList(syms)
  BY <1>1, SymbolsAreList
<1>3. IsList(Edges(src, syms))
  BY <1>1, EdgesAreList
<1>4. Extracted[c][f] = Extract(src, prefix)
  BY DEF Extracted
<1>5. Extract(src, prefix).symbols = syms /\ Extract(src, prefix).edges = Edges(src, syms)
  BY DEF Extract
<1> QED
  BY <1>2, <1>3, <1>4, <1>5

-----------------------------------------------------------------------------
(* The database.                                                           *)

\* The ids of the rows do not grow without bound, so that a next one exists.
Bounded(rows) == \E n \in Nat : \A r \in rows : r.id \in 0..n

\* No id is that of two rows, and no qualified name that of two symbols.
Distinct(rows) == \A r, s \in rows : r.id = s.id => r = s
NamesDiffer(symbols) == \A r, s \in symbols : r.qual = s.qual => r = s

Mirrors(d) ==
    /\ d.filesFts   = Ids(d.files)
    /\ d.symbolsFts = Ids(d.symbols)
    /\ d.chunksFts  = Ids(d.chunks)

\* What every version of the database satisfies, committed or not: each row
\* of the indexed tables has an id of its own and a file that exists, no two
\* symbols have one name, and the full-text tables hold exactly these ids.
DbOk(d) ==
    /\ DOMAIN d = DOMAIN EmptyDb
    /\ Bounded(d.files) /\ Bounded(d.symbols) /\ Bounded(d.chunks)
    /\ Distinct(d.files) /\ Distinct(d.symbols) /\ Distinct(d.chunks)
    /\ IsFiniteSet(d.symbols) /\ NamesDiffer(d.symbols)
    /\ \A s \in d.symbols : s.file \in Ids(d.files)
    /\ \A c \in d.chunks : c.file \in Ids(d.files)
    /\ Mirrors(d)

LEMMA EmptyDbOk == DbOk(EmptyDb)
BY FS_EmptySet DEF DbOk, EmptyDb, Bounded, Distinct, NamesDiffer, Mirrors, Ids

LEMMA NextIdIsNew ==
    ASSUME NEW rows, Bounded(rows)
    PROVE  NextId(rows) \in Nat /\ \A r \in rows : r.id \in 0..(NextId(rows) - 1)
<1> DEFINE S == {r.id : r \in rows} \cup {0}
           B == {m \in Nat : \A y \in S : y <= m}
<1>1. PICK n \in Nat : \A r \in rows : r.id \in 0..n
  BY DEF Bounded
<1>2. S \subseteq 0..n
  BY <1>1
<1> HIDE DEF S
<1>3. n \in B
  BY <1>2
<1>4. PICK m \in B : \A k \in B : m <= k
  <2>1. B \in SUBSET Nat /\ B # {}
    BY <1>3
  <2> HIDE DEF B
  <2> QED
    BY <2>1, Pushed!LeastNat
<1>5. m \in S
  <2> SUFFICES ASSUME m \notin S PROVE FALSE
    OBVIOUS
  <2>1. 0 \in S
    BY DEF S
  <2>2. m \in Nat /\ m # 0
    BY <1>4, <2>1
  <2>3. m - 1 \in B
    BY <1>2, <1>4, <2>2
  <2> QED
    BY <1>4, <2>2, <2>3
<1>6. \E x \in S : \A y \in S : x >= y
  BY <1>2, <1>4, <1>5
<1>7. Max(S) \in S /\ \A y \in S : Max(S) >= y
  BY <1>6 DEF Max
<1>8. NextId(rows) = 1 + Max(S)
  BY DEF NextId, S
<1>9. \A r \in rows : r.id \in S
  BY DEF S
<1> HIDE DEF B
<1> DEFINE max == Max(S)
           next == NextId(rows)
<1>10. max \in S /\ (\A y \in S : max >= y) /\ next = 1 + max
  BY <1>7, <1>8
<1> HIDE DEF max, next
<1>11. max \in 0..n
  BY <1>2, <1>10
<1>12. next \in Nat /\ next - 1 = max
  BY <1>10, <1>11
<1>13. \A y \in S : y \in 0..(next - 1)
  BY <1>2, <1>10, <1>11, <1>12
<1> QED
  BY <1>9, <1>12, <1>13 DEF next

LEMMA PartOfBounded ==
    ASSUME NEW rows, NEW part \in SUBSET rows, Bounded(rows)
    PROVE  Bounded(part)
BY DEF Bounded

\* delete_file_bundle: the cascade takes the rows of the file, and the rows of
\* no other file; their ids have gone before.
LEMMA DeleteKeepsDb ==
    ASSUME NEW d, NEW id, DbOk(d)
    PROVE  /\ DbOk(DeleteFileBundle(d, id))
           /\ DeleteFileBundle(d, id).files = {f \in d.files : f.id # id}
<1> DEFINE e == DeleteFts(d, id)
           r == DeleteFileBundle(d, id)
           kept == {f \in d.files : f.id \notin {id}}
           symbols == {s \in d.symbols : s.file \in Ids(kept)}
           chunks == {c \in d.chunks : c.file \in Ids(kept)}
<1>1. DOMAIN d = DOMAIN EmptyDb
  BY DEF DbOk
<1>2. /\ DOMAIN e = DOMAIN EmptyDb
      /\ e.files = d.files /\ e.symbols = d.symbols /\ e.chunks = d.chunks
      /\ e.filesFts = d.filesFts \ {id}
      /\ e.symbolsFts = d.symbolsFts \ {s.id : s \in {x \in d.symbols : x.file = id}}
      /\ e.chunksFts = d.chunksFts \ {c.id : c \in {x \in d.chunks : x.file = id}}
  BY <1>1 DEF DeleteFts, EmptyDb
<1> HIDE DEF e
<1>3. r = Cascade(e, {id})
  BY DEF DeleteFileBundle, e
<1> HIDE DEF r
<1>4. /\ DOMAIN r = DOMAIN EmptyDb
      /\ r.files = kept /\ r.symbols = symbols /\ r.chunks = chunks
      /\ r.filesFts = e.filesFts /\ r.symbolsFts = e.symbolsFts /\ r.chunksFts = e.chunksFts
  BY <1>2, <1>3, Zenon DEF Cascade, EmptyDb
<1>5. Ids(kept) = Ids(d.files) \ {id}
  BY DEF Ids
<1>6. Bounded(r.files) /\ Bounded(r.symbols) /\ Bounded(r.chunks)
  BY <1>4, PartOfBounded DEF DbOk
<1>7. /\ Distinct(r.files) /\ Distinct(r.symbols) /\ Distinct(r.chunks)
      /\ NamesDiffer(r.symbols)
  BY <1>4 DEF DbOk, Distinct, NamesDiffer
<1>8. /\ \A s \in r.symbols : s.file \in Ids(r.files)
      /\ \A c \in r.chunks : c.file \in Ids(r.files)
  BY <1>4
<1>9. r.filesFts = Ids(r.files)
  BY <1>2, <1>4, <1>5 DEF DbOk, Mirrors
<1>10. symbols = {s \in d.symbols : s.file # id} /\ chunks = {c \in d.chunks : c.file # id}
  BY <1>5 DEF DbOk
<1> HIDE DEF kept, symbols, chunks
<1>11. Ids(symbols) = Ids(d.symbols) \ {s.id : s \in {x \in d.symbols : x.file = id}}
  BY <1>10 DEF DbOk, Distinct, Ids
<1>12. Ids(chunks) = Ids(d.chunks) \ {c.id : c \in {x \in d.chunks : x.file = id}}
  BY <1>10 DEF DbOk, Distinct, Ids
<1>13. r.symbolsFts = Ids(r.symbols) /\ r.chunksFts = Ids(r.chunks)
  BY <1>2, <1>4, <1>11, <1>12 DEF DbOk, Mirrors
<1>14. symbols \subseteq d.symbols
  BY DEF symbols
<1>15. IsFiniteSet(r.symbols)
  BY <1>4, <1>14, FS_Subset DEF DbOk
<1>16. r.files = {f \in d.files : f.id # id}
  BY <1>4 DEF kept
<1> QED
  BY <1>4, <1>6, <1>7, <1>8, <1>9, <1>13, <1>15, <1>16 DEF DbOk, Mirrors, r

Touched(f, size, mtime) == [f EXCEPT !.size = size, !.mtime = mtime]

LEMMA TouchKeepsDb ==
    ASSUME NEW d, NEW id, NEW size, NEW mtime, DbOk(d)
    PROVE  /\ DbOk(TouchFileMetadata(d, id, size, mtime))
           /\ \A r \in TouchFileMetadata(d, id, size, mtime).files :
                 \/ r \in d.files
                 \/ \E f \in d.files : f.id = id /\ r = Touched(f, size, mtime)
<1> DEFINE touched(f) == IF f.id = id THEN [f EXCEPT !.size = size, !.mtime = mtime] ELSE f
           kept == {touched(f) : f \in d.files}
           r == TouchFileMetadata(d, id, size, mtime)
<1>1. ASSUME NEW f \in d.files
      PROVE  touched(f).id = f.id
  <2>1. CASE f.id = id
    <3> QED
      BY <2>1
  <2> QED
    BY <2>1
<1>2. DOMAIN d = DOMAIN EmptyDb
  BY DEF DbOk
<1>3. /\ DOMAIN r = DOMAIN EmptyDb
      /\ r.files = kept /\ r.symbols = d.symbols /\ r.chunks = d.chunks
      /\ r.filesFts = d.filesFts /\ r.symbolsFts = d.symbolsFts /\ r.chunksFts = d.chunksFts
  BY <1>2 DEF TouchFileMetadata, EmptyDb
<1>4. \A x \in r.files :
         \/ x \in d.files
         \/ \E f \in d.files : f.id = id /\ x = Touched(f, size, mtime)
  BY <1>3, Zenon DEF Touched
<1> HIDE DEF r, touched
<1>5. Ids(kept) = Ids(d.files)
  BY <1>1 DEF Ids
<1>6. Bounded(kept) /\ Distinct(kept)
  BY <1>1 DEF Bounded, Distinct, DbOk
<1> HIDE DEF kept
<1> QED
  BY <1>3, <1>4, <1>5, <1>6 DEF DbOk, Mirrors, r

LEMMA RefreshKeepsDb ==
    ASSUME NEW d, NEW rows, DbOk(d)
    PROVE  DbOk(ReplaceGitMetrics(d, rows)) /\ DbOk(PersistDerived(d, rows))
BY DEF DbOk, Mirrors, ReplaceGitMetrics, PersistDerived, EmptyDb

\* A row added with the next id.
LEMMA AddedRow ==
    ASSUME NEW rows, NEW row, Bounded(rows), Distinct(rows), row.id = NextId(rows)
    PROVE  /\ Bounded(rows \cup {row}) /\ Distinct(rows \cup {row})
           /\ Ids(rows \cup {row}) = Ids(rows) \cup {NextId(rows)}
<1> DEFINE next == NextId(rows)
<1>1. next \in Nat /\ \A r \in rows : r.id \in 0..(next - 1)
  BY NextIdIsNew
<1>2. row.id = next
  OBVIOUS
<1> HIDE DEF next
<1>3. \A r \in rows \cup {row} : r.id \in 0..next
  BY <1>1, <1>2
<1>4. Bounded(rows \cup {row})
  BY <1>1, <1>3 DEF Bounded
<1>5. \A r \in rows : r.id # row.id
  BY <1>1, <1>2
<1>6. Distinct(rows \cup {row})
  BY <1>5 DEF Distinct
<1>7. Ids(rows \cup {row}) = Ids(rows) \cup {next}
  BY <1>2 DEF Ids
<1> QED
  BY <1>4, <1>6, <1>7 DEF next

\* The rows of a file are added while the row of the file is there; fs are
\* the rows of files.
OfFile(id, fs, d) == DbOk(d) /\ id \in Ids(d.files) /\ d.files = fs

\* insert_symbol_record: among as many numbers as there are symbols, and one,
\* there is one whose name no symbol has.
LEMMA StoredIsNew ==
    ASSUME NEW d, NEW path, NEW sym, IsFiniteSet(d.symbols)
    PROVE  \A s \in d.symbols : s.qual # Stored(d, path, sym)
<1> DEFINE tried(n) == [qual |-> sym.qual,
                        dup  |-> IF n = 0 THEN <<>> ELSE <<path, sym.line, sym.kind, n>>]
           free(n) == \A s \in d.symbols : s.qual # tried(n)
           card == Cardinality(d.symbols)
           F == {n \in 0..card : free(n)}
<1>1. card \in Nat
  BY FS_CardinalityType
<1>2. ASSUME NEW m \in Nat, NEW n \in Nat, tried(m) = tried(n)
      PROVE  m = n
  <2>1. tried(m).dup = tried(n).dup
    BY <1>2
  <2> DEFINE suffix(k) == <<path, sym.line, sym.kind, k>>
  <2>2. \A k \in Nat : tried(k).dup = IF k = 0 THEN <<>> ELSE suffix(k)
    OBVIOUS
  <2>3. \A k : suffix(k)[4] = k /\ suffix(k) # <<>>
    OBVIOUS
  <2> HIDE DEF tried, suffix
  <2> QED
    BY <2>1, <2>2, <2>3
<1> HIDE DEF tried, card
<1>3. F # {}
  <2> SUFFICES ASSUME F = {} PROVE FALSE
    OBVIOUS
  <2> DEFINE g == [n \in 0..card |-> CHOOSE s \in d.symbols : s.qual = tried(n)]
  <2>1. ASSUME NEW n \in 0..card
        PROVE  g[n] \in d.symbols /\ g[n].qual = tried(n)
    <3>1. \E s \in d.symbols : s.qual = tried(n)
      OBVIOUS
    <3> QED
      BY <3>1
  <2>2. g \in [0..card -> d.symbols]
    BY <2>1
  <2>3. IsFiniteSet(0..card) /\ Cardinality(0..card) = card + 1
    BY <1>1, FS_Interval
  <2>4. \E m, n \in 0..card : m # n /\ g[m] = g[n]
    <3> DEFINE S == 0..card
               T == d.symbols
    <3>1. Cardinality(T) < Cardinality(S) /\ IsFiniteSet(S) /\ IsFiniteSet(T)
      BY <1>1, <2>3 DEF card
    <3>2. g \in [S -> T]
      BY <2>2
    <3> HIDE DEF g, S, T
    <3>3. \E m, n \in S : m # n /\ g[m] = g[n]
      BY <3>1, <3>2, FS_PigeonHole
    <3> QED
      BY <3>3 DEF S
  <2> QED
    BY <1>2, <2>1, <2>4
<1>4. PICK n \in F : \A m \in F : n <= m
  <2>1. F \in SUBSET Nat
    OBVIOUS
  <2> HIDE DEF F
  <2> QED
    BY <1>3, <2>1, Pushed!LeastNat
<1>5. \E k \in 0..card : free(k) /\ \A m \in 0..k-1 : ~free(m)
  BY <1>1, <1>4
<1> DEFINE first == CHOOSE k \in 0..card : free(k) /\ \A m \in 0..k-1 : ~free(m)
<1>6. free(first)
  <2> HIDE DEF free
  <2> QED
    BY <1>5
<1>7. Stored(d, path, sym) = tried(first)
  BY DEF Stored, tried, card
<1> QED
  BY <1>6, <1>7

LEMMA InsertSymbolKeepsDb ==
    ASSUME NEW path, NEW id, NEW fs, NEW acc, NEW sym, OfFile(id, fs, acc.db), IsList(acc.ids)
    PROVE  /\ OfFile(id, fs, InsertSymbol(path, id, acc, sym).db)
           /\ IsList(InsertSymbol(path, id, acc, sym).ids)
<1> DEFINE d == acc.db
           next == NextId(d.symbols)
           row == [id |-> next, file |-> id,
                   parent |-> IF sym.parent \in DOMAIN acc.ids THEN acc.ids[sym.parent] ELSE Null,
                   kind |-> sym.kind, name |-> sym.name, test |-> sym.test, hints |-> sym.hints,
                   marks |-> sym.marks, qual |-> Stored(d, path, sym)]
           r == InsertSymbol(path, id, acc, sym)
<1>1. r.ids = Append(acc.ids, next)
      /\ r.db = [d EXCEPT !.symbols = @ \cup {row}, !.symbolsFts = @ \cup {next}]
  BY DEF InsertSymbol
<1>2. row.id = next /\ row.file = id
  OBVIOUS
<1>3. DbOk(d) /\ id \in Ids(d.files) /\ d.files = fs
  BY DEF OfFile
<1> HIDE DEF row, r, d
<1>4. DOMAIN d = DOMAIN EmptyDb
  BY <1>3 DEF DbOk
<1>5. /\ DOMAIN r.db = DOMAIN EmptyDb
      /\ r.db.files = d.files /\ r.db.symbols = d.symbols \cup {row} /\ r.db.chunks = d.chunks
      /\ r.db.filesFts = d.filesFts /\ r.db.symbolsFts = d.symbolsFts \cup {next}
      /\ r.db.chunksFts = d.chunksFts
  BY <1>1, <1>4 DEF EmptyDb
<1>6. /\ Bounded(d.symbols \cup {row}) /\ Distinct(d.symbols \cup {row})
      /\ Ids(d.symbols \cup {row}) = Ids(d.symbols) \cup {next}
  BY <1>2, <1>3, AddedRow DEF DbOk
<1> HIDE DEF next
<1>7. \A s \in d.symbols \cup {row} : s.file \in Ids(d.files)
  BY <1>2, <1>3 DEF DbOk
<1>8. IsFiniteSet(d.symbols \cup {row})
  BY <1>3, FS_AddElement DEF DbOk
<1>9. \A s \in d.symbols : s.qual # row.qual
  <2>1. row.qual = Stored(d, path, sym)
    BY DEF row
  <2> QED
    BY <1>3, <2>1, StoredIsNew DEF DbOk
<1>10. NamesDiffer(d.symbols \cup {row})
  BY <1>3, <1>9 DEF DbOk, NamesDiffer
<1>11. DbOk(r.db) /\ id \in Ids(r.db.files) /\ r.db.files = fs
  BY <1>3, <1>5, <1>6, <1>7, <1>8, <1>10 DEF DbOk, Mirrors
<1> QED
  BY <1>1, <1>11, ListGrows DEF OfFile, r

LEMMA InsertChunkKeepsDb ==
    ASSUME NEW id, NEW fs, NEW d, NEW symbol, OfFile(id, fs, d)
    PROVE  OfFile(id, fs, InsertChunk(id, d, symbol))
<1> DEFINE next == NextId(d.chunks)
           row == [id |-> next, file |-> id, symbol |-> symbol]
           r == InsertChunk(id, d, symbol)
<1>1. r = [d EXCEPT !.chunks = @ \cup {row}, !.chunksFts = @ \cup {next}]
  BY DEF InsertChunk
<1>2. row.id = next /\ row.file = id
  OBVIOUS
<1>3. DbOk(d) /\ id \in Ids(d.files) /\ d.files = fs
  BY DEF OfFile
<1> HIDE DEF row, r
<1>4. DOMAIN d = DOMAIN EmptyDb
  BY <1>3 DEF DbOk
<1>5. /\ DOMAIN r = DOMAIN EmptyDb
      /\ r.files = d.files /\ r.symbols = d.symbols /\ r.chunks = d.chunks \cup {row}
      /\ r.filesFts = d.filesFts /\ r.symbolsFts = d.symbolsFts
      /\ r.chunksFts = d.chunksFts \cup {next}
  BY <1>1, <1>4 DEF EmptyDb
<1>6. /\ Bounded(d.chunks \cup {row}) /\ Distinct(d.chunks \cup {row})
      /\ Ids(d.chunks \cup {row}) = Ids(d.chunks) \cup {next}
  BY <1>2, <1>3, AddedRow DEF DbOk
<1> HIDE DEF next
<1>7. \A c \in d.chunks \cup {row} : c.file \in Ids(d.files)
  BY <1>2, <1>3 DEF DbOk
<1>8. DbOk(r) /\ id \in Ids(r.files) /\ r.files = fs
  BY <1>3, <1>5, <1>6, <1>7 DEF DbOk, Mirrors
<1> QED
  BY <1>8 DEF OfFile, r

LEMMA InsertEdgeKeepsDb ==
    ASSUME NEW ids, NEW d, NEW e, DbOk(d)
    PROVE  DbOk(InsertEdge(ids, d, e)) /\ InsertEdge(ids, d, e).files = d.files
<1> DEFINE r == InsertEdge(ids, d, e)
<1>1. PICK edges : r = [d EXCEPT !.edges = edges]
  BY DEF InsertEdge
<1> HIDE DEF r
<1>2. DOMAIN d = DOMAIN EmptyDb
  BY DEF DbOk
<1>3. /\ DOMAIN r = DOMAIN EmptyDb
      /\ r.files = d.files /\ r.symbols = d.symbols /\ r.chunks = d.chunks
      /\ r.filesFts = d.filesFts /\ r.symbolsFts = d.symbolsFts
      /\ r.chunksFts = d.chunksFts
  BY <1>1, <1>2 DEF EmptyDb
<1> QED
  BY <1>3 DEF DbOk, Mirrors, r

\* The three loops of insert_file_bundle.
SymbolStep(env, acc, s) == InsertSymbol(env[1], env[2], acc, s)
SymbolInv(env, i, acc)  == OfFile(env[2], env[3], acc.db) /\ IsList(acc.ids)
SymbolLoop == INSTANCE FoldInduction WITH Op <- SymbolStep, P <- SymbolInv

ChunkStep(env, d, s) == InsertChunk(env[1], d, s)
ChunkInv(env, i, d)  == OfFile(env[1], env[2], d)
ChunkLoop == INSTANCE FoldInduction WITH Op <- ChunkStep, P <- ChunkInv

EdgeStep(env, d, e) == InsertEdge(env[1], d, e)
EdgeInv(env, i, d)  == DbOk(d) /\ d.files = env[2]
EdgeLoop == INSTANCE FoldInduction WITH Op <- EdgeStep, P <- EdgeInv

\* The row of a file.
FileRow(d, file) ==
    [id |-> NextId(d.files), path |-> file.path, ns |-> file.ns, mod |-> file.mod,
     hash |-> file.hash, size |-> file.size, mtime |-> file.mtime]

FileFields == {"id", "path", "ns", "mod", "hash", "size", "mtime"}

LEMMA InsertFileKeepsDb ==
    ASSUME NEW d, NEW file, NEW extracted, DbOk(d),
           IsList(extracted.symbols), IsList(extracted.edges)
    PROVE  /\ DbOk(InsertFileBundle(d, file, extracted))
           /\ InsertFileBundle(d, file, extracted).files = d.files \cup {FileRow(d, file)}
<1> DEFINE id == NextId(d.files)
           row == FileRow(d, file)
           fs == d.files \cup {row}
           imports == {[file |-> id, path |-> i] : i \in ToSet(extracted.imports)}
           withFile == [d EXCEPT !.files = @ \cup {row}, !.filesFts = @ \cup {id},
                                 !.imports = @ \cup imports]
           base == [ids |-> <<>>, db |-> withFile]
           symEnv == <<file.path, id, fs>>
           syms == FoldLeft(LAMBDA acc, s : InsertSymbol(file.path, id, acc, s),
                            base, extracted.symbols)
           chunkEnv == <<id, fs>>
           withChunks == FoldLeft(LAMBDA c, s : InsertChunk(id, c, s), syms.db, syms.ids)
           edgeEnv == <<syms.ids, fs>>
           withEdges == FoldLeft(LAMBDA c, e : InsertEdge(syms.ids, c, e),
                                 withChunks, extracted.edges)
<1>1. InsertFileBundle(d, file, extracted) = withEdges
  BY DEF InsertFileBundle, FileRow
<1> HIDE DEF row
<1>2. symEnv[1] = file.path /\ symEnv[2] = id /\ symEnv[3] = fs
  OBVIOUS
<1> HIDE DEF fs
<1>3. syms = SymbolLoop!Loop(symEnv, base, extracted.symbols)
  BY <1>2 DEF SymbolStep, FoldLeft, MapThenFoldSet, Max, SymbolLoop!Loop,
         SymbolLoop!FoldLeft, SymbolLoop!MapThenFoldSet, SymbolLoop!Max
<1> HIDE DEF syms
<1>4. chunkEnv[1] = id /\ chunkEnv[2] = fs /\ edgeEnv[1] = syms.ids /\ edgeEnv[2] = fs
  OBVIOUS
<1>5. withChunks = ChunkLoop!Loop(chunkEnv, syms.db, syms.ids)
  BY <1>4 DEF ChunkStep, FoldLeft, MapThenFoldSet, Max, ChunkLoop!Loop,
         ChunkLoop!FoldLeft, ChunkLoop!MapThenFoldSet, ChunkLoop!Max
<1> HIDE DEF withChunks
<1>6. withEdges = EdgeLoop!Loop(edgeEnv, withChunks, extracted.edges)
  BY <1>4 DEF EdgeStep, FoldLeft, MapThenFoldSet, Max, EdgeLoop!Loop,
         EdgeLoop!FoldLeft, EdgeLoop!MapThenFoldSet, EdgeLoop!Max
<1> HIDE DEF withEdges
<1>7. row.id = id
  BY DEF row, FileRow
<1> HIDE DEF imports
<1>8. OfFile(id, fs, withFile)
  <2>1. DOMAIN d = DOMAIN EmptyDb
    BY DEF DbOk
  <2>2. /\ DOMAIN withFile = DOMAIN EmptyDb
        /\ withFile.files = fs /\ withFile.filesFts = d.filesFts \cup {id}
        /\ withFile.symbols = d.symbols /\ withFile.symbolsFts = d.symbolsFts
        /\ withFile.chunks = d.chunks /\ withFile.chunksFts = d.chunksFts
    BY <2>1 DEF EmptyDb, fs
  <2>3. Bounded(fs) /\ Distinct(fs) /\ Ids(fs) = Ids(d.files) \cup {id}
    BY <1>7, AddedRow DEF DbOk, fs
  <2> HIDE DEF withFile, id
  <2> QED
    BY <2>2, <2>3 DEF DbOk, Mirrors, OfFile
<1>9. base.ids = <<>> /\ base.db = withFile
  OBVIOUS
<1> HIDE DEF withFile, id, base, symEnv, chunkEnv
<1>10. SymbolInv(symEnv, Len(extracted.symbols), syms)
  <2>1. SymbolInv(symEnv, 0, base)
    BY <1>2, <1>8, <1>9, EmptyList DEF SymbolInv
  <2>2. \A i \in 0..Len(extracted.symbols) : \A acc :
           i < Len(extracted.symbols) /\ SymbolInv(symEnv, i, acc)
           => SymbolInv(symEnv, i + 1, SymbolStep(symEnv, acc, extracted.symbols[i + 1]))
    BY InsertSymbolKeepsDb DEF SymbolInv, SymbolStep
  <2>3. extracted.symbols \in Seq(ToSet(extracted.symbols))
    BY DEF IsList
  <2> QED
    BY <1>3, <2>1, <2>2, <2>3, SymbolLoop!FoldLeftKeeps
<1>11. OfFile(id, fs, syms.db) /\ IsList(syms.ids)
  BY <1>2, <1>10 DEF SymbolInv
<1>12. ChunkInv(chunkEnv, Len(syms.ids), withChunks)
  <2>1. ChunkInv(chunkEnv, 0, syms.db)
    BY <1>4, <1>11 DEF ChunkInv
  <2>2. \A i \in 0..Len(syms.ids) : \A c :
           i < Len(syms.ids) /\ ChunkInv(chunkEnv, i, c)
           => ChunkInv(chunkEnv, i + 1, ChunkStep(chunkEnv, c, syms.ids[i + 1]))
    BY InsertChunkKeepsDb DEF ChunkInv, ChunkStep
  <2>3. syms.ids \in Seq(ToSet(syms.ids))
    BY <1>11 DEF IsList
  <2> QED
    BY <1>5, <2>1, <2>2, <2>3, ChunkLoop!FoldLeftKeeps
<1>13. DbOk(withChunks) /\ withChunks.files = fs
  BY <1>4, <1>12 DEF ChunkInv, OfFile
<1> HIDE DEF edgeEnv
<1>14. EdgeInv(edgeEnv, Len(extracted.edges), withEdges)
  <2>1. EdgeInv(edgeEnv, 0, withChunks)
    BY <1>4, <1>13 DEF EdgeInv
  <2>2. \A i \in 0..Len(extracted.edges) : \A c :
           i < Len(extracted.edges) /\ EdgeInv(edgeEnv, i, c)
           => EdgeInv(edgeEnv, i + 1, EdgeStep(edgeEnv, c, extracted.edges[i + 1]))
    BY InsertEdgeKeepsDb DEF EdgeInv, EdgeStep
  <2>3. extracted.edges \in Seq(ToSet(extracted.edges))
    BY DEF IsList
  <2> QED
    BY <1>6, <2>1, <2>2, <2>3, EdgeLoop!FoldLeftKeeps
<1> QED
  BY <1>1, <1>4, <1>14 DEF EdgeInv, fs, row

\* What the first build has stored.
BuiltStep(env, d, f) ==
    InsertFileBundle(d, [path |-> f.path, ns |-> f.ns, mod |-> f.mod,
                         hash |-> InitDisk[f.path].content,
                         size |-> Size[InitDisk[f.path].content], mtime |-> 1],
                     Extracted[InitDisk[f.path].content][f.path])
\* Its rows are those of files that are there, with the texts they have.
BuiltRow(r) ==
    /\ DOMAIN r = FileFields
    /\ r.path \in Paths /\ InitDisk[r.path] # Absent
    /\ r.hash = InitDisk[r.path].content /\ r.mtime = 1

BuiltInv(env, i, d) == DbOk(d) /\ \A r \in d.files : BuiltRow(r)
BuildLoop == INSTANCE FoldInduction WITH Op <- BuiltStep, P <- BuiltInv

LEMMA BuiltOk == DbOk(Built) /\ \A r \in Built.files : BuiltRow(r)
<1> DEFINE present == {f \in Paths : InitDisk[f] # Absent}
           q == ScanRustFiles(present)
           D == {Scanned(p) : p \in Paths \cap present}
<1>1. Built = BuildLoop!Loop(<<>>, EmptyDb, q)
  BY DEF Built, BuiltStep, FoldLeft, MapThenFoldSet, Max, BuildLoop!Loop,
         BuildLoop!FoldLeft, BuildLoop!MapThenFoldSet, BuildLoop!Max
<1>2. q \in Seq(D)
  BY ScanRustFilesType
<1>3. ASSUME NEW f \in D
      PROVE  /\ f.path \in Paths /\ InitDisk[f.path] # Absent
             /\ InitDisk[f.path].content \in DOMAIN Source
  <2>1. PICK p \in Paths \cap present : f = Scanned(p)
    OBVIOUS
  <2>2. f.path = p
    BY <2>1, ScannedPath
  <2> QED
    BY <2>2, ConstantsAssumption
<1> HIDE DEF q, D
<1>4. BuiltInv(<<>>, 0, EmptyDb)
  BY EmptyDbOk DEF BuiltInv, EmptyDb
<1>5. ASSUME NEW i \in 0..Len(q), NEW d, i < Len(q), BuiltInv(<<>>, i, d)
      PROVE  BuiltInv(<<>>, i + 1, BuiltStep(<<>>, d, q[i + 1]))
  <2>1. q[i + 1] \in D
    BY <1>2, <1>5, LenProperties, SMTT(30)
  <2>2. /\ IsList(Extracted[InitDisk[q[i + 1].path].content][q[i + 1].path].symbols)
        /\ IsList(Extracted[InitDisk[q[i + 1].path].content][q[i + 1].path].edges)
    BY <1>3, <2>1, ExtractedLists
  <2> DEFINE f == q[i + 1]
             file == [path |-> f.path, ns |-> f.ns, mod |-> f.mod,
                      hash |-> InitDisk[f.path].content,
                      size |-> Size[InitDisk[f.path].content], mtime |-> 1]
             r == BuiltStep(<<>>, d, f)
  <2>3. DbOk(r) /\ r.files = d.files \cup {FileRow(d, file)}
    BY <1>5, <2>2, InsertFileKeepsDb, Zenon DEF BuiltInv, BuiltStep
  <2>4. BuiltRow(FileRow(d, file))
    BY <1>3, <2>1 DEF BuiltRow, FileRow, FileFields
  <2> HIDE DEF file, r
  <2>5. BuiltInv(<<>>, i + 1, r)
    BY <1>5, <2>3, <2>4 DEF BuiltInv
  <2> QED
    BY <2>5 DEF r
<1>6. BuiltInv(<<>>, Len(q), BuildLoop!Loop(<<>>, EmptyDb, q))
  BY <1>2, <1>4, <1>5, BuildLoop!FoldLeftKeeps
<1> QED
  BY <1>1, <1>6 DEF BuiltInv

-----------------------------------------------------------------------------
(* The processes.                                                          *)

\* A process has scanned files to look at, and a readable text when it is
\* about to write.
MeOk(me) ==
    /\ DOMAIN me = DOMAIN Idle
    /\ me.todo \in Seq({Scanned(p) : p \in Paths})
    /\ me.pc = "meta" => me.src \in DOMAIN Source /\ me.todo # <<>>

DiskOk ==
    /\ DOMAIN disk = Paths
    /\ \A f \in Paths : disk[f] # Absent => disk[f].content \in Contents

IInv ==
    /\ DiskOk
    /\ DOMAIN proc = Procs /\ \A p \in Procs : MeOk(proc[p])
    /\ DbOk(db) /\ DbOk(tx)

LEMMA IdleOk == MeOk(Idle)
BY DEF MeOk, Idle

LEMMA NextFileOk ==
    ASSUME NEW me, MeOk(me), me.todo # <<>>
    PROVE  MeOk(NextFile(me))
<1> DEFINE D == {Scanned(p) : p \in Paths}
<1>1. DOMAIN me = DOMAIN Idle /\ me.todo \in Seq(D)
  BY DEF MeOk
<1> HIDE DEF D
<1>2. Tail(me.todo) \in Seq(D)
  BY <1>1, HeadTailProperties
<1>3. /\ DOMAIN NextFile(me) = DOMAIN Idle
      /\ NextFile(me).todo = Tail(me.todo) /\ NextFile(me).pc = "file"
  BY <1>1 DEF NextFile, Idle
<1> QED
  BY <1>2, <1>3 DEF MeOk, D

\* Where a process goes next without another file to look at.
LEMMA MoveOk ==
    ASSUME NEW me, NEW after, MeOk(me), DOMAIN after = DOMAIN me, after.todo = me.todo,
           after.pc = "meta" => after.src \in DOMAIN Source /\ after.todo # <<>>
    PROVE  MeOk(after)
BY DEF MeOk

LEMMA HeadScanned ==
    ASSUME NEW me, MeOk(me), me.todo # <<>>
    PROVE  Head(me.todo).path \in Paths
<1> DEFINE D == {Scanned(p) : p \in Paths}
<1>1. me.todo \in Seq(D)
  BY DEF MeOk
<1> HIDE DEF D
<1>2. Head(me.todo) \in D
  BY <1>1, HeadTailProperties
<1> QED
  BY <1>2, ScannedPath DEF D

LEMMA StepKeeps ==
    ASSUME IInv, NEW p \in Procs, NEW me, MeOk(me), Step(p, me)
    PROVE  DOMAIN proc' = Procs /\ \A q \in Procs : MeOk(proc'[q])
BY DEF IInv, Step

LEMMA QuitKeeps ==
    ASSUME IInv, NEW p \in Procs, Quit(p), UNCHANGED disk
    PROVE  IInv'
<1>1. DOMAIN proc' = Procs /\ \A q \in Procs : MeOk(proc'[q])
  BY IdleOk DEF IInv, Quit
<1>2. DbOk(db)' /\ DbOk(tx)'
  BY EmptyDbOk DEF IInv, Quit, store
<1>3. DiskOk'
  BY DEF IInv, DiskOk
<1> QED
  BY <1>1, <1>2, <1>3 DEF IInv

LEMMA WorkOk == ASSUME IInv, NEW p PROVE DbOk(Work(p))
BY DEF IInv, Work

-----------------------------------------------------------------------------
(* One step of the system.                                                 *)

LEMMA ChangeKeeps ==
    ASSUME IInv, NEW f \in Paths, NEW file, Change(f, file),
           file # Absent => file.content \in Contents
    PROVE  IInv'
<1>1. ASSUME NEW p \in Procs
      PROVE  MeOk(proc'[p])
  <2>1. MeOk(proc[p])
    BY DEF IInv
  <2>2. proc'[p] = [proc[p] EXCEPT !.alone = FALSE]
    BY DEF Change
  <2>3. /\ DOMAIN proc'[p] = DOMAIN proc[p] /\ proc'[p].todo = proc[p].todo
        /\ proc'[p].pc = proc[p].pc /\ proc'[p].src = proc[p].src
    BY <2>1, <2>2 DEF MeOk, Idle
  <2> QED
    BY <2>1, <2>3 DEF MeOk
<1>2. DOMAIN proc' = Procs
  BY DEF Change
<1>3. DiskOk'
  BY DEF IInv, DiskOk, Change
<1>4. DbOk(db)' /\ DbOk(tx)'
  BY DEF IInv, Change, store
<1> QED
  BY <1>1, <1>2, <1>3, <1>4 DEF IInv

LEMMA StartKeeps ==
    ASSUME IInv, NEW p \in Procs, NEW mode, Start(p, mode)
    PROVE  IInv'
<1> DEFINE me == [Idle EXCEPT !.pc = IF mode = "build" THEN "clear" ELSE "load",
                              !.mode = mode, !.todo = ScanRustFiles(Present),
                              !.alone = Active = {}, !.git = TRUE]
           D == {Scanned(q) : q \in Paths}
<1>1. MeOk(me)
  <2>1. ScanRustFiles(Present) \in Seq({Scanned(q) : q \in Paths \cap Present})
    BY ScanRustFilesType
  <2>2. ScanRustFiles(Present) \in Seq(D)
    BY <2>1
  <2>3. /\ DOMAIN me = DOMAIN Idle /\ me.todo = ScanRustFiles(Present)
        /\ me.pc = IF mode = "build" THEN "clear" ELSE "load"
    BY DEF Idle
  <2> HIDE DEF me
  <2> QED
    BY <2>2, <2>3 DEF MeOk
<1>2. proc' = [q \in Procs |-> IF q = p THEN me ELSE [proc[q] EXCEPT !.alone = FALSE]]
  BY Zenon DEF Start
<1> HIDE DEF me
<1>3. ASSUME NEW q \in Procs
      PROVE  MeOk(proc'[q])
  <2>1. MeOk(proc[q])
    BY DEF IInv
  <2>2. CASE q = p
    BY <1>1, <1>2, <2>2
  <2>3. CASE q # p
    <3>1. proc'[q] = [proc[q] EXCEPT !.alone = FALSE]
      BY <1>2, <2>3
    <3>2. /\ DOMAIN proc'[q] = DOMAIN proc[q] /\ proc'[q].todo = proc[q].todo
          /\ proc'[q].pc = proc[q].pc /\ proc'[q].src = proc[q].src
      BY <2>1, <3>1 DEF MeOk, Idle
    <3> QED
      BY <2>1, <3>2 DEF MeOk
  <2> QED
    BY <2>2, <2>3
<1>4. DOMAIN proc' = Procs
  BY <1>2
<1>5. DiskOk' /\ DbOk(db)' /\ DbOk(tx)'
  BY Zenon DEF IInv, DiskOk, Start, store, files
<1> QED
  BY <1>3, <1>4, <1>5 DEF IInv

\* A process moves, and the database it leaves is a good one.
LEMMA MoveKeeps ==
    ASSUME IInv, NEW p \in Procs, NEW me, MeOk(me), Step(p, me),
           UNCHANGED disk, DbOk(db)', DbOk(tx)'
    PROVE  IInv'
<1>1. DOMAIN proc' = Procs /\ \A q \in Procs : MeOk(proc'[q])
  BY StepKeeps
<1>2. DiskOk'
  BY DEF IInv, DiskOk
<1> QED
  BY <1>1, <1>2 DEF IInv

LEMMA StoreStays == ASSUME IInv, UNCHANGED store PROVE DbOk(db)' /\ DbOk(tx)'
BY DEF IInv, store

LEMMA WriteKeeps ==
    ASSUME IInv, NEW p, NEW d, DbOk(d), Write(p, d) \/ WriteAtOnce(d)
    PROVE  DbOk(db)' /\ DbOk(tx)'
BY DEF IInv, Write, WriteAtOnce

LEMMA LoadKeeps ==
    ASSUME IInv, NEW p \in Procs, LoadFileStates(p)
    PROVE  IInv'
<1> DEFINE me == proc[p]
           known == FileStates(db)
           scanned == {f.path : f \in ToSet(me.todo)}
           doomed == {s.id : s \in {x \in known : x.path \notin scanned}}
           a == [me EXCEPT !.pc = "clear", !.mode = "build"]
           b == [me EXCEPT !.pc = "file", !.known = known, !.doomed = doomed]
<1>1. MeOk(me)
  BY DEF IInv
<1>2. Step(p, IF known = {} THEN a ELSE b) /\ UNCHANGED <<files, store>>
  BY DEF LoadFileStates
<1> HIDE DEF me, known, doomed
<1>3. MeOk(a) /\ MeOk(b)
  <2>1. DOMAIN me = DOMAIN Idle
    BY <1>1 DEF MeOk
  <2>2. /\ DOMAIN a = DOMAIN me /\ a.todo = me.todo /\ a.pc # "meta"
        /\ DOMAIN b = DOMAIN me /\ b.todo = me.todo /\ b.pc # "meta"
    BY <2>1 DEF Idle
  <2> HIDE DEF a, b
  <2> QED
    BY <1>1, <2>2, MoveOk
<1> HIDE DEF a, b
<1> QED
  BY <1>2, <1>3, StoreStays, MoveKeeps DEF files

LEMMA ClearKeeps ==
    ASSUME IInv, NEW p \in Procs, ClearIndex(p)
    PROVE  IInv'
<1> DEFINE me == proc[p]
           a == [me EXCEPT !.pc = "file"]
<1>1. MeOk(me)
  BY DEF IInv
<1>2. Step(p, a) /\ WriteAtOnce(EmptyDb) /\ UNCHANGED files
  BY DEF ClearIndex, ClearAll
<1> HIDE DEF me
<1>3. DOMAIN a = DOMAIN me /\ a.todo = me.todo /\ a.pc # "meta"
  BY <1>1 DEF MeOk, Idle
<1> HIDE DEF a
<1>4. MeOk(a)
  BY <1>1, <1>3, MoveOk
<1> QED
  BY <1>2, <1>4, EmptyDbOk, WriteKeeps, MoveKeeps DEF files

LEMMA VanishedKeeps ==
    ASSUME IInv, NEW p \in Procs, NEW id, DeleteVanished(p, id)
    PROVE  IInv'
<1> DEFINE me == proc[p]
           a == [me EXCEPT !.doomed = @ \ {id}]
<1>1. MeOk(me)
  BY DEF IInv
<1>2. Step(p, a) /\ Write(p, DeleteFileBundle(Work(p), id)) /\ UNCHANGED files /\ me.pc = "file"
  BY DEF DeleteVanished
<1> HIDE DEF me
<1>3. DOMAIN a = DOMAIN me /\ a.todo = me.todo /\ a.pc # "meta"
  BY <1>1, <1>2 DEF MeOk, Idle
<1> HIDE DEF a
<1>4. MeOk(a)
  BY <1>1, <1>3, MoveOk
<1>5. DbOk(DeleteFileBundle(Work(p), id))
  BY WorkOk, DeleteKeepsDb
<1> QED
  BY <1>2, <1>4, <1>5, WriteKeeps, MoveKeeps DEF files

LEMMA StatKeeps ==
    ASSUME IInv, NEW p \in Procs, StatFile(p)
    PROVE  IInv'
<1> DEFINE me == proc[p]
           f == Head(me.todo).path
           a == Statted(me, disk[f])
<1>1. MeOk(me)
  BY DEF IInv
<1>2. /\ me.todo # <<>> /\ UNCHANGED files
      /\ \/ Quit(p)
         \/ Step(p, NextFile(me)) /\ UNCHANGED store
         \/ Step(p, a) /\ UNCHANGED store
  BY Zenon DEF StatFile, AtFile
<1> HIDE DEF me, f
<1>3. DOMAIN a = DOMAIN me /\ a.todo = me.todo /\ a.pc # "meta"
  BY <1>1 DEF MeOk, Idle, Statted
<1> HIDE DEF a
<1>4. MeOk(a) /\ MeOk(NextFile(me))
  BY <1>1, <1>2, <1>3, MoveOk, NextFileOk
<1>5. UNCHANGED disk
  BY <1>2 DEF files
<1>6. CASE Quit(p)
  BY <1>5, <1>6, QuitKeeps
<1>7. CASE Step(p, NextFile(me)) /\ UNCHANGED store
  BY <1>4, <1>5, <1>7, StoreStays, MoveKeeps
<1>8. CASE Step(p, a) /\ UNCHANGED store
  BY <1>4, <1>5, <1>8, StoreStays, MoveKeeps
<1> QED
  BY <1>2, <1>6, <1>7, <1>8

LEMMA ReadKeeps ==
    ASSUME IInv, NEW p \in Procs, ReadFile(p)
    PROVE  IInv'
<1> DEFINE me == proc[p]
           f == Head(me.todo).path
           readable == disk[f] # Absent /\ disk[f].content \notin Unreadable
           a == [me EXCEPT !.pc = "meta", !.src = disk[f].content]
<1>1. MeOk(me)
  BY SMTT(30) DEF IInv
<1>2. /\ me.todo # <<>> /\ UNCHANGED files /\ UNCHANGED store
      /\ Step(p, IF readable THEN a ELSE NextFile(me))
  BY DEF ReadFile, AtFile
<1>3. f \in Paths
  BY <1>1, <1>2, HeadScanned
<1>4. readable => disk[f].content \in DOMAIN Source
  BY <1>3, ConstantsAssumption DEF IInv, DiskOk
<1> HIDE DEF me, f, readable
<1>5. DOMAIN a = DOMAIN me /\ a.todo = me.todo /\ a.src = disk[f].content
  BY <1>1 DEF MeOk, Idle
<1> HIDE DEF a
<1>6. readable => MeOk(a)
  BY <1>1, <1>2, <1>4, <1>5, MoveOk
<1>7. MeOk(NextFile(me))
  BY <1>1, <1>2, NextFileOk
<1> QED
  BY <1>2, <1>6, <1>7, StoreStays, MoveKeeps DEF files

LEMMA GoneKeeps ==
    ASSUME IInv, NEW p \in Procs, VanishedMeanwhile(p)
    PROVE  IInv'
<1>1. MeOk(NextFile(proc[p]))
  BY NextFileOk DEF VanishedMeanwhile, AtFile, IInv
<1> QED
  BY <1>1, StoreStays, MoveKeeps DEF VanishedMeanwhile, files

\* The insertion of a file that was read, whether it succeeds or not.
LEMMA InsertOk ==
    ASSUME NEW d, NEW me, DbOk(d), MeOk(me), me.pc = "meta"
    PROVE  DbOk(Insert(d, me))
<1> DEFINE f == Head(me.todo)
<1>1. f.path \in Paths /\ me.src \in DOMAIN Source
  BY HeadScanned DEF MeOk
<1>2. IsList(Extracted[me.src][f.path].symbols) /\ IsList(Extracted[me.src][f.path].edges)
  BY <1>1, ExtractedLists, SMTT(30)
<1>3. DbOk(InsertFileBundle(d, Record(me), Extracted[me.src][f.path]))
  BY <1>2, InsertFileKeepsDb
<1>4. Insert(d, me) \in {d, InsertFileBundle(d, Record(me), Extracted[me.src][f.path])}
  BY Zenon DEF Insert
<1> QED
  BY <1>3, <1>4

LEMMA WriteFileKeeps ==
    ASSUME IInv, NEW p \in Procs, AddFile(p) \/ TouchFile(p) \/ ReplaceFile(p)
    PROVE  IInv'
<1> DEFINE me == proc[p]
<1>1. MeOk(me)
  BY DEF IInv
<1>2. AtWrite(p) /\ Step(p, NextFile(me)) /\ UNCHANGED files
  BY DEF AddFile, TouchFile, ReplaceFile
<1>3. me.pc = "meta" /\ me.todo # <<>>
  BY <1>2 DEF AtWrite, AtFile
<1>4. MeOk(NextFile(me))
  BY <1>1, <1>3, NextFileOk
<1>5. DbOk(Work(p))
  BY WorkOk
<1>6. \E d : DbOk(d) /\ Write(p, d)
  <2>1. CASE AddFile(p)
    <3>1. Write(p, Insert(Work(p), me))
      BY <2>1 DEF AddFile
    <3>2. DbOk(Insert(Work(p), me))
      BY <1>1, <1>3, <1>5, InsertOk
    <3> QED
      BY <3>1, <3>2
  <2>2. CASE TouchFile(p)
    <3>1. PICK s : Write(p, TouchFileMetadata(Work(p), s.id, me.size, me.stat))
      BY <2>2 DEF TouchFile
    <3>2. DbOk(TouchFileMetadata(Work(p), s.id, me.size, me.stat))
      BY <1>5, TouchKeepsDb
    <3> QED
      BY <3>1, <3>2
  <2>3. CASE ReplaceFile(p)
    <3>1. PICK s : Write(p, Insert(DeleteFileBundle(Work(p), s.id), me))
      BY <2>3 DEF ReplaceFile
    <3>2. DbOk(DeleteFileBundle(Work(p), s.id))
      BY <1>5, DeleteKeepsDb
    <3>3. DbOk(Insert(DeleteFileBundle(Work(p), s.id), me))
      BY <1>1, <1>3, <3>2, InsertOk
    <3> QED
      BY <3>1, <3>3
  <2> QED
    BY <2>1, <2>2, <2>3
<1> QED
  BY <1>2, <1>4, <1>6, WriteKeeps, MoveKeeps DEF files

LEMMA CommitKeeps ==
    ASSUME IInv, NEW p \in Procs, Commit(p)
    PROVE  IInv'
<1> DEFINE me == proc[p]
           a == [me EXCEPT !.pc = "gitload", !.known = {}]
<1>1. MeOk(me)
  BY DEF IInv
<1>2. Step(p, a) /\ UNCHANGED files /\ db' = Work(p) /\ tx' \in {tx, EmptyDb}
  BY DEF Commit
<1>3. DbOk(db)' /\ DbOk(tx)'
  BY <1>2, WorkOk, EmptyDbOk DEF IInv
<1> HIDE DEF me
<1>4. DOMAIN a = DOMAIN me /\ a.todo = me.todo /\ a.pc # "meta"
  BY <1>1 DEF MeOk, Idle
<1> HIDE DEF a
<1>5. MeOk(a)
  BY <1>1, <1>4, MoveOk
<1> QED
  BY <1>2, <1>3, <1>5, MoveKeeps DEF files

LEMMA RefreshKeeps ==
    ASSUME IInv, NEW p \in Procs,
           LoadGitMetrics(p) \/ WriteGitMetrics(p) \/ LoadDerived(p) \/ WriteDerived(p)
    PROVE  IInv'
<1> DEFINE me == proc[p]
           loaded == GitRows(FileIdMap(db), Metrics)
           derived == Derived(db)
           a == [me EXCEPT !.pc = "gitwrite", !.rows = loaded]
           b == [me EXCEPT !.pc = "derive", !.git = FALSE]
           c == [me EXCEPT !.pc = "derive", !.rows = Absent]
           d == [me EXCEPT !.pc = "derivewrite", !.rows = derived]
<1>1. MeOk(me)
  BY DEF IInv
<1>2. /\ Step(p, a) \/ Step(p, b) \/ Step(p, c) \/ Step(p, d) \/ Step(p, Idle)
      /\ UNCHANGED files
  BY DEF LoadGitMetrics, WriteGitMetrics, LoadDerived, WriteDerived
<1>3. DbOk(db)' /\ DbOk(tx)'
  <2>1. CASE LoadGitMetrics(p) \/ LoadDerived(p)
    BY <2>1, StoreStays DEF LoadGitMetrics, LoadDerived
  <2>2. CASE WriteGitMetrics(p)
    <3>1. \E e : e \in {db, ReplaceGitMetrics(db, me.rows)} /\ WriteAtOnce(e)
      BY <2>2 DEF WriteGitMetrics
    <3> QED
      BY <3>1, RefreshKeepsDb, WriteKeeps DEF IInv
  <2>3. CASE WriteDerived(p)
    <3>1. \E e : e \in {db, PersistDerived(db, me.rows)} /\ WriteAtOnce(e)
      BY <2>3 DEF WriteDerived
    <3> QED
      BY <3>1, RefreshKeepsDb, WriteKeeps DEF IInv
  <2> QED
    BY <2>1, <2>2, <2>3
<1> HIDE DEF me, loaded, derived
<1>4. /\ DOMAIN a = DOMAIN me /\ a.todo = me.todo /\ a.pc # "meta"
      /\ DOMAIN b = DOMAIN me /\ b.todo = me.todo /\ b.pc # "meta"
      /\ DOMAIN c = DOMAIN me /\ c.todo = me.todo /\ c.pc # "meta"
      /\ DOMAIN d = DOMAIN me /\ d.todo = me.todo /\ d.pc # "meta"
  BY <1>1 DEF MeOk, Idle
<1> HIDE DEF a, b, c, d
<1>5. MeOk(a) /\ MeOk(b) /\ MeOk(c) /\ MeOk(d) /\ MeOk(Idle)
  BY <1>1, <1>4, MoveOk, IdleOk
<1> QED
  BY <1>2, <1>3, <1>5, MoveKeeps DEF files

LEMMA TimeoutKeeps ==
    ASSUME IInv, NEW p \in Procs, BusyTimeout(p)
    PROVE  IInv'
<1> DEFINE me == proc[p]
           a == [me EXCEPT !.pc = "derive", !.rows = Absent]
<1>1. MeOk(me)
  BY DEF IInv
<1>2. /\ UNCHANGED files /\ UNCHANGED store
      /\ \/ Step(p, NextFile(me)) /\ me.pc = "meta"
         \/ Step(p, a)
         \/ Step(p, Idle)
  BY DEF BusyTimeout
<1> HIDE DEF me
<1>3. DOMAIN a = DOMAIN me /\ a.todo = me.todo /\ a.pc # "meta"
  BY <1>1 DEF MeOk, Idle
<1> HIDE DEF a
<1>4. MeOk(a) /\ MeOk(Idle)
  BY <1>1, <1>3, MoveOk, IdleOk
<1>5. me.pc = "meta" => MeOk(NextFile(me))
  BY <1>1, NextFileOk DEF MeOk
<1> QED
  BY <1>2, <1>4, <1>5, StoreStays, MoveKeeps DEF files

LEMMA NextIInv ==
    ASSUME IInv, [Next]_vars
    PROVE  IInv'
<1>1. CASE UNCHANGED vars
  BY <1>1 DEF IInv, DiskOk, vars
<1>2. ASSUME NEW f \in Paths, NEW c \in Contents, WriteFile(f, c)
      PROVE  IInv'
  <2> DEFINE file == [content |-> c, mtime |-> clock + 1]
  <2>1. Change(f, file) /\ file.content \in Contents
    BY <1>2 DEF WriteFile
  <2> HIDE DEF file
  <2> QED
    BY <2>1, ChangeKeeps
<1>3. ASSUME NEW f \in Paths, RemoveFile(f)
      PROVE  IInv'
  BY <1>3, ChangeKeeps DEF RemoveFile
<1>4. ASSUME NEW p \in Procs, NEW mode \in {"build", "update"}, Start(p, mode)
      PROVE  IInv'
  BY <1>4, StartKeeps
<1>5. ASSUME NEW p \in Procs, Run(p)
      PROVE  IInv'
  BY <1>5, LoadKeeps, ClearKeeps, VanishedKeeps, StatKeeps, ReadKeeps, GoneKeeps,
     WriteFileKeeps, CommitKeeps, RefreshKeeps, TimeoutKeeps DEF Run
<1>6. ASSUME NEW p \in Procs, Crash(p)
      PROVE  IInv'
  BY <1>6, QuitKeeps DEF Crash, files
<1> QED
  BY <1>1, <1>2, <1>3, <1>4, <1>5, <1>6 DEF Next

LEMMA InitIInv == Init => IInv
<1> SUFFICES ASSUME Init PROVE IInv
  OBVIOUS
<1>1. DiskOk
  BY ConstantsAssumption DEF Init, DiskOk
<1>2. DOMAIN proc = Procs /\ \A p \in Procs : MeOk(proc[p])
  BY IdleOk DEF Init
<1>3. DbOk(db) /\ DbOk(tx)
  BY BuiltOk, EmptyDbOk DEF Init
<1> QED
  BY <1>1, <1>2, <1>3 DEF IInv

LEMMA WellFormed == Spec => []IInv
<1>1. Init => IInv
  BY InitIInv
<1>2. IInv /\ [Next]_vars => IInv'
  BY NextIInv
<1> QED
  BY <1>1, <1>2, PTL DEF Spec

\* The full-text tables of the committed index hold exactly the ids of the
\* files, symbols and chunks that are indexed, whatever processes, crashes,
\* time-outs and changes of files there are (delete_file_bundle and
\* insert_file_bundle are all that keeps them so).
THEOREM FullTextMirrorsRows == Spec => []FtsMirrorsRows
<1>1. IInv => FtsMirrorsRows
  BY DEF IInv, DbOk, Mirrors, FtsMirrorsRows
<1> QED
  BY <1>1, WellFormed, PTL

\* No qualified name is that of two symbols: the suffix that
\* insert_symbol_record looks for exists and is found, however many files
\* and items have the name, and no deletion and no transaction that dies
\* brings a name back beside the one that took it.
THEOREM NamesStayUnique == Spec => []NamesDiffer(db.symbols)
<1>1. IInv => NamesDiffer(db.symbols)
  BY DEF IInv, DbOk
<1> QED
  BY <1>1, WellFormed, PTL

-----------------------------------------------------------------------------
(* Size and modification time stand for the text.  What is known of a row  *)
(* and of a process is about the disk, the time and what was observed of   *)
(* the races so far.                                                       *)

Pcs == {"idle", "load", "clear", "file", "read", "meta",
        "gitload", "gitwrite", "derive", "derivewrite"}

\* The text a process has read is that of the time it has seen, as long as
\* the file has that time.
MeTrue(dsk, now, me) ==
    /\ me.pc \in Pcs
    /\ me.src \in DOMAIN Source \cup {Absent}
    /\ me.stat \in 0..now
    /\ me.pc = "meta" =>
          LET f == Head(me.todo).path
          IN  dsk[f] # Absent /\ dsk[f].mtime = me.stat => dsk[f].content = me.src

\* A row has the text of the time it has, or there was a race.
RowTrue(dsk, now, raced, r) ==
    /\ DOMAIN r = FileFields
    /\ r.path \in Paths /\ r.hash \in DOMAIN Source /\ r.mtime \in 0..now
    /\ dsk[r.path] # Absent /\ r.mtime = dsk[r.path].mtime /\ r.hash # dsk[r.path].content
          => <<r.path, r.mtime>> \in raced

TimesOk(dsk, now) ==
    now \in Nat /\ \A f \in Paths : dsk[f] # Absent => dsk[f].mtime \in 1..now

JInv ==
    /\ TimesOk(disk, clock)
    /\ writer \in Procs \cup {NoProc}
    /\ settled \in {"yes", "nogit", "no"}
    /\ \A p \in Procs : MeTrue(disk, clock, proc[p])
    /\ \A r \in db.files : RowTrue(disk, clock, torn \cup crossed, r)
    /\ \A r \in tx.files : RowTrue(disk, clock, torn \cup crossed, r)

LEMMA InitJInv == Init => JInv
<1> SUFFICES ASSUME Init PROVE JInv
  OBVIOUS
<1>1. TimesOk(disk, clock)
  BY ConstantsAssumption DEF Init, TimesOk
<1>2. \A p \in Procs : MeTrue(disk, clock, proc[p])
  BY DEF Init, MeTrue, Idle, Pcs
<1>3. \A r \in db.files : RowTrue(disk, clock, torn \cup crossed, r)
  <2>1. db = Built /\ disk = InitDisk /\ clock = 1
    BY DEF Init
  <2>2. ASSUME NEW r \in db.files
        PROVE  RowTrue(disk, clock, torn \cup crossed, r)
    <3>1. BuiltRow(r)
      BY <2>1, BuiltOk
    <3>2. InitDisk[r.path].content \in DOMAIN Source
      BY <3>1, ConstantsAssumption DEF BuiltRow
    <3> QED
      BY <2>1, <3>1, <3>2 DEF RowTrue, BuiltRow
  <2> QED
    BY <2>2
<1>4. tx.files = {}
  BY DEF Init, EmptyDb
<1> QED
  BY <1>1, <1>2, <1>3, <1>4 DEF JInv, Init

LEMMA ChangeKeepsTruth ==
    ASSUME IInv, JInv, NEW f \in Paths, NEW file, Change(f, file),
           file # Absent => file.mtime = clock + 1
    PROVE  JInv'
<1>1. clock \in Nat /\ clock' = clock + 1
  BY DEF JInv, TimesOk, Change
<1>2. DOMAIN disk = Paths /\ disk' = [disk EXCEPT ![f] = file]
  BY DEF Change, IInv, DiskOk
<1>3. TimesOk(disk', clock')
  <2>1. ASSUME NEW g \in Paths, disk'[g] # Absent
        PROVE  disk'[g].mtime \in 1..clock'
    <3>1. CASE g = f
      BY <1>1, <1>2, <2>1, <3>1
    <3>2. CASE g # f
      BY <1>1, <1>2, <2>1, <3>2 DEF JInv, TimesOk
    <3> QED
      BY <3>1, <3>2
  <2> QED
    BY <1>1, <2>1 DEF TimesOk
<1>4. ASSUME NEW p \in Procs
      PROVE  MeTrue(disk', clock', proc'[p])
  <2> DEFINE g == Head(proc[p].todo).path
  <2>1. MeOk(proc[p]) /\ MeTrue(disk, clock, proc[p])
    BY DEF IInv, JInv
  <2>2. proc'[p] = [proc[p] EXCEPT !.alone = FALSE]
    BY DEF Change
  <2>3. /\ proc'[p].todo = proc[p].todo /\ proc'[p].pc = proc[p].pc
        /\ proc'[p].src = proc[p].src /\ proc'[p].stat = proc[p].stat
    BY <2>1, <2>2 DEF MeOk, Idle
  <2>4. proc[p].stat \in 0..clock
    BY <2>1 DEF MeTrue
  <2>5. proc[p].pc = "meta" => g \in Paths
    BY <2>1, HeadScanned DEF MeOk
  <2>6. ASSUME proc[p].pc = "meta", disk'[g] # Absent, disk'[g].mtime = proc[p].stat
        PROVE  disk'[g].content = proc[p].src
    <3>1. CASE g = f
      <4>1. disk'[g].mtime = clock + 1
        BY <1>2, <2>6, <3>1
      <4> QED
        BY <1>1, <2>4, <2>6, <4>1
    <3>2. CASE g # f
      BY <1>2, <2>1, <2>5, <2>6, <3>2 DEF MeTrue
    <3> QED
      BY <3>1, <3>2
  <2> QED
    BY <1>1, <2>1, <2>3, <2>4, <2>6 DEF MeTrue
<1>5. ASSUME NEW r, RowTrue(disk, clock, torn \cup crossed, r)
      PROVE  RowTrue(disk', clock', torn' \cup crossed', r)
  <2>1. /\ DOMAIN r = FileFields
        /\ r.path \in Paths /\ r.hash \in DOMAIN Source /\ r.mtime \in 0..clock
    BY <1>5 DEF RowTrue
  <2>2. CASE r.path = f
    <3>1. disk'[f] # Absent => disk'[f].mtime = clock + 1
      BY <1>2
    <3> QED
      BY <1>1, <2>1, <2>2, <3>1 DEF RowTrue
  <2>3. CASE r.path # f
    <3>1. disk'[r.path] = disk[r.path]
      BY <1>2, <2>1, <2>3
    <3> DEFINE x == <<r.path, r.mtime>>
    <3>2. x[1] = r.path
      OBVIOUS
    <3> HIDE DEF x
    <3>3. x \in torn \cup crossed => x \in torn' \cup crossed'
      BY <2>3, <3>2 DEF Change
    <3> QED
      BY <1>1, <1>5, <2>1, <3>1, <3>3 DEF RowTrue, x
  <2> QED
    BY <2>2, <2>3
<1>6. /\ \A r \in db'.files : RowTrue(disk', clock', torn' \cup crossed', r)
      /\ \A r \in tx'.files : RowTrue(disk', clock', torn' \cup crossed', r)
  BY <1>5 DEF JInv, Change, store
<1> QED
  BY <1>3, <1>4, <1>6 DEF JInv, Change, store

\* A step that leaves the files alone: where a process goes, and what it makes
\* of the database.
LEMMA MoveKeepsTruth ==
    ASSUME IInv, JInv, NEW p \in Procs, NEW me, Step(p, me), MeTrue(disk, clock, me),
           UNCHANGED files, torn \subseteq torn', crossed \subseteq crossed',
           writer' \in Procs \cup {NoProc}, settled' \in {"yes", "nogit", "no"},
           \A r \in db'.files \cup tx'.files :
              \/ r \in db.files \cup tx.files
              \/ RowTrue(disk, clock, torn' \cup crossed', r)
    PROVE  JInv'
<1>1. UNCHANGED <<disk, clock>>
  BY DEF files
<1>2. \A q \in Procs : MeTrue(disk, clock, proc'[q])
  BY DEF JInv, IInv, Step
<1>3. ASSUME NEW r \in db'.files \cup tx'.files
      PROVE  RowTrue(disk, clock, torn' \cup crossed', r)
  <2>1. CASE r \in db.files \cup tx.files
    <3>1. RowTrue(disk, clock, torn \cup crossed, r)
      BY <2>1 DEF JInv
    <3> QED
      BY <3>1 DEF RowTrue
  <2> QED
    BY <2>1
<1> QED
  BY <1>1, <1>2, <1>3 DEF JInv

\* Going on with the next file, or somewhere that is not the writing of it.
LEMMA MeMoves ==
    ASSUME NEW dsk, NEW now, now \in Nat, NEW me, NEW after, MeTrue(dsk, now, me),
           after.pc \in Pcs \ {"meta"}, after.src \in {me.src, Absent},
           after.stat \in {me.stat, 0}
    PROVE  MeTrue(dsk, now, after)
BY DEF MeTrue

LEMMA NextFileTrue ==
    ASSUME NEW dsk, NEW now, now \in Nat, NEW me, MeOk(me), MeTrue(dsk, now, me)
    PROVE  MeTrue(dsk, now, NextFile(me))
<1>1. DOMAIN me = DOMAIN Idle
  BY DEF MeOk
<1>2. /\ NextFile(me).pc = "file" /\ NextFile(me).src = Absent /\ NextFile(me).stat = 0
  BY <1>1 DEF NextFile, Idle
<1> QED
  BY <1>2, MeMoves DEF Pcs

LEMMA IdleTrue == ASSUME NEW dsk, NEW now, now \in Nat PROVE MeTrue(dsk, now, Idle)
BY DEF MeTrue, Idle, Pcs

LEMMA StartKeepsTruth ==
    ASSUME IInv, JInv, NEW p \in Procs, NEW mode, Start(p, mode)
    PROVE  JInv'
<1>1. ASSUME NEW q \in Procs
      PROVE  MeTrue(disk, clock, proc'[q])
  <2>1. MeOk(proc[q]) /\ MeTrue(disk, clock, proc[q]) /\ clock \in Nat
    BY DEF IInv, JInv, TimesOk
  <2>2. CASE q = p
    <3>1. /\ proc'[q].pc \in {"clear", "load"}
          /\ proc'[q].src = Absent /\ proc'[q].stat = 0
      BY <2>2, Zenon DEF Start, Idle
    <3> QED
      BY <2>1, <3>1, MeMoves DEF Pcs
  <2>3. CASE q # p
    <3>1. proc'[q] = [proc[q] EXCEPT !.alone = FALSE]
      BY <2>3, Zenon DEF Start
    <3>2. /\ proc'[q].todo = proc[q].todo /\ proc'[q].pc = proc[q].pc
          /\ proc'[q].src = proc[q].src /\ proc'[q].stat = proc[q].stat
      BY <2>1, <3>1 DEF MeOk, Idle
    <3> QED
      BY <2>1, <3>2 DEF MeTrue
  <2> QED
    BY <2>2, <2>3
<1>2. UNCHANGED <<disk, clock, db, tx, writer, torn, crossed>> /\ settled' = "no"
  BY Zenon DEF Start, files, store, seen
<1> QED
  BY <1>1, <1>2 DEF JInv

LEMMA QuitKeepsTruth ==
    ASSUME IInv, JInv, NEW p \in Procs, Quit(p), UNCHANGED <<files, seen, settled>>
    PROVE  JInv'
<1>1. Step(p, Idle)
  BY DEF Quit, Step
<1>2. /\ db'.files \cup tx'.files \subseteq db.files \cup tx.files
      /\ writer' \in Procs \cup {NoProc}
  BY DEF Quit, store, EmptyDb, JInv
<1>3. MeTrue(disk, clock, Idle)
  BY IdleTrue DEF JInv, TimesOk
<1> QED
  BY <1>1, <1>2, <1>3, MoveKeepsTruth DEF seen, JInv

\* The steps that write no row of a file.
LEMMA LookKeepsTruth ==
    ASSUME IInv, JInv, NEW p \in Procs,
           LoadFileStates(p) \/ StatFile(p) \/ ReadFile(p) \/ VanishedMeanwhile(p)
    PROVE  JInv'
<1> DEFINE me == proc[p]
           f == Head(me.todo).path
<1>1. MeOk(me) /\ MeTrue(disk, clock, me) /\ clock \in Nat
  BY DEF IInv, JInv, TimesOk
<1>2. DOMAIN me = DOMAIN Idle
  BY <1>1 DEF MeOk
<1>3. MeTrue(disk, clock, NextFile(me))
  BY <1>1, NextFileTrue
<1>4. me.todo # <<>> => f \in Paths
  BY <1>1, HeadScanned
<1>5. UNCHANGED <<files, seen, settled>>
  BY Zenon DEF LoadFileStates, StatFile, ReadFile, VanishedMeanwhile
<1>6. ASSUME NEW a, Step(p, a), MeTrue(disk, clock, a), UNCHANGED store
      PROVE  JInv'
  BY <1>5, <1>6, MoveKeepsTruth DEF store, seen, JInv
<1>7. CASE LoadFileStates(p)
  <2>1. PICK known, doomed :
           \/ Step(p, [me EXCEPT !.pc = "clear", !.mode = "build"])
           \/ Step(p, [me EXCEPT !.pc = "file", !.known = known, !.doomed = doomed])
    BY <1>7, Zenon DEF LoadFileStates
  <2> DEFINE a == [me EXCEPT !.pc = "clear", !.mode = "build"]
             b == [me EXCEPT !.pc = "file", !.known = known, !.doomed = doomed]
  <2>2. /\ a.pc = "clear" /\ a.src = me.src /\ a.stat = me.stat
        /\ b.pc = "file" /\ b.src = me.src /\ b.stat = me.stat
    BY <1>2 DEF Idle
  <2> HIDE DEF a, b, me
  <2>3. MeTrue(disk, clock, a) /\ MeTrue(disk, clock, b)
    BY <1>1, <2>2, MeMoves DEF Pcs
  <2>4. UNCHANGED store
    BY <1>7 DEF LoadFileStates
  <2> QED
    BY <1>6, <2>1, <2>3, <2>4 DEF a, b
<1>8. CASE StatFile(p)
  <2> DEFINE a == Statted(me, disk[f])
  <2>1. /\ me.todo # <<>>
        /\ \/ Quit(p)
           \/ Step(p, NextFile(me)) /\ UNCHANGED store
           \/ Step(p, a) /\ UNCHANGED store /\ disk[f] # Absent
    BY <1>8, Zenon DEF StatFile, AtFile
  <2>2. a.pc = "read" /\ a.src = me.src /\ a.stat = disk[f].mtime
    BY <1>2 DEF Idle, Statted
  <2>3. disk[f] # Absent => disk[f].mtime \in 0..clock
    BY <1>4, <2>1 DEF JInv, TimesOk
  <2> HIDE DEF a, me, f
  <2>4. disk[f] # Absent => MeTrue(disk, clock, a)
    BY <1>1, <2>2, <2>3 DEF MeTrue, Pcs
  <2>5. CASE Quit(p)
    BY <1>5, <2>5, QuitKeepsTruth
  <2>6. CASE ~Quit(p)
    BY <1>3, <1>6, <2>1, <2>4, <2>6
  <2> QED
    BY <2>5, <2>6
<1>9. CASE ReadFile(p)
  <2> DEFINE readable == disk[f] # Absent /\ disk[f].content \notin Unreadable
             a == [me EXCEPT !.pc = "meta", !.src = disk[f].content]
  <2>1. /\ me.todo # <<>> /\ UNCHANGED store
        /\ Step(p, IF readable THEN a ELSE NextFile(me))
    BY <1>9, Zenon DEF ReadFile, AtFile
  <2>2. /\ a.pc = "meta" /\ a.src = disk[f].content /\ a.stat = me.stat /\ a.todo = me.todo
    BY <1>2, SMTT(30) DEF Idle
  <2>3. readable => disk[f].content \in DOMAIN Source
    BY <1>4, <2>1, ConstantsAssumption DEF IInv, DiskOk
  <2> HIDE DEF a, readable
  <2>4. readable => MeTrue(disk, clock, a)
    BY <1>1, <2>2, <2>3 DEF MeTrue, Pcs
  <2> QED
    BY <1>3, <1>6, <2>1, <2>4
<1>10. CASE VanishedMeanwhile(p)
  BY <1>3, <1>6, <1>10 DEF VanishedMeanwhile
<1> QED
  BY <1>7, <1>8, <1>9, <1>10

\* Deletions, the full reset, the commit and what comes after it.
LEMMA NoRowKeepsTruth ==
    ASSUME IInv, JInv, NEW p \in Procs,
           \/ ClearIndex(p) \/ \E id \in proc[p].doomed : DeleteVanished(p, id)
           \/ Commit(p) \/ LoadGitMetrics(p) \/ WriteGitMetrics(p)
           \/ LoadDerived(p) \/ WriteDerived(p) \/ BusyTimeout(p)
    PROVE  JInv'
<1> DEFINE me == proc[p]
<1>1. MeOk(me) /\ MeTrue(disk, clock, me) /\ clock \in Nat
  BY DEF IInv, JInv, TimesOk
<1>2. DOMAIN me = DOMAIN Idle
  BY <1>1 DEF MeOk
<1>3. \E a : Step(p, a) /\ MeTrue(disk, clock, a)
  <2>1. PICK doomed, loaded, derived :
           \/ Step(p, NextFile(me))
           \/ Step(p, Idle)
           \/ Step(p, [me EXCEPT !.pc = "file"])
           \/ Step(p, [me EXCEPT !.doomed = doomed]) /\ me.pc = "file"
           \/ Step(p, [me EXCEPT !.pc = "gitload", !.known = {}])
           \/ Step(p, [me EXCEPT !.pc = "gitwrite", !.rows = loaded])
           \/ Step(p, [me EXCEPT !.pc = "derive", !.git = FALSE])
           \/ Step(p, [me EXCEPT !.pc = "derive", !.rows = Absent])
           \/ Step(p, [me EXCEPT !.pc = "derivewrite", !.rows = derived])
    <3>1. CASE \E id \in proc[p].doomed : DeleteVanished(p, id)
      BY <3>1, Zenon DEF DeleteVanished
    <3>2. CASE LoadGitMetrics(p) \/ WriteGitMetrics(p)
      BY <3>2, Zenon DEF LoadGitMetrics, WriteGitMetrics
    <3>3. CASE LoadDerived(p) \/ WriteDerived(p)
      BY <3>3, Zenon DEF LoadDerived, WriteDerived
    <3>4. CASE BusyTimeout(p)
      BY <3>4, Zenon DEF BusyTimeout
    <3>5. CASE ClearIndex(p) \/ Commit(p)
      BY <3>5, Zenon DEF ClearIndex, Commit
    <3> QED
      BY <3>1, <3>2, <3>3, <3>4, <3>5, Zenon
  <2> DEFINE a == [me EXCEPT !.pc = "file"]
             b == [me EXCEPT !.doomed = doomed]
             c == [me EXCEPT !.pc = "gitload", !.known = {}]
             d == [me EXCEPT !.pc = "gitwrite", !.rows = loaded]
             e == [me EXCEPT !.pc = "derive", !.git = FALSE]
             g == [me EXCEPT !.pc = "derive", !.rows = Absent]
             h == [me EXCEPT !.pc = "derivewrite", !.rows = derived]
  <2>2. /\ a.pc = "file" /\ a.src = me.src /\ a.stat = me.stat
        /\ b.pc = me.pc /\ b.src = me.src /\ b.stat = me.stat
        /\ c.pc = "gitload" /\ c.src = me.src /\ c.stat = me.stat
        /\ d.pc = "gitwrite" /\ d.src = me.src /\ d.stat = me.stat
        /\ e.pc = "derive" /\ e.src = me.src /\ e.stat = me.stat
        /\ g.pc = "derive" /\ g.src = me.src /\ g.stat = me.stat
        /\ h.pc = "derivewrite" /\ h.src = me.src /\ h.stat = me.stat
    BY <1>2 DEF Idle
  <2> HIDE DEF a, b, c, d, e, g, h, me
  <2>3. /\ MeTrue(disk, clock, a) /\ MeTrue(disk, clock, c) /\ MeTrue(disk, clock, d)
        /\ MeTrue(disk, clock, e) /\ MeTrue(disk, clock, g) /\ MeTrue(disk, clock, h)
        /\ me.pc = "file" => MeTrue(disk, clock, b)
        /\ MeTrue(disk, clock, Idle) /\ MeTrue(disk, clock, NextFile(me))
    BY <1>1, <2>2, MeMoves, IdleTrue, NextFileTrue DEF Pcs
  <2> QED
    BY <2>1, <2>3 DEF a, b, c, d, e, g, h
<1>4. /\ UNCHANGED <<files, seen>> /\ settled' \in {"yes", "nogit", "no"}
  BY DEF ClearIndex, DeleteVanished, Commit, LoadGitMetrics, WriteGitMetrics,
         LoadDerived, WriteDerived, BusyTimeout, JInv
<1>5. /\ db'.files \cup tx'.files \subseteq db.files \cup tx.files
      /\ writer' \in Procs \cup {NoProc}
  <2>1. CASE ClearIndex(p)
    BY <2>1 DEF ClearIndex, ClearAll, EmptyDb, WriteAtOnce, JInv
  <2>2. CASE \E id \in proc[p].doomed : DeleteVanished(p, id)
    <3>1. PICK id : Write(p, DeleteFileBundle(Work(p), id))
      BY <2>2 DEF DeleteVanished
    <3>2. DeleteFileBundle(Work(p), id).files \subseteq Work(p).files
      BY WorkOk, DeleteKeepsDb
    <3> QED
      BY <3>1, <3>2 DEF Write, Work
  <2>3. CASE Commit(p)
    BY <2>3 DEF Commit, Work, EmptyDb, JInv
  <2>4. CASE LoadGitMetrics(p) \/ LoadDerived(p) \/ BusyTimeout(p)
    BY <2>4 DEF LoadGitMetrics, LoadDerived, BusyTimeout, store, JInv
  <2>5. CASE WriteGitMetrics(p) \/ WriteDerived(p)
    <3>1. DOMAIN db = DOMAIN EmptyDb
      BY DEF IInv, DbOk
    <3>2. ASSUME NEW rows
          PROVE  /\ ReplaceGitMetrics(db, rows).files = db.files
                 /\ PersistDerived(db, rows).files = db.files
      BY <3>1 DEF ReplaceGitMetrics, PersistDerived, EmptyDb
    <3>3. PICK d : WriteAtOnce(d) /\ d \in {db, ReplaceGitMetrics(db, me.rows),
                                            PersistDerived(db, me.rows)}
      BY <2>5 DEF WriteGitMetrics, WriteDerived
    <3> QED
      BY <3>2, <3>3 DEF WriteAtOnce, JInv
  <2> QED
    BY <2>1, <2>2, <2>3, <2>4, <2>5, SMTT(30)
<1> QED
  BY <1>3, <1>4, <1>5, MoveKeepsTruth DEF seen

\* The row of a file that is written now, with what prepare_file_bundle read.
LEMMA InsertKeepsTruth ==
    ASSUME IInv, JInv, NEW p \in Procs, AtWrite(p), NEW d, DbOk(d),
           d.files \subseteq db.files \cup tx.files,
           Write(p, Insert(d, proc[p])), Observe(proc[p], Head(proc[p].todo).path),
           Step(p, NextFile(proc[p])), UNCHANGED <<files, settled>>
    PROVE  JInv'
<1> DEFINE me == proc[p]
           f == Head(me.todo).path
           row == FileRow(d, Record(me))
<1>1. MeOk(me) /\ MeTrue(disk, clock, me) /\ clock \in Nat
  BY DEF IInv, JInv, TimesOk
<1>2. me.pc = "meta" /\ me.todo # <<>> /\ disk[f] # Absent
  BY DEF AtWrite, AtFile
<1>3. f \in Paths /\ me.src \in DOMAIN Source /\ disk[f].mtime \in 1..clock
  BY <1>1, <1>2, HeadScanned DEF MeOk, JInv, TimesOk
<1>4. /\ DOMAIN row = FileFields /\ row.path = f /\ row.hash = me.src
      /\ row.mtime = disk[f].mtime
  BY SMTT(30) DEF FileRow, Record, FileFields
<1>5. torn \subseteq torn' /\ UNCHANGED crossed
      /\ (disk[f].content # me.src => <<f, disk[f].mtime>> \in torn')
  BY SMTT(30) DEF Observe
<1> HIDE DEF row
<1>6. RowTrue(disk, clock, torn' \cup crossed', row)
  BY <1>1, <1>3, <1>4, <1>5 DEF RowTrue
<1>7. Insert(d, me).files \subseteq d.files \cup {row}
  <2>1. IsList(Extracted[me.src][f].symbols) /\ IsList(Extracted[me.src][f].edges)
    BY <1>3, ExtractedLists
  <2>2. InsertFileBundle(d, Record(me), Extracted[me.src][f]).files = d.files \cup {row}
    BY <2>1, InsertFileKeepsDb, Zenon DEF row
  <2>3. Insert(d, me) \in {d, InsertFileBundle(d, Record(me), Extracted[me.src][f])}
    BY Zenon DEF Insert
  <2> QED
    BY <2>2, <2>3, SMTT(30)
<1>8. \A r \in db'.files \cup tx'.files :
         r \in db.files \cup tx.files \/ RowTrue(disk, clock, torn' \cup crossed', r)
  BY <1>6, <1>7 DEF Write
<1>9. MeTrue(disk, clock, NextFile(me))
  BY <1>1, NextFileTrue
<1> QED
  BY <1>5, <1>8, <1>9, MoveKeepsTruth DEF Write, JInv

LEMMA TouchKeepsTruth ==
    ASSUME IInv, JInv, NEW p \in Procs, TouchFile(p)
    PROVE  JInv'
<1> DEFINE me == proc[p]
           f == Head(me.todo).path
           d == Work(p)
<1>1. MeOk(me) /\ MeTrue(disk, clock, me) /\ clock \in Nat
  BY DEF IInv, JInv, TimesOk
<1>2. me.pc = "meta" /\ me.todo # <<>> /\ disk[f] # Absent
  BY DEF TouchFile, AtWrite, AtFile
<1>3. PICK s : /\ s.hash = me.src
               /\ Write(p, TouchFileMetadata(d, s.id, me.size, me.stat))
               /\ crossed' = crossed \cup
                     {<<r.path, me.stat>> : r \in {x \in d.files :
                           x.id = s.id /\ <<x.path, x.hash>> # <<f, s.hash>>}}
  BY DEF TouchFile
<1>4. DbOk(d) /\ d.files \subseteq db.files \cup tx.files
  BY WorkOk DEF Work
<1> DEFINE touched(r) == Touched(r, me.size, me.stat)
<1>5. \A r \in tx'.files : r \in d.files \/ \E x \in d.files : x.id = s.id /\ r = touched(x)
  <2> DEFINE size == me.size
             mtime == me.stat
  <2>1. tx' = TouchFileMetadata(d, s.id, size, mtime)
    BY <1>3 DEF Write
  <2> HIDE DEF d, size, mtime
  <2>2. \A r \in tx'.files :
           \/ r \in d.files
           \/ \E x \in d.files : x.id = s.id /\ r = Touched(x, size, mtime)
    BY <1>4, <2>1, TouchKeepsDb
  <2> QED
    BY <2>2 DEF size, mtime
<1>6. ASSUME NEW x \in d.files, x.id = s.id
      PROVE  RowTrue(disk, clock, torn' \cup crossed', touched(x))
  <2> DEFINE r == touched(x)
  <2>1. /\ DOMAIN x = FileFields /\ x.path \in Paths /\ x.hash \in DOMAIN Source
    BY <1>4 DEF JInv, RowTrue
  <2>2. DOMAIN r = FileFields /\ r.path = x.path /\ r.hash = x.hash /\ r.mtime = me.stat
    BY <2>1 DEF FileFields, Touched
  <2>3. me.stat \in 0..clock /\ (disk[f].mtime = me.stat => disk[f].content = me.src)
    BY <1>1, <1>2 DEF MeTrue
  <2>4. CASE <<x.path, x.hash>> # <<f, s.hash>>
    <3>1. <<r.path, r.mtime>> \in crossed'
      BY <1>3, <1>6, <2>2, <2>4
    <3> HIDE DEF r
    <3> QED
      BY <2>1, <2>2, <2>3, <3>1 DEF RowTrue, r
  <2>5. CASE <<x.path, x.hash>> = <<f, s.hash>>
    <3>1. x.path = f /\ x.hash = me.src
      BY <1>3, <2>5
    <3> HIDE DEF r
    <3> QED
      BY <2>1, <2>2, <2>3, <3>1 DEF RowTrue, r
  <2> QED
    BY <2>4, <2>5
<1> HIDE DEF touched
<1>7. \A r \in db'.files \cup tx'.files :
         r \in db.files \cup tx.files \/ RowTrue(disk, clock, torn' \cup crossed', r)
  BY <1>3, <1>4, <1>5, <1>6 DEF Write
<1>8. MeTrue(disk, clock, NextFile(me)) /\ Step(p, NextFile(me))
  BY <1>1, NextFileTrue DEF TouchFile
<1>9. /\ UNCHANGED <<files, torn, settled>> /\ crossed \subseteq crossed'
      /\ writer' \in Procs \cup {NoProc}
  BY <1>3 DEF TouchFile, Write
<1> QED
  BY <1>7, <1>8, <1>9, MoveKeepsTruth DEF JInv

LEMMA NextJInv ==
    ASSUME IInv, JInv, [Next]_vars
    PROVE  JInv'
<1>1. CASE UNCHANGED vars
  BY <1>1 DEF JInv, vars
<1>2. ASSUME NEW f \in Paths, NEW c \in Contents, WriteFile(f, c)
      PROVE  JInv'
  <2> DEFINE file == [content |-> c, mtime |-> clock + 1]
  <2>1. Change(f, file) /\ file.mtime = clock + 1
    BY <1>2 DEF WriteFile
  <2> HIDE DEF file
  <2> QED
    BY <2>1, ChangeKeepsTruth
<1>3. ASSUME NEW f \in Paths, RemoveFile(f)
      PROVE  JInv'
  BY <1>3, ChangeKeepsTruth DEF RemoveFile
<1>4. ASSUME NEW p \in Procs, NEW mode \in {"build", "update"}, Start(p, mode)
      PROVE  JInv'
  BY <1>4, StartKeepsTruth
<1>5. ASSUME NEW p \in Procs, Run(p)
      PROVE  JInv'
  <2>1. CASE AddFile(p)
    <3> DEFINE d == Work(p)
    <3>1. DbOk(d) /\ d.files \subseteq db.files \cup tx.files
      BY WorkOk DEF Work
    <3> HIDE DEF d
    <3> QED
      BY <2>1, <3>1, InsertKeepsTruth DEF AddFile, d
  <2>2. CASE ReplaceFile(p)
    <3>1. PICK s : Write(p, Insert(DeleteFileBundle(Work(p), s.id), proc[p]))
      BY <2>2 DEF ReplaceFile
    <3> DEFINE d == DeleteFileBundle(Work(p), s.id)
    <3>2. DbOk(d) /\ d.files \subseteq Work(p).files
      BY WorkOk, DeleteKeepsDb
    <3> HIDE DEF d
    <3>3. d.files \subseteq db.files \cup tx.files
      BY <3>2 DEF Work
    <3> QED
      BY <2>2, <3>1, <3>2, <3>3, InsertKeepsTruth DEF ReplaceFile, d
  <2>3. CASE TouchFile(p)
    BY <2>3, TouchKeepsTruth
  <2> QED
    BY <1>5, <2>1, <2>2, <2>3, LookKeepsTruth, NoRowKeepsTruth DEF Run
<1>6. ASSUME NEW p \in Procs, Crash(p)
      PROVE  JInv'
  BY <1>6, QuitKeepsTruth DEF Crash
<1> QED
  BY <1>1, <1>2, <1>3, <1>4, <1>5, <1>6 DEF Next

LEMMA RowsAreTrue == Spec => [](IInv /\ JInv)
<1>1. Init => IInv /\ JInv
  BY InitIInv, InitJInv
<1>2. IInv /\ JInv /\ [Next]_vars => (IInv /\ JInv)'
  BY NextIInv, NextJInv
<1> QED
  BY <1>1, <1>2, PTL DEF Spec

\* Whenever size and modification time of a row are those of a file with
\* another text, one of the two observed races has happened to that very
\* time: in every interleaving of processes, changes, crashes and time-outs
\* there is no third way to an update that passes a changed file over.
THEOREM OnlyRacesMask == Spec => []MaskedOnlyByRace
<1>1. JInv => MaskedOnlyByRace
  BY DEF JInv, RowTrue, MaskedOnlyByRace, Masked
<1> QED
  BY <1>1, RowsAreTrue, PTL

\* Every row is that of a path of the workspace and a text that can be read,
\* every process is where its command can be.
THEOREM TypeCorrect == Spec => []TypeOK
<1>1. IInv /\ JInv => TypeOK
  BY DEF IInv, JInv, DiskOk, TimesOk, MeTrue, Pcs, RowTrue, TypeOK
<1> QED
  BY <1>1, RowsAreTrue, PTL

=============================================================================
