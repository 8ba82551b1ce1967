----------------------------- MODULE IndexDerived -----------------------------
(***************************************************************************)
(* SwiftIndex, indexer/derived.rs: the relations computed from the whole   *)
(* index after every build and update: which symbols and files a test      *)
(* covers, and the entry points.  Scores are doubled to be integers; the   *)
(* reasons that go with them are left out.  A name stands for its          *)
(* normalised form, at least three letters long; an imported path is the   *)
(* sequence of its segments.                                               *)
(***************************************************************************)
EXTENDS IndexStore, IndexExtract

TestDirs == {"tests", "integration"}
FamilyNoise == {"tests", "test", "integration", "bench", "benches", "spec"}

FileOf(db, id) == CHOOSE f \in db.files : f.id = id

\* "/tests/" is looked for with both slashes: the directory tests of the
\* workspace root itself is not found.
IsTestPath(p) == p.stem = "tests" \/ \E i \in 2..Len(p.dirs) : p.dirs[i] \in TestDirs

\* With hints: the name starts with test_, should_ or it_.
IsTestSymbol(db, s) ==
    \/ s.test
    \/ s.hints # <<>>
    \/ s.kind = "fn" /\ IsTestPath(FileOf(db, s.file).path)

SourceSymbols(db) == {s \in db.symbols : ~IsTestSymbol(db, s)}
TestSymbols(db)   == {s \in db.symbols : IsTestSymbol(db, s)}

SameFamily(f, g) ==
    LET family(m) == SelectSeq(m, LAMBDA x : x \notin FamilyNoise)
    IN  /\ f.ns = g.ns
        /\ f.mod # <<>> /\ g.mod # <<>>
        /\ family(f.mod) = family(g.mod)

Cochanged(db, x, y) ==
    LET c == {r \in db.cochange : {r.a, r.b} = {x, y}}
    IN  IF x = y \/ c = {} THEN 0 ELSE Min({12, (CHOOSE r \in c : TRUE).n})

ImportsOf(db, id) == {i.path : i \in {x \in db.imports : x.file = id}}

Mentions(t, s) == s.name \in ToSet(t.hints) \cup {t.name}

If(b, n) == IF b THEN n ELSE 0

\* What test symbol t scores for source symbol s.
SymbolScore(db, t, s) ==
    LET tails == {i \in ImportsOf(db, t.file) : Last(i) = s.name}
        refs  == {i \in ImportsOf(db, t.file) : s.name \in ToSet(i)}
    IN  If(s.file = t.file, 56)
        + If(Mentions(t, s), 96)
        + 52 * Cardinality(tails) + 36 * Cardinality(refs)
        + If(SameFamily(FileOf(db, t.file), FileOf(db, s.file)), 32)
        + 5 * Cochanged(db, t.file, s.file)

BuildSymbolTestEdges(db) ==
    {e \in {[symbol |-> s.id, test |-> t.id, score |-> SymbolScore(db, t, s)]
            : s \in SourceSymbols(db), t \in TestSymbols(db)} : e.score >= 48}

-----------------------------------------------------------------------------

SymbolFile(db, id) == (CHOOSE s \in db.symbols : s.id = id).file

Within(m, i) == \E a, b \in DOMAIN i : a <= b /\ SubSeq(i, a, b) = m

\* What test file t scores for file f by itself.
FileBonus(db, f, t) ==
    LET names(i) == f.path.stem \in ToSet(i) \/ (f.mod # <<>> /\ Within(f.mod, i))
    IN  IF f = t \/ ~IsTestPath(t.path) THEN 0
        ELSE If(SameFamily(f, t), 44)
             + If(\E i \in ImportsOf(db, t.id) : names(i), 36)
             + 4 * Cochanged(db, f.id, t.id)

\* The scores of the symbol edges between two files add up, those within a
\* file included.
BuildFileTestEdges(db, symbolTests) ==
    LET between(f, t) == {e \in symbolTests : /\ SymbolFile(db, e.symbol) = f.id
                                              /\ SymbolFile(db, e.test) = t.id}
        score(f, t) == MapThenSumSet(LAMBDA e : e.score, between(f, t))
                       + FileBonus(db, f, t)
    IN  {e \in {[file |-> f.id, test |-> t.id, score |-> score(f, t)]
                : f \in db.files, t \in db.files} : e.score >= 40}

-----------------------------------------------------------------------------

Entry(kind, symbol, file) == [kind |-> kind, symbol |-> symbol, file |-> file]

UsesClap(db, file) == \E i \in ImportsOf(db, file) : "clap" \in ToSet(i)

\* marks: what the text of the function shows.
DetectEntrypoints(db) ==
    LET fns == {s \in db.symbols : s.kind = "fn"}
        rootIn(f, stems) == f.path.stem \in stems /\ f.path.dirs # <<>>
        cliMain(s) == rootIn(FileOf(db, s.file), {"main"}) /\ UsesClap(db, s.file)
    IN  {Entry("main", Null, f.id) : f \in {x \in db.files : rootIn(x, {"main", "lib"})}}
        \cup {Entry("cli", Null, f.id) : f \in {x \in db.files : UsesClap(db, x.id)}}
        \cup {Entry("main", s.id, s.file) : s \in {x \in fns : x.name = "main"
                                                               \/ "tokio_main" \in x.marks}}
        \cup {Entry("task", s.id, s.file) : s \in {x \in fns : "spawn" \in x.marks}}
        \cup {Entry("http", s.id, s.file) : s \in {x \in fns : "http" \in x.marks}}
        \cup {Entry("cli", s.id, s.file) : s \in {x \in fns : "clap" \in x.marks \/ cliMain(x)}}

\* What refresh computes from the index as it reads it.
Derived(db) ==
    LET symbolTests == BuildSymbolTestEdges(db)
    IN  [symbolTests |-> symbolTests,
         fileTests   |-> BuildFileTestEdges(db, symbolTests),
         entrypoints |-> DetectEntrypoints(db)]

\* A row that names a file or symbol that is gone fails the transaction.
CanPersist(db, d) ==
    /\ \A e \in d.symbolTests : {e.symbol, e.test} \subseteq Ids(db.symbols)
    /\ \A e \in d.fileTests : {e.file, e.test} \subseteq Ids(db.files)
    /\ \A e \in d.entrypoints : e.file \in Ids(db.files)
                                /\ e.symbol \in Ids(db.symbols) \cup {Null}

PersistDerived(db, d) ==
    [db EXCEPT !.symbolTests = d.symbolTests, !.fileTests = d.fileTests,
               !.entrypoints = d.entrypoints]

==============================================================================
