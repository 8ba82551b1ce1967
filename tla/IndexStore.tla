------------------------------ MODULE IndexStore ------------------------------
(***************************************************************************)
(* SwiftIndex, db/store.rs and db/migrations/*.sql: the tables of the      *)
(* index and the operations on them, as functions from database to         *)
(* database.  SQLite is external: row ids are one more than the largest in *)
(* the table (so the id of a deleted last row is given out again), foreign *)
(* keys cascade, and the full-text tables know nothing of foreign keys.    *)
(***************************************************************************)
EXTENDS Integers, Sequences, SequencesExt, FiniteSetsExt

Null == 0
NextId(rows) == 1 + Max({r.id : r \in rows} \cup {0})

EmptyDb ==
    [files |-> {}, symbols |-> {}, edges |-> {}, chunks |-> {}, imports |-> {},
     filesFts |-> {}, symbolsFts |-> {}, chunksFts |-> {},
     gitStats |-> {}, cochange |-> {},
     symbolTests |-> {}, fileTests |-> {}, entrypoints |-> {}]

Ids(rows) == {r.id : r \in rows}

-----------------------------------------------------------------------------
(* Deleting a file row takes every row that refers to it along.            *)

Cascade(db, gone) ==
    LET files   == {f \in db.files : f.id \notin gone}
        live(f) == f \in Ids(files)
        symbols == {s \in db.symbols : live(s.file)}
        ok(s)   == s = Null \/ s \in Ids(symbols)
    IN  [db EXCEPT !.files       = files,
                   !.symbols     = symbols,
                   !.edges       = {e \in @ : ok(e.from) /\ ok(e.to)},
                   !.chunks      = {c \in @ : live(c.file)},
                   !.imports     = {m \in @ : live(m.file)},
                   !.gitStats    = {g \in @ : live(g)},
                   !.cochange    = {c \in @ : live(c.a) /\ live(c.b)},
                   !.symbolTests = {t \in @ : ok(t.symbol) /\ ok(t.test)},
                   !.fileTests   = {t \in @ : live(t.file) /\ live(t.test)},
                   !.entrypoints = {e \in @ : live(e.file) /\ ok(e.symbol)}]

\* delete_file_bundle: the full-text rows first, while the rows that name
\* them are still there.
DeleteFts(db, id) ==
    [db EXCEPT !.chunksFts  = @ \ {c.id : c \in {x \in db.chunks : x.file = id}},
               !.symbolsFts = @ \ {s.id : s \in {x \in db.symbols : x.file = id}},
               !.filesFts   = @ \ {id}]

DeleteBundleFilesFirst(db, id) == DeleteFts(Cascade(db, {id}), id)      \* mutant

DeleteFileBundle(db, id) == Cascade(DeleteFts(db, id), {id})

ClearAll == EmptyDb

TouchFileMetadata(db, id, size, mtime) ==
    [db EXCEPT !.files = {IF f.id = id THEN [f EXCEPT !.size = size, !.mtime = mtime] ELSE f
                          : f \in @}]

FileStates(db) == {[id |-> f.id, path |-> f.path, hash |-> f.hash,
                    size |-> f.size, mtime |-> f.mtime] : f \in db.files}

-----------------------------------------------------------------------------
(* Inserting the bundle of a file.                                         *)

StoredAsNamed(db, path, sym) == [qual |-> sym.qual, dup |-> <<>>]       \* mutant

\* insert_symbol_record: the qualified name is unique in the table; on a
\* conflict a suffix of path, line and kind is tried with 1, 2, ...
Stored(db, path, sym) ==
    LET tried(n) == [qual |-> sym.qual,
                     dup  |-> IF n = 0 THEN <<>> ELSE <<path, sym.line, sym.kind, n>>]
        free(n)  == \A s \in db.symbols : s.qual # tried(n)
    IN  tried(CHOOSE n \in 0..Cardinality(db.symbols) :
                 free(n) /\ \A m \in 0..n-1 : ~free(m))

\* acc.ids maps the local indices inserted so far to row ids.
InsertSymbol(path, file, acc, sym) ==
    LET id == NextId(acc.db.symbols)
        parent == IF sym.parent \in DOMAIN acc.ids THEN acc.ids[sym.parent] ELSE Null
    IN  [ids |-> Append(acc.ids, id),
         db  |-> [acc.db EXCEPT
                    !.symbols = @ \cup {[id |-> id, file |-> file, parent |-> parent,
                                         kind |-> sym.kind, name |-> sym.name,
                                         test |-> sym.test, hints |-> sym.hints, marks |-> sym.marks,
                                         qual |-> Stored(acc.db, path, sym)]},
                    !.symbolsFts = @ \cup {id}]]

\* One chunk per symbol, in the same order.
InsertChunk(file, db, symbol) ==
    LET id == NextId(db.chunks)
    IN  [db EXCEPT !.chunks = @ \cup {[id |-> id, file |-> file, symbol |-> symbol]},
                   !.chunksFts = @ \cup {id}]

InsertEdge(ids, db, e) ==
    LET row(k) == IF k \in DOMAIN ids THEN ids[k] ELSE Null
    IN  [db EXCEPT !.edges = @ \cup {[id |-> NextId(@), type |-> e.type,
                                      from |-> row(e.from), to |-> row(e.to)]}]

\* insert_file_bundle: [path, ns, mod, hash, size, mtime] and what was
\* extracted.  The path is unique, so that the insertion of a path that is
\* there fails at its first statement.
CanInsert(db, file) == \A f \in db.files : f.path # file.path

InsertFileBundle(db, file, extracted) ==
    LET id == NextId(db.files)
        withFile == [db EXCEPT
                       !.files = @ \cup {[id |-> id, path |-> file.path, ns |-> file.ns,
                                          mod |-> file.mod, hash |-> file.hash,
                                          size |-> file.size, mtime |-> file.mtime]},
                       !.filesFts = @ \cup {id},
                       !.imports = @ \cup {[file |-> id, path |-> i]
                                           : i \in ToSet(extracted.imports)}]
        syms == FoldLeft(LAMBDA acc, s : InsertSymbol(file.path, id, acc, s),
                         [ids |-> <<>>, db |-> withFile], extracted.symbols)
        withChunks == FoldLeft(LAMBDA d, s : InsertChunk(id, d, s), syms.db, syms.ids)
    IN  FoldLeft(LAMBDA d, e : InsertEdge(syms.ids, d, e), withChunks, extracted.edges)

-----------------------------------------------------------------------------
(* Metrics from the history: a count of commits per path and of commits    *)
(* that touch two paths.  idOf maps paths to the file ids loaded before.   *)

GitRows(idOf, metrics) ==
    LET known == DOMAIN idOf
        pairs == {c \in metrics.cochanges :
                    c.a \in known /\ c.b \in known /\ idOf[c.a] # idOf[c.b]}
        row(c) == LET x == idOf[c.a]
                      y == idOf[c.b]
                  IN  [a |-> Min({x, y}), b |-> Max({x, y}), n |-> c.n]
    IN  [stats |-> {idOf[p] : p \in metrics.paths \cap known},
         cochange |-> {row(c) : c \in pairs}]

\* A row that names a file that is gone fails the whole transaction.
CanReplaceGit(db, rows) ==
    /\ rows.stats \subseteq Ids(db.files)
    /\ \A c \in rows.cochange : {c.a, c.b} \subseteq Ids(db.files)

ReplaceGitMetrics(db, rows) ==
    [db EXCEPT !.gitStats = rows.stats, !.cochange = rows.cochange]

FileIdMap(db) ==
    [p \in {f.path : f \in db.files} |-> (CHOOSE f \in db.files : f.path = p).id]

==============================================================================
