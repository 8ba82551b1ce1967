----------------------------- MODULE IndexUpdate -----------------------------
(***************************************************************************)
(* SwiftIndex, indexer/build.rs and indexer/update.rs: processes that run  *)
(* `build` or `update` against one index database while files change.      *)
(*                                                                         *)
(* A process scans the workspace, compares what it scanned with what is    *)
(* stored, writes in one transaction and then refreshes the git metrics    *)
(* and the derived relations in a transaction each.  SQLite lets one       *)
(* transaction write at a time, makes its changes visible at the commit    *)
(* and drops them when the process dies; files are not protected at all.   *)
(***************************************************************************)
EXTENDS IndexScan, IndexDerived

CONSTANTS
    Procs,        \* processes; each runs one command after the other
    NoProc,
    Contents,     \* what a file may contain
    Source,       \* Source[c]: the items of readable content c
    Unreadable,   \* contents that cannot be read as text or parsed
    Size,         \* Size[c]: length in bytes
    Commits,      \* the git history: the set of paths of each commit
    Absent,
    InitDisk,     \* the files when they were first indexed, all readable
    MaxEdits,     \* bounds: changes to files; and, together, commands
    MaxRuns       \*   started, processes killed and failures of git

Paths == {PathOrder[i] : i \in DOMAIN PathOrder}

\* What `git log` tells: the paths it names, and the number of commits that
\* touch both of a pair (flush_commit counts a pair once, in path order).
Together(f, g) == Cardinality({c \in DOMAIN Commits : {f, g} \subseteq Commits[c]})
Metrics ==
    [paths |-> UNION ToSet(Commits),
     cochanges |-> {[a |-> PathOrder[q[1]], b |-> PathOrder[q[2]],
                     n |-> Together(PathOrder[q[1]], PathOrder[q[2]])] :
                        q \in {r \in (DOMAIN PathOrder) \X (DOMAIN PathOrder) :
                                 /\ r[1] < r[2]
                                 /\ Together(PathOrder[r[1]], PathOrder[r[2]]) > 0}}]

\* What extract_file finds in each readable content, for each file it may be in.
Extracted == [c \in DOMAIN Source |->
                [f \in Paths |-> Extract(Source[c], Scanned(f).ns \o Scanned(f).mod)]]

ASSUME ConstantsAssumption ==
    /\ NoProc \notin Procs
    /\ Absent \notin Contents
    /\ Unreadable \subseteq Contents
    /\ DOMAIN Source = Contents \ Unreadable
    /\ PathOrder \in Seq(Paths)
    /\ DOMAIN InitDisk = Paths
    /\ \A f \in Paths : InitDisk[f] # Absent =>
          InitDisk[f] \in [content : DOMAIN Source, mtime : {1}]

\* A text is a list of items; the calls and the hints of an item are lists.
ASSUME SourceAssumption ==
    \A c \in DOMAIN Source :
      /\ Source[c] \in Seq(ToSet(Source[c]))
      /\ \A i \in DOMAIN Source[c] :
            /\ Source[c][i].calls \in Seq(ToSet(Source[c][i].calls))
            /\ Source[c][i].hints \in Seq(ToSet(Source[c][i].hints))

VARIABLES
    disk,     \* path -> [content, mtime], or Absent
    clock,    \* the last modification time given to a file
    db,       \* the committed database
    tx,       \* what the writing transaction has made of it
    writer,   \* the process with the write lock, or NoProc
    proc,     \* process -> where it is and what it has read so far
    edits, runs,
    torn,     \* observation: <<path, mtime>> recorded with an older content
    crossed,  \* observation: <<path, mtime>> written to another's row
    settled   \* observation: the last thing that happened is the end of a
              \* run that nothing overlapped: "yes", "nogit" or "no"

vars == <<disk, clock, db, tx, writer, proc, edits, runs, torn, crossed, settled>>
store == <<db, tx, writer>>
files == <<disk, clock, edits>>
seen == <<torn, crossed>>

Idle == [pc |-> "idle", mode |-> "build", todo |-> <<>>, known |-> {}, doomed |-> {},
         stat |-> 0, size |-> 0, src |-> Absent, rows |-> Absent, alone |-> FALSE, git |-> FALSE]

Present == {p \in Paths : disk[p] # Absent}
Active == {p \in Procs : proc[p].pc # "idle"}

\* The version of the database p writes to.
Work(p) == IF writer = p THEN tx ELSE db
MayWrite(p) == writer \in {NoProc, p}

\* p writes d inside its transaction; the first write takes the lock.
Write(p, d) == tx' = d /\ writer' = p /\ UNCHANGED db

\* A transaction of one step.
WriteAtOnce(d) == db' = d /\ UNCHANGED <<tx, writer>>

Step(p, changes) == proc' = [proc EXCEPT ![p] = changes]

\* The process ends, its transaction with it.
Quit(p) ==
    /\ proc' = [proc EXCEPT ![p] = Idle]
    /\ IF writer = p THEN writer' = NoProc /\ tx' = EmptyDb /\ UNCHANGED db
       ELSE UNCHANGED store

\* What a first build has stored, before its refreshes.
Built ==
    LET fileOf(f) == [path |-> f.path, ns |-> f.ns, mod |-> f.mod,
                      hash |-> InitDisk[f.path].content,
                      size |-> Size[InitDisk[f.path].content], mtime |-> 1]
    IN  FoldLeft(LAMBDA d, f : InsertFileBundle(d, fileOf(f),
                                   Extracted[InitDisk[f.path].content][f.path]),
                 EmptyDb, ScanRustFiles({f \in Paths : InitDisk[f] # Absent}))

Init ==
    /\ disk = InitDisk
    /\ clock = 1
    /\ db = Built /\ tx = EmptyDb /\ writer = NoProc
    /\ proc = [p \in Procs |-> Idle]
    /\ edits = 0 /\ runs = 0
    /\ torn = {} /\ crossed = {} /\ settled = "no"

-----------------------------------------------------------------------------
(* The files.  Every change gets a new modification time.                  *)

Change(f, file) ==
    /\ edits < MaxEdits
    /\ edits' = edits + 1
    /\ clock' = clock + 1
    /\ disk' = [disk EXCEPT ![f] = file]
    /\ proc' = [p \in Procs |-> [proc[p] EXCEPT !.alone = FALSE]]
    /\ settled' = "no"
    /\ torn' = {x \in torn : x[1] # f}
    /\ crossed' = {x \in crossed : x[1] # f}
    /\ UNCHANGED <<store, runs>>

WriteFile(f, c) == Change(f, [content |-> c, mtime |-> clock + 1])
RemoveFile(f)   == disk[f] # Absent /\ Change(f, Absent)

-----------------------------------------------------------------------------
(* One command: build_workspace or update_workspace, then the refreshes.   *)

Start(p, mode) ==
    /\ proc[p].pc = "idle"
    /\ runs < MaxRuns
    /\ runs' = runs + 1
    /\ proc' = [q \in Procs |->
                  IF q = p THEN [Idle EXCEPT !.pc = IF mode = "build" THEN "clear" ELSE "load",
                                             !.mode = mode,
                                             !.todo = ScanRustFiles(Present),
                                             !.alone = Active = {},
                                             !.git = TRUE]
                  ELSE [proc[q] EXCEPT !.alone = FALSE]]
    /\ settled' = "no"
    /\ UNCHANGED <<files, store, seen>>

\* An update of an empty index is a build.
LoadFileStates(p) ==
    LET me == proc[p]
        known == FileStates(db)
        scanned == {f.path : f \in ToSet(me.todo)}
    IN  /\ me.pc = "load"
        /\ Step(p, IF known = {} THEN [me EXCEPT !.pc = "clear", !.mode = "build"]
                   ELSE [me EXCEPT !.pc = "file", !.known = known,
                                   !.doomed = {s.id : s \in {x \in known : x.path \notin scanned}}])
        /\ UNCHANGED <<files, store, runs, seen, settled>>

\* The full reset is a transaction of its own, committed before the build.
ClearIndex(p) ==
    /\ proc[p].pc = "clear" /\ writer = NoProc
    /\ WriteAtOnce(ClearAll)
    /\ Step(p, [proc[p] EXCEPT !.pc = "file"])
    /\ UNCHANGED <<files, runs, seen, settled>>

DeleteVanished(p, id) ==
    /\ proc[p].pc = "file" /\ id \in proc[p].doomed /\ MayWrite(p)
    /\ Write(p, DeleteFileBundle(Work(p), id))
    /\ Step(p, [proc[p] EXCEPT !.doomed = @ \ {id}])
    /\ UNCHANGED <<files, runs, seen, settled>>

AtFile(p, pc) == proc[p].pc = pc /\ proc[p].doomed = {} /\ proc[p].todo # <<>>

NextFile(me) == [me EXCEPT !.pc = "file", !.todo = Tail(@), !.src = Absent,
                           !.stat = 0, !.size = 0]

\* The stored state of a path, as loaded before the transaction.
KnownAs(me, f) == {s \in me.known : s.path = f}

\* The metadata of the file as it is before its text is read.
Statted(me, file) ==
    [me EXCEPT !.pc = "read", !.stat = file.mtime, !.size = Size[file.content]]

\* mutant: a file of the same size counts as unchanged
StatFileBySize(p) ==
    LET me == proc[p]
        f  == Head(me.todo).path
        same == \E s \in KnownAs(me, f) : s.size = Size[disk[f].content]
    IN  /\ AtFile(p, "file") /\ me.mode = "update" /\ disk[f] # Absent
        /\ Step(p, IF same THEN NextFile(me) ELSE Statted(me, disk[f]))
        /\ UNCHANGED <<files, store, runs, seen, settled>>

\* An update looks at size and modification time first.  A file that has
\* vanished since the scan ends the command.
StatFile(p) ==
    LET me == proc[p]
        f  == Head(me.todo).path
        same == \E s \in KnownAs(me, f) :
                    s.size = Size[disk[f].content] /\ s.mtime = disk[f].mtime
    IN  /\ AtFile(p, "file") /\ me.mode = "update"
        /\ \/ disk[f] = Absent /\ Quit(p)
           \/ disk[f] # Absent /\ same /\ Step(p, NextFile(me)) /\ UNCHANGED store
           \/ /\ disk[f] # Absent /\ ~same
              /\ Step(p, Statted(me, disk[f]))
              /\ UNCHANGED store
        /\ UNCHANGED <<files, runs, seen, settled>>

\* prepare_file_bundle reads the text before it asks for the metadata.
ReadFile(p) ==
    LET me == proc[p]
        f  == Head(me.todo).path
        readable == disk[f] # Absent /\ disk[f].content \notin Unreadable
    IN  /\ \/ AtFile(p, "read")
           \/ AtFile(p, "file") /\ me.mode = "build"
        /\ Step(p, IF readable THEN [me EXCEPT !.pc = "meta", !.src = disk[f].content]
                   ELSE NextFile(me))
        /\ UNCHANGED <<files, store, runs, seen, settled>>

\* What is stored of the file: the text that was read, the metadata of now.
Record(me) ==
    LET f == Head(me.todo)
    IN  [path |-> f.path, ns |-> f.ns, mod |-> f.mod, hash |-> me.src,
         size |-> Size[disk[f.path].content], mtime |-> disk[f.path].mtime]

Insert(d, me) ==
    LET f == Head(me.todo)
    IN  IF CanInsert(d, Record(me))
        THEN InsertFileBundle(d, Record(me), Extracted[me.src][f.path])
        ELSE d

Observe(me, f) ==
    /\ torn' = IF disk[f].content # me.src THEN torn \cup {<<f, disk[f].mtime>>} ELSE torn
    /\ UNCHANGED crossed

VanishedMeanwhile(p) ==
    /\ AtFile(p, "meta") /\ disk[Head(proc[p].todo).path] = Absent
    /\ Step(p, NextFile(proc[p]))
    /\ UNCHANGED <<files, store, runs, seen, settled>>

AtWrite(p) ==
    AtFile(p, "meta") /\ disk[Head(proc[p].todo).path] # Absent /\ MayWrite(p)

\* A new file, or any file of a build.  A failed insertion is a warning.
AddFile(p) ==
    LET me == proc[p]
        f  == Head(me.todo).path
    IN  /\ AtWrite(p) /\ KnownAs(me, f) = {}
        /\ Write(p, Insert(Work(p), me))
        /\ Observe(me, f)
        /\ Step(p, NextFile(me))
        /\ UNCHANGED <<files, runs, settled>>

\* mutant: the modification time is asked for once more
TouchWithPresentTime(p) ==
    LET me == proc[p]
        f  == Head(me.todo).path
    IN  /\ AtWrite(p)
        /\ \E s \in KnownAs(me, f) :
              /\ s.hash = me.src
              /\ Write(p, TouchFileMetadata(Work(p), s.id, me.size, disk[f].mtime))
        /\ Step(p, NextFile(me))
        /\ UNCHANGED <<files, runs, seen, settled>>

\* Same text as stored: only the metadata, as seen before the text was read.
TouchFile(p) ==
    LET me == proc[p]
        f  == Head(me.todo).path
    IN  /\ AtWrite(p)
        /\ \E s \in KnownAs(me, f) :
              /\ s.hash = me.src
              /\ Write(p, TouchFileMetadata(Work(p), s.id, me.size, me.stat))
              /\ crossed' = crossed \cup
                    {<<r.path, me.stat>> : r \in {x \in Work(p).files :
                          x.id = s.id /\ <<x.path, x.hash>> # <<f, s.hash>>}}
        /\ Step(p, NextFile(me))
        /\ UNCHANGED <<files, runs, torn, settled>>

ReplaceFile(p) ==
    LET me == proc[p]
        f  == Head(me.todo).path
    IN  /\ AtWrite(p)
        /\ \E s \in KnownAs(me, f) :
              /\ s.hash # me.src
              /\ Write(p, Insert(DeleteFileBundle(Work(p), s.id), me))
        /\ Observe(me, f)
        /\ Step(p, NextFile(me))
        /\ UNCHANGED <<files, runs, settled>>

Commit(p) ==
    LET me == proc[p]
    IN  /\ me.pc = "file" /\ me.doomed = {} /\ me.todo = <<>>
        /\ db' = Work(p)
        /\ IF writer = p THEN writer' = NoProc /\ tx' = EmptyDb ELSE UNCHANGED <<tx, writer>>
        /\ Step(p, [me EXCEPT !.pc = "gitload", !.known = {}])
        /\ UNCHANGED <<files, runs, seen, settled>>

\* sync_git_metrics: the file ids are loaded before the transaction.  When
\* git fails the stored metrics stay as they are.
LoadGitMetrics(p) ==
    LET me == proc[p]
    IN  /\ me.pc = "gitload"
        /\ \/ /\ Step(p, [me EXCEPT !.pc = "gitwrite", !.rows = GitRows(FileIdMap(db), Metrics)])
              /\ UNCHANGED runs
           \/ /\ runs < MaxRuns /\ runs' = runs + 1
              /\ Step(p, [me EXCEPT !.pc = "derive", !.git = FALSE])
        /\ UNCHANGED <<files, store, seen, settled>>

WriteGitMetrics(p) ==
    LET me == proc[p]
    IN  /\ me.pc = "gitwrite" /\ writer = NoProc
        /\ WriteAtOnce(IF CanReplaceGit(db, me.rows) THEN ReplaceGitMetrics(db, me.rows) ELSE db)
        /\ Step(p, [me EXCEPT !.pc = "derive", !.rows = Absent])
        /\ UNCHANGED <<files, runs, seen, settled>>

\* sync_derived_relations: likewise computed before the transaction.  The
\* code reads the tables in five statements, here one step: a commit between
\* two of them makes the run one that others overlapped, of which no property
\* promises derived relations.
LoadDerived(p) ==
    /\ proc[p].pc = "derive"
    /\ Step(p, [proc[p] EXCEPT !.pc = "derivewrite", !.rows = Derived(db)])
    /\ UNCHANGED <<files, store, runs, seen, settled>>

WriteDerived(p) ==
    LET me == proc[p]
    IN  /\ me.pc = "derivewrite" /\ writer = NoProc
        /\ WriteAtOnce(IF CanPersist(db, me.rows) THEN PersistDerived(db, me.rows) ELSE db)
        /\ Step(p, Idle)
        /\ settled' = IF ~me.alone THEN "no" ELSE IF me.git THEN "yes" ELSE "nogit"
        /\ UNCHANGED <<files, runs, seen>>

\* The write lock is not given within the busy timeout: a file that is to be
\* added is skipped, a refresh is skipped with a warning, anything else ends
\* the command.
BusyTimeout(p) ==
    LET me == proc[p]
        adding == me.pc = "meta" /\ KnownAs(me, Head(me.todo).path) = {}
    IN  /\ writer \notin {NoProc, p}
        /\ \/ me.pc \in {"clear", "meta", "gitwrite", "derivewrite"}
           \/ me.pc = "file" /\ me.doomed # {}
        /\ IF adding THEN Step(p, NextFile(me))
           ELSE IF me.pc = "gitwrite" THEN Step(p, [me EXCEPT !.pc = "derive", !.rows = Absent])
           ELSE Step(p, Idle)
        /\ UNCHANGED <<files, store, runs, seen, settled>>

Crash(p) ==
    /\ proc[p].pc # "idle"
    /\ runs < MaxRuns
    /\ runs' = runs + 1
    /\ Quit(p)
    /\ UNCHANGED <<files, seen, settled>>

Run(p) ==
    \/ LoadFileStates(p) \/ ClearIndex(p)
    \/ \E id \in proc[p].doomed : DeleteVanished(p, id)
    \/ StatFile(p) \/ ReadFile(p) \/ VanishedMeanwhile(p)
    \/ AddFile(p) \/ TouchFile(p) \/ ReplaceFile(p) \/ Commit(p)
    \/ LoadGitMetrics(p) \/ WriteGitMetrics(p) \/ LoadDerived(p) \/ WriteDerived(p)
    \/ BusyTimeout(p)

Next ==
    \/ \E f \in Paths, c \in Contents : WriteFile(f, c)
    \/ \E f \in Paths : RemoveFile(f)
    \/ \E p \in Procs, mode \in {"build", "update"} : Start(p, mode)
    \/ \E p \in Procs : Run(p) \/ Crash(p)

Spec == Init /\ [][Next]_vars

-----------------------------------------------------------------------------
(* Properties.                                                             *)

\* Types of the variables; files of the store carry the path they are for.
TypeOK ==
    /\ \A f \in Paths : disk[f] # Absent =>
          disk[f].content \in Contents /\ disk[f].mtime \in 1..clock
    /\ writer \in Procs \cup {NoProc}
    /\ \A f \in db.files \cup tx.files : f.path \in Paths /\ f.hash \in DOMAIN Source
    /\ \A p \in Procs :
          /\ proc[p].pc \in {"idle", "load", "clear", "file", "read", "meta",
                             "gitload", "gitwrite", "derive", "derivewrite"}
          /\ proc[p].src \in DOMAIN Source \cup {Absent}
    /\ settled \in {"yes", "nogit", "no"}

\* The full-text tables have no foreign keys: whatever sequence of inserts,
\* replacements, cascades, crashes and id reuse, their rows are those of the
\* tables they index (delete_file_bundle deletes by subselect, before the
\* rows the subselect needs are cascaded away).
FtsMirrorsRows ==
    /\ db.filesFts   = Ids(db.files)
    /\ db.symbolsFts = Ids(db.symbols)
    /\ db.chunksFts  = Ids(db.chunks)

SymbolsOf(d, f) == {s \in d.symbols : s.file = f.id}

\* A file that is indexed is indexed whole, from one text: each of its symbols
\* once, a conflict of qualified names with another file or within it
\* notwithstanding (insert_symbol_record), each with its chunk, its parent
\* and its edges; and no qualified name is given twice.
BundleComplete ==
    /\ \A r, s \in db.symbols : r.qual = s.qual => r = s
    /\ \A f \in db.files :
          LET x    == Extracted[f.hash][f.path]
              rows == {s \in db.symbols : s.file = f.id}
              ends == {e \in db.edges : {e.from, e.to} \cap Ids(rows) # {}}
          IN  /\ Cardinality(rows) = Len(x.symbols)
              /\ {s.qual.qual : s \in rows} = {x.symbols[k].qual : k \in DOMAIN x.symbols}
              /\ \A s \in rows : \E c \in db.chunks : c.symbol = s.id /\ c.file = f.id
              /\ \A s \in rows : s.parent \in Ids(rows) \cup {Null}
              /\ Cardinality(ends) =
                 Cardinality({k \in DOMAIN x.edges :
                                {x.edges[k].from, x.edges[k].to} # {NoSymbol}})
              /\ \A e \in ends : {e.from, e.to} \subseteq Ids(rows) \cup {Null}

Masked(r) == /\ disk[r.path] # Absent
             /\ r.mtime = disk[r.path].mtime
             /\ r.size = Size[disk[r.path].content]
             /\ r.hash # disk[r.path].content

\* Size and modification time stand for the text in every later update.  They
\* are wrong about it only when the file changed between the reading of its
\* text and the reading of its metadata in prepare_file_bundle, or when
\* another process had replaced the row an update then touched by its id.
MaskedOnlyByRace ==
    \A r \in db.files : Masked(r) => <<r.path, r.mtime>> \in torn \cup crossed

Indexable == {f.path : f \in ToSet(ScanRustFiles({f \in Present : disk[f].content
                                                   \notin Unreadable}))}

\* A build or update that ran alone, with no file changed meanwhile, leaves
\* the index equal to the workspace, whatever crashes, overlapping commands,
\* lost locks and stale writes came before: every file that can be read is in
\* it with its present text (but for a masked one), no file that is gone is,
\* and the git metrics and derived relations are those of the index.
QuietRunConverges ==
    settled # "no" =>
        /\ \A f \in Indexable :
              \E r \in db.files : /\ r.path = f
                                  /\ r.hash = disk[f].content \/ Masked(r)
                                  /\ r.ns = Scanned(f).ns /\ r.mod = Scanned(f).mod
        /\ \A r \in db.files : r.path \in Present
        /\ PersistDerived(db, Derived(db)) = db
        /\ settled = "yes" =>
              ReplaceGitMetrics(db, GitRows(FileIdMap(db), Metrics)) = db

\* What the deletion of a file's bundle should leave: an edge with neither end
\* is a top-level import of some file that is indexed.
NoOrphanEdges ==
    LET imports(f) == {i \in DOMAIN Source[f.hash] : Source[f.hash][i].kind = "use"
                                                     /\ Source[f.hash][i].parent = 0}
    IN  Cardinality({e \in db.edges : e.from = Null /\ e.to = Null})
          <= MapThenSumSet(LAMBDA f : Cardinality(imports(f)), db.files)

==============================================================================
