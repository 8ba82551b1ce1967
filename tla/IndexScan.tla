------------------------------ MODULE IndexScan ------------------------------
(***************************************************************************)
(* SwiftIndex, scanner/workspace.rs: which files of a Cargo workspace are  *)
(* indexed, and the namespace and module path each of them is given.  The  *)
(* pair is the prefix of every qualified name extracted from the file.     *)
(*                                                                         *)
(* A path is its directory components below the workspace root and the     *)
(* stem of its file name; every path of the model ends in ".rs".           *)
(***************************************************************************)
EXTENDS Integers, Sequences, SequencesExt

CONSTANTS
    Members,     \* the workspace packages: [package, root, targets]
    RootDirs,    \* the components of the absolute path of the workspace root
    PathOrder    \* the paths that may exist, sorted by workspace path

NoModule == <<>>

SkippedDirs == {"target", ".git", "node_modules", "dist", "vendor"}

\* The components are those of the absolute path, the root's own included.
ShouldIndex(p) ==
    (ToSet(RootDirs) \cup ToSet(p.dirs)) \cap SkippedDirs = {}

-----------------------------------------------------------------------------
(* Packages and their targets.                                             *)

HasLib(m) == \E i \in DOMAIN m.targets : m.targets[i].kind = "lib"

IsMainRs(t) == /\ t.stem = "main"
               /\ t.dirs # <<>>
               /\ Last(t.dirs) = "src"

\* The first library, else the first binary at src/main.rs, else the package.
DefaultNamespace(m) ==
    LET libs  == SelectSeq(m.targets, LAMBDA t : t.kind = "lib")
        mains == SelectSeq(m.targets, LAMBDA t : t.kind = "bin" /\ IsMainRs(t))
    IN  IF libs # <<>> THEN <<Head(libs).name>>
        ELSE IF mains # <<>> THEN <<Head(mains).name>>
        ELSE <<m.package>>

\* Targets with a namespace of their own.  The src/main.rs of a package
\* without a library shares the default one.
ExplicitTargets(m) ==
    SelectSeq(m.targets,
              LAMBDA t : \/ t.kind \in {"test", "example", "bench"}
                         \/ t.kind = "bin" /\ (IsMainRs(t) => HasLib(m)))

\* Joined by "__" and not by "::", so apart from every module path.
Joined == [bin |-> "__bin", test |-> "__test", example |-> "__example", bench |-> "__bench",
           tests |-> "__tests", examples |-> "__examples", benches |-> "__benches"]

ExplicitNamespace(m, t) == <<m.package, Joined[t.kind], t.name>>

\* A target owns its root file and the directory of the same name beside it.
Claims(t, p) ==
    \/ p.dirs = t.dirs /\ p.stem = t.stem
    \/ /\ t.stem \notin {"lib", "main", "mod"}
       /\ IsPrefix(Append(t.dirs, t.stem), p.dirs)

TargetsOf(m, p) == SelectSeq(ExplicitTargets(m), LAMBDA t : Claims(t, p))

\* The member with the deepest root directory above the file.
Owners(p) == {m \in Members : IsPrefix(m.root, p.dirs)}
OwnerOf(p) == CHOOSE m \in Owners(p) : \A n \in Owners(p) : Len(n.root) <= Len(m.root)

-----------------------------------------------------------------------------
(* Namespace and module path of a file.                                    *)

Below(prefix, p) == SubSeq(p.dirs, Len(prefix) + 1, Len(p.dirs))

ModuleParts(dirs, stem) ==
    IF stem \in {"lib", "main", "mod"} THEN dirs ELSE Append(dirs, stem)

InferNamespace(m, p) ==
    LET ts == TargetsOf(m, p)
        rel == Below(m.root, p)
    IN  IF ts # <<>> THEN ExplicitNamespace(m, Head(ts))
        ELSE IF rel # <<>> /\ Head(rel) \in {"tests", "examples", "benches"}
             THEN <<m.package, Joined[Head(rel)]>>
        ELSE DefaultNamespace(m)

InferModulePath(m, p) ==
    LET ts  == TargetsOf(m, p)
        rel == Below(m.root, p)
    IN  IF ts # <<>> /\ p.dirs = Head(ts).dirs /\ p.stem = Head(ts).stem THEN NoModule
        ELSE IF ts # <<>>
             THEN ModuleParts(Below(Append(Head(ts).dirs, Head(ts).stem), p), p.stem)
        ELSE IF rel # <<>> /\ Head(rel) = "src"
             THEN IF Len(rel) > 1 /\ rel[2] = "bin" THEN NoModule
                  ELSE ModuleParts(Tail(rel), p.stem)
        ELSE ModuleParts(rel, p.stem)

\* What scan_rust_files records of a file.  A file of no member has neither
\* namespace nor module path.
Scanned(p) ==
    IF Owners(p) = {} THEN [path |-> p, ns |-> NoModule, mod |-> NoModule]
    ELSE [path |-> p, ns |-> InferNamespace(OwnerOf(p), p),
          mod |-> InferModulePath(OwnerOf(p), p)]

\* The files of the workspace in the order of their paths.
ScanRustFiles(present) ==
    FoldLeft(LAMBDA files, p : IF p \in present /\ ShouldIndex(p)
                               THEN Append(files, Scanned(p)) ELSE files,
             <<>>, PathOrder)

==============================================================================
