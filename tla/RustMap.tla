------------------------------ MODULE RustMap ------------------------------
(***************************************************************************)
(* The RustMap parser of src/lincan/artifacts/parser: it walks the source  *)
(* of a cargo workspace and draws the graph of its items.  The walk makes  *)
(* one node per item and queues what needs the whole workspace to be       *)
(* resolved (imports, supertraits, impl blocks); the later passes turn     *)
(* names into ids and ids into edges.                                      *)
(*                                                                         *)
(* Names, paths and ids are sequences of segments ("a::m::S" is            *)
(* <<"a", "m", "S">>); a source file is the sequence of its items, each    *)
(* with what the parser reads of it.  Spans, visibilities, printed types   *)
(* and the order of the output are left out.                               *)
(***************************************************************************)
EXTENDS Naturals, FiniteSets, SequencesExt

CONSTANTS Capitalized,  \* names that begin with a capital letter
          Workspaces   \* the workspaces that may be analysed, each a sequence
                       \* of packages in the order of their names

VARIABLES ws,        \* the workspace under analysis
          phase,     \* the pass of extract_workspace that runs next
          files,     \* rust files not read yet
          todo,      \* items of the current file not visited yet
          nodes,     \* id -> node
          modules,   \* module path -> its file, its ids, its `use` paths
          inherits,  \* supertraits to resolve
          impls,     \* impl blocks to resolve
          base,      \* the ids known when the walk ended
          imports,   \* module path -> alias -> id
          edges,     \* <<kind, from, to, context>>
          warnings,  \* <<code, path, module>>
          crates     \* crate name -> the module paths of its tree

vars == <<ws, phase, files, todo, nodes, modules, inherits, impls, base,
          imports, edges, warnings, crates>>

None == <<>>
Unit == [k |-> "other"]
NoSig == [params |-> <<>>, ret |-> Unit]

Members == {ws[p].name : p \in DOMAIN ws}
With(f, x, v) == [y \in DOMAIN f \cup {x} |-> IF y = x THEN v ELSE f[y]]

-----------------------------------------------------------------------------
(* The workspace on disk. *)

Roots(p) == IF p.targets = {} THEN {<<"src">>} ELSE p.targets

IsRustFile(p, f) == \E r \in Roots(p) : IsPrefix(r, f.dir)

SourceRoot(p, f) ==
    CHOOSE r \in Roots(p) :
        /\ IsPrefix(r, f.dir)
        /\ \A s \in Roots(p) : IsPrefix(s, f.dir) => Len(s) <= Len(r)

ModuleOfFile(p, f) ==
    <<p.name>> \o SubSeq(f.dir, Len(SourceRoot(p, f)) + 1, Len(f.dir))
               \o (IF f.stem \in {"lib", "main", "mod"} THEN <<>> ELSE <<f.stem>>)

Opened(p, f) == [path |-> <<p.name>> \o Append(f.dir, f.stem), items |-> f.items,
                 module |-> ModuleOfFile(p, f), broken |-> f.broken]

Snapshot(w) ==
    LET Rust(p) == SelectSeq(p.files, LAMBDA f : IsRustFile(p, f))
        Of(p) == [i \in DOMAIN Rust(p) |-> Opened(p, Rust(p)[i])]
    IN  FlattenSeq([p \in DOMAIN w |-> Of(w[p])])

-----------------------------------------------------------------------------
(* What the parser keeps of types, `use` trees and expressions. *)

\* A bound of an `impl` type is the path of a trait, or None for a lifetime.
FirstTrait(bounds) ==
    LET traits == SelectSeq(bounds, LAMBDA b : b # None)
    IN  IF traits = <<>> THEN None ELSE Head(traits)

RECURSIVE Hint(_)
Hint(ty) == CASE ty.k = "path" -> ty.path
              [] ty.k = "ref"  -> Hint(ty.of)
              [] ty.k = "impl" -> FirstTrait(ty.bounds)
              [] OTHER         -> None

RECURSIVE UseSpecs(_, _)
UseSpecs(t, prefix) ==
    CASE t.k = "path"   -> UseSpecs(t.tree, Append(prefix, t.name))
      [] t.k = "name"   -> << [raw |-> Append(prefix, t.name), alias |-> t.name] >>
      [] t.k = "rename" -> << [raw |-> Append(prefix, t.name), alias |-> t.alias] >>
      [] t.k = "group"  -> FlattenSeq([i \in DOMAIN t.trees |->
                                           UseSpecs(t.trees[i], prefix)])
      [] t.k = "glob"   -> <<>>

RECURSIVE Callee(_)
Callee(e) == \* the call an expression in callee position stands for, as a set
    CASE e.k = "path" -> {[k |-> "path", path |-> e.path]}
      [] e.k = "qself" /\ Hint(e.ty) # None ->
            {[k |-> "ufcs", owner |-> Hint(e.ty), trait |-> Front(e.path),
              name |-> Last(e.path)]}
      [] e.k = "ref"  -> Callee(e.of)
      [] OTHER        -> {}

RECURSIVE Receiver(_)
Receiver(e) ==
    CASE e.k = "ref"   -> Receiver(e.of)
      [] e.k = "qself" -> [k |-> "path", path |-> e.path]
      [] e.k = "path"  ->
            IF Len(e.path) > 1 THEN [k |-> "path", path |-> e.path]
            ELSE IF e.path[1] \in {"self", "Self"} THEN [k |-> "self"]
            ELSE [k |-> "ident", name |-> e.path[1]]
      [] OTHER         -> [k |-> "unknown"]

RECURSIVE CallSpecs(_)
CallSpecs(e) ==
    CASE e.k = "call"   -> Callee(e.fun) \cup CallSpecs(e.fun)
                           \cup UNION {CallSpecs(e.args[i]) : i \in DOMAIN e.args}
      [] e.k = "method" -> {[k |-> "method", name |-> e.name, recv |-> Receiver(e.recv)]}
                           \cup CallSpecs(e.recv)
                           \cup UNION {CallSpecs(e.args[i]) : i \in DOMAIN e.args}
      [] e.k = "ref"    -> CallSpecs(e.of)
      [] OTHER          -> {}

Calls(body) == UNION {CallSpecs(body[i]) : i \in DOMAIN body}

-----------------------------------------------------------------------------
(* resolve_symbol: the id a path written in module `at` stands for. *)

Supers(raw) == Cardinality({i \in DOMAIN raw : \A j \in 1..i : raw[j] = "super"})

Above(path, n) == SubSeq(path, 1, IF n < Len(path) THEN Len(path) - n ELSE 1)

Candidates(raw, at, imp) ==
    LET crate == <<Head(at)>> IN
    (IF raw[1] \in DOMAIN imp THEN << imp[raw[1]] \o Tail(raw) >> ELSE <<>>) \o
    CASE raw[1] = "crate" -> << crate \o Tail(raw) >>
      [] raw[1] = "self"  -> << at \o Tail(raw) >>
      [] raw[1] = "super" -> << Above(at, Supers(raw))
                                \o SubSeq(raw, Supers(raw) + 1, Len(raw)) >>
      [] OTHER -> (IF raw[1] \in Members THEN << raw >> ELSE <<>>)
                  \o << at \o raw, crate \o raw, raw >>

ShortNamed(name, ids) == {id \in ids : Last(id) = name}

ResolveUnchecked(raw, at, imp, ids) == \* mutant: the first candidate is taken
    IF raw = None THEN None ELSE Head(Candidates(raw, at, imp))

Resolve(raw, at, imp, ids) ==
    IF raw = None THEN None
    ELSE LET found == SelectSeq(Candidates(raw, at, imp), LAMBDA c : c \in ids)
             short == ShortNamed(raw[1], ids)
         IN  IF found # <<>> THEN Head(found)
             ELSE IF Len(raw) = 1 /\ Cardinality(short) = 1
                  THEN CHOOSE id \in short : TRUE
                  ELSE None

ShouldWarn(raw, imp, ids) ==
    /\ raw # None
    /\ \/ raw[1] \in {"crate", "self", "super", "Self"} \cup Members \cup DOMAIN imp
       \/ Len(raw) = 1 /\ ShortNamed(raw[1], ids) # {}

-----------------------------------------------------------------------------
(* The walk: visit_items, one item a step, depth first. *)

Tokens(module, file, items) ==
    [i \in DOMAIN items |-> [module |-> module, file |-> file, item |-> items[i]]]

NewNode(kind, module) ==
    [kind |-> kind, module |-> module, fields |-> <<>>, sig |-> NoSig,
     traitMethods |-> <<>>, types |-> {}, calls |-> {}, owner |-> None,
     source |-> "", trait |-> None, methods |-> {}, details |-> {}]

Init ==
    /\ ws \in Workspaces
    /\ phase = "visit" /\ files = Snapshot(ws) /\ todo = <<>>
    /\ nodes = <<>> /\ modules = <<>> /\ inherits = <<>> /\ impls = <<>>
    /\ base = {} /\ imports = <<>> /\ edges = {} /\ warnings = {} /\ crates = <<>>

Module(m, file) ==
    IF m \in DOMAIN modules THEN modules[m]
    ELSE [file |-> file, ids |-> <<>>, uses |-> <<>>]

OpenFile ==
    /\ phase = "visit" /\ todo = <<>> /\ files # <<>>
    /\ LET f == Head(files) IN
       /\ ~f.broken
       /\ modules' = With(modules, f.module, Module(f.module, f.path))
       /\ todo' = Tokens(f.module, f.path, f.items)
    /\ files' = Tail(files)
    /\ UNCHANGED <<ws, phase, nodes, inherits, impls, base, imports, edges,
                   warnings, crates>>

BrokenFile == \* one file that does not parse fails the whole extraction
    /\ phase = "visit" /\ todo = <<>> /\ files # <<>> /\ Head(files).broken
    /\ phase' = "failed"
    /\ UNCHANGED <<ws, files, todo, nodes, modules, inherits, impls, base, imports,
                   edges, warnings, crates>>

Now == Head(todo).item
Here == Head(todo).module
Visiting(kinds) ==
    /\ phase = "visit" /\ todo # <<>> /\ Now.kind \in kinds
    /\ UNCHANGED <<ws, phase, files, base, imports, edges, crates>>

Declare(node) == \* a later item with the same id replaces the node
    LET id == Append(Here, Now.name) IN
    /\ nodes' = With(nodes, id, node)
    /\ modules' = [modules EXCEPT ![Here].ids = Append(@, id)]
    /\ todo' = Tail(todo)

VisitType ==
    /\ Visiting({"struct", "enum", "type", "const", "static"})
    /\ Declare([NewNode(Now.kind, Here) EXCEPT
                    !.fields = IF Now.kind = "struct" THEN Now.fields ELSE <<>>])
    /\ UNCHANGED <<inherits, impls, warnings>>

VisitFn ==
    /\ Visiting({"fn"})
    /\ Declare([NewNode("fn", Here) EXCEPT !.sig = Now.sig, !.calls = Calls(Now.body)])
    /\ UNCHANGED <<inherits, impls, warnings>>

VisitTrait ==
    /\ Visiting({"trait"})
    /\ Declare([NewNode("trait", Here) EXCEPT !.traitMethods = Now.methods])
    /\ inherits' = inherits \o [i \in DOMAIN Now.supers |->
           [from |-> Append(Here, Now.name), raw |-> Now.supers[i], module |-> Here]]
    /\ UNCHANGED <<impls, warnings>>

VisitUse ==
    /\ Visiting({"use"})
    /\ modules' = [modules EXCEPT ![Here].uses = @ \o UseSpecs(Now.tree, <<>>)]
    /\ todo' = Tail(todo)
    /\ UNCHANGED <<nodes, inherits, impls, warnings>>

VisitImpl ==
    /\ Visiting({"impl"})
    /\ IF Hint(Now.self) = None
       THEN /\ warnings' = warnings \cup {<<"unsupported_impl_type", None, Here>>}
            /\ UNCHANGED impls
       ELSE /\ impls' = Append(impls, [raw |-> Hint(Now.self), trait |-> Now.trait,
                                       methods |-> Now.methods, module |-> Here])
            /\ UNCHANGED warnings
    /\ todo' = Tail(todo)
    /\ UNCHANGED <<nodes, modules, inherits>>

VisitMod ==
    /\ Visiting({"mod"})
    /\ LET child == Append(Here, Now.name)
           file == Head(todo).file
       IN  /\ modules' = With(modules, child, [Module(child, file) EXCEPT !.file = file])
           /\ todo' = Tokens(child, file, Now.items) \o Tail(todo)
    /\ UNCHANGED <<nodes, inherits, impls, warnings>>

VisitOther ==
    /\ Visiting({"macro"})
    /\ todo' = Tail(todo)
    /\ UNCHANGED <<nodes, modules, inherits, impls, warnings>>

-----------------------------------------------------------------------------
(* The passes over the whole workspace. *)

AddImport(imp, at, use) == \* later uses of the module see the earlier ones
    LET id == Resolve(use.raw, at, imp, DOMAIN nodes)
    IN  IF id = None THEN imp ELSE With(imp, use.alias, id)

ResolveImports ==
    /\ phase = "visit" /\ todo = <<>> /\ files = <<>>
    /\ base' = DOMAIN nodes
    /\ imports' = [m \in DOMAIN modules |->
           FoldLeft(LAMBDA imp, use : AddImport(imp, m, use), <<>>, modules[m].uses)]
    /\ phase' = "inherits"
    /\ UNCHANGED <<ws, files, todo, nodes, modules, inherits, impls, edges,
                   warnings, crates>>

ResolveInherits ==
    /\ phase = "inherits"
    /\ LET Target(s) == Resolve(s.raw, s.module, imports[s.module], base)
           all == {inherits[i] : i \in DOMAIN inherits}
       IN  /\ edges' = edges \cup {<<"inherit", s.from, Target(s), "supertrait">> :
                                       s \in {t \in all : Target(t) # None}}
           /\ warnings' = warnings \cup
                {<<"unresolved_inherit", s.raw, s.module>> :
                    s \in {t \in all : /\ Target(t) = None
                                       /\ ShouldWarn(t.raw, imports[t.module], base)}}
    /\ inherits' = <<>>
    /\ phase' = "impls"
    /\ UNCHANGED <<ws, files, todo, nodes, modules, impls, base, imports, crates>>

MethodId(owner, name, trait) ==
    owner \o (IF trait = None THEN <<"method", "inherent">>
              ELSE <<"method", "trait">> \o trait) \o <<name>>

MethodNode(owner, m, trait, at) ==
    [NewNode("method", at) EXCEPT
        !.sig = m.sig, !.calls = Calls(m.body), !.owner = owner, !.trait = trait,
        !.source = IF trait = None THEN "inherent" ELSE "trait"]

AddMethodAgain(state, owner, m, trait, at) == \* mutant: listed at every definition
    LET id == MethodId(owner, m.name, trait)
        added == IF id \in DOMAIN state.nodes THEN state.nodes
                 ELSE With(state.nodes, id, MethodNode(owner, m, trait, at))
    IN  [nodes |-> [added EXCEPT ![owner].methods = @ \cup {id}],
         ids   |-> Append(state.ids, id)]

AddMethod(state, owner, m, trait, at) == \* the first definition of an id stays
    LET id == MethodId(owner, m.name, trait)
        isNew == id \notin DOMAIN state.nodes
        added == IF isNew THEN With(state.nodes, id, MethodNode(owner, m, trait, at))
                 ELSE state.nodes
    IN  [nodes |-> [added EXCEPT ![owner].methods = @ \cup {id}],
         ids   |-> IF isNew THEN Append(state.ids, id) ELSE state.ids]

ResolveImpl ==
    /\ phase = "impls" /\ impls # <<>>
    /\ LET p == Head(impls)
           imp == imports[p.module]
           self == Resolve(p.raw, p.module, imp, base)
           trait == Resolve(p.trait, p.module, imp, base)
           detailed == IF trait = None THEN nodes
                       ELSE [nodes EXCEPT ![self].details = @ \cup {trait}]
           after == FoldLeft(LAMBDA s, m : AddMethod(s, self, m, trait, p.module),
                             [nodes |-> detailed, ids |-> modules[p.module].ids],
                             p.methods)
       IN  IF self = None
           THEN /\ warnings' = warnings \cup {<<"unresolved_impl_target", p.raw, p.module>>}
                /\ UNCHANGED <<nodes, modules, edges>>
           ELSE /\ nodes' = after.nodes
                /\ modules' = [modules EXCEPT ![p.module].ids = after.ids]
                /\ edges' = IF trait = None THEN edges
                            ELSE edges \cup {<<"impl", self, trait, "trait_impl">>}
                /\ warnings' = IF trait = None /\ ShouldWarn(p.trait, imp, base)
                               THEN warnings \cup {<<"unresolved_impl_trait", p.trait, p.module>>}
                               ELSE warnings
    /\ impls' = Tail(impls)
    /\ UNCHANGED <<ws, phase, files, todo, inherits, base, imports, crates>>

TypeId(n, ty) == Resolve(Hint(ty), n.module, imports[n.module], DOMAIN nodes)

SignatureTypesAtRoot(n, sig, param, ret) == \* mutant: the result is resolved at the crate root
    {<<TypeId(n, sig.params[i].ty), param>> : i \in DOMAIN sig.params}
    \cup {<<TypeId([n EXCEPT !.module = <<Head(@)>>], sig.ret), ret>>}

SignatureTypes(n, sig, param, ret) ==
    {<<TypeId(n, sig.params[i].ty), param>> : i \in DOMAIN sig.params}
    \cup {<<TypeId(n, sig.ret), ret>>}

ItemTypes(n) == \* the ids found for the types an item mentions, and where it does
    {t \in {<<TypeId(n, n.fields[i]), "struct_field">> : i \in DOMAIN n.fields}
           \cup SignatureTypes(n, n.sig, "fn_param", "fn_return")
           \cup UNION {SignatureTypes(n, n.traitMethods[i].sig, "trait_param", "trait_return") :
                           i \in DOMAIN n.traitMethods} : t[1] # None}

ResolveTypes ==
    /\ phase = "impls" /\ impls = <<>>
    /\ nodes' = [id \in DOMAIN nodes |-> [nodes[id] EXCEPT !.types = ItemTypes(nodes[id])]]
    /\ phase' = "contains"
    /\ UNCHANGED <<ws, files, todo, modules, inherits, impls, base, imports, edges,
                   warnings, crates>>

\* An item without a signature of its own is left after its fields, so the loop
\* over the methods of a trait never has one to work on.
AddContains ==
    /\ phase = "contains"
    /\ LET Signed(id) == nodes[id].kind \in {"fn", "method"}
           Into(id) == {t \in nodes[id].types : /\ t[1] # id
                                                /\ t[2] = "struct_field" \/ Signed(id)}
       IN  edges' = edges \cup UNION {{<<"contain", id, t[1], t[2]>> : t \in Into(id)} :
                                          id \in DOMAIN nodes}
    /\ phase' = "calls"
    /\ UNCHANGED <<ws, files, todo, nodes, modules, inherits, impls, base, imports,
                   warnings, crates>>

Callable(id) == id \in DOMAIN nodes /\ nodes[id].kind \in {"fn", "method"}

MethodTargetInherentFirst(owner, name, trait) == \* mutant
    LET named == {id \in DOMAIN nodes : /\ nodes[id].kind = "method"
                                        /\ nodes[id].owner = owner /\ Last(id) = name}
    IN  IF MethodId(owner, name, None) \in named THEN MethodId(owner, name, None)
        ELSE IF Cardinality(named) = 1 THEN CHOOSE id \in named : TRUE ELSE None

MethodTargetByName(owner, name, trait) == \* mutant: any type's only method of the name
    LET named == {id \in DOMAIN nodes : nodes[id].kind = "method" /\ Last(id) = name}
    IN  IF MethodId(owner, name, trait) \in named THEN MethodId(owner, name, trait)
        ELSE IF Cardinality(named) = 1 THEN CHOOSE id \in named : TRUE ELSE None

MethodTarget(owner, name, trait) == \* the trait preferred, inherent, or the only one
    LET named == {id \in DOMAIN nodes : /\ nodes[id].kind = "method"
                                        /\ nodes[id].owner = owner /\ Last(id) = name}
        inherent == MethodId(owner, name, None)
    IN  IF trait # None /\ MethodId(owner, name, trait) \in named
        THEN MethodId(owner, name, trait)
        ELSE IF inherent \in named THEN inherent
        ELSE IF Cardinality(named) = 1 THEN CHOOSE id \in named : TRUE
        ELSE None

\* A parameter that is a pattern (named "" here) goes by its position.
ParamName(sig, i) ==
    IF sig.params[i].name = "" THEN "_arg" \o ToString(i) ELSE sig.params[i].name

ParamType(n, name) == \* of several typed parameters of one name the last
    LET Id(i) == TypeId(n, n.sig.params[i].ty)
        typed == {i \in DOMAIN n.sig.params : ParamName(n.sig, i) = name /\ Id(i) # None}
    IN  IF typed = {} THEN None ELSE Id(Max(typed))

ReceiverOwner(n, r) ==
    CASE r.k = "self"  -> n.owner
      [] r.k = "ident" -> ParamType(n, r.name)
      [] r.k = "path"  -> Resolve(r.path, n.module, imports[n.module], DOMAIN nodes)
      [] OTHER         -> None

NoTarget == <<None, "">>
Reached(id, context) == IF id = None THEN NoTarget ELSE <<id, context>>

PathTarget(n, raw) ==
    LET In(path) == Resolve(path, n.module, imports[n.module], DOMAIN nodes)
        owner == IF Len(raw) > 1 THEN In(Front(raw)) ELSE None
        trait == IF Front(raw) = <<"Self">> THEN n.trait ELSE None
    IN  IF Callable(In(raw)) THEN <<In(raw), "fn_call">>
        ELSE IF owner = None THEN NoTarget
        ELSE Reached(MethodTarget(owner, Last(raw), trait), "associated_call")

CallTarget(n, c) == \* <<target, context>> of a call in the body of n
    LET In(path) == Resolve(path, n.module, imports[n.module], DOMAIN nodes)
        owner == IF c.k = "ufcs" THEN In(c.owner) ELSE ReceiverOwner(n, c.recv)
        trait == IF c.k = "ufcs" THEN In(c.trait)
                 ELSE IF c.recv.k = "self" THEN n.trait ELSE None
    IN  IF c.k = "path" THEN PathTarget(n, c.path)
        ELSE IF owner = None THEN NoTarget
        ELSE Reached(MethodTarget(owner, c.name, trait),
                     IF c.k = "ufcs" THEN "ufcs_call" ELSE "method_call")

Constructor(raw) == Len(raw) > 1 /\ Last(raw) \in Capitalized

ShouldWarnCall(n, c) ==
    LET Warn(raw) == ShouldWarn(raw, imports[n.module], DOMAIN nodes)
    IN  CASE c.k = "path" -> ~Constructor(c.path) /\ Warn(c.path)
          [] c.k = "ufcs" -> Warn(c.owner) \/ Warn(c.trait)
          [] OTHER -> \/ c.recv.k = "self"
                      \/ c.recv.k = "path" /\ Warn(c.recv.path)

ResolveCalls ==
    /\ phase = "calls"
    /\ LET sites == UNION {{id} \X nodes[id].calls : id \in DOMAIN nodes}
           At(s) == CallTarget(nodes[s[1]], s[2])
       IN  /\ edges' = edges \cup {<<"call", s[1], At(s)[1], At(s)[2]>> : s \in
                                       {t \in sites : Callable(At(t)[1])}}
           /\ warnings' = warnings \cup
                {<<"unresolved_call", s[2], nodes[s[1]].module>> : s \in
                    {t \in sites : At(t) = NoTarget /\ ShouldWarnCall(nodes[t[1]], t[2])}}
    /\ phase' = "views"
    /\ UNCHANGED <<ws, files, todo, nodes, modules, inherits, impls, base, imports, crates>>

Tree(crate) == \* the modules the tree of a crate reaches from its root
    {<<crate>>} \cup {m \in DOMAIN modules :
        /\ m[1] = crate
        /\ \A n \in 2..Len(m) : SubSeq(m, 1, n) \in DOMAIN modules}

BuildViews ==
    /\ phase = "views"
    /\ crates' = [c \in Members |-> Tree(c)]
    /\ phase' = "done"
    /\ UNCHANGED <<ws, files, todo, nodes, modules, inherits, impls, base, imports,
                   edges, warnings>>

Stopped == phase \in {"done", "failed"} /\ UNCHANGED vars

Next == \/ OpenFile \/ BrokenFile
        \/ VisitType \/ VisitFn \/ VisitTrait \/ VisitUse \/ VisitImpl
        \/ VisitMod \/ VisitOther
        \/ ResolveImports \/ ResolveInherits \/ ResolveImpl
        \/ ResolveTypes \/ AddContains \/ ResolveCalls \/ BuildViews \/ Stopped

Spec == Init /\ [][Next]_vars

-----------------------------------------------------------------------------
(* The reference: what a path names by the rules of the language, where    *)
(* they need neither re-exports nor globs to say it.                       *)

RECURSIVE Within(_, _)
Within(module, items) ==
    UNION {{[at |-> module, item |-> items[i]]} \cup
           (IF items[i].kind = "mod" THEN Within(Append(module, items[i].name), items[i].items)
            ELSE {}) : i \in DOMAIN items}

TextOf(kind) == {t \in UNION {Within(f.module, f.items) : f \in ToSet(Snapshot(ws))} :
                     t.item.kind = kind}

\* A path that begins at a crate, at the module or at its parents.
Anchored(raw, at) ==
    CASE raw[1] = "crate" -> {<<at[1]>> \o Tail(raw)}
      [] raw[1] = "self"  -> {at \o Tail(raw)}
      [] raw[1] = "super" -> {SubSeq(at, 1, Len(at) - Supers(raw))
                              \o SubSeq(raw, Supers(raw) + 1, Len(raw))}
      [] raw[1] \in Members -> {raw}
      [] OTHER -> {}

\* The item a plain path names: anchored, below a child module, local, or imported
\* by the one anchored `use` of its name; the empty set when it is not plain.
Plain(raw, at) ==
    LET uses == {u \in ToSet(modules[at].uses) : u.alias = raw[1]}
        child == Append(at, raw[1]) \in DOMAIN modules
        reached == IF uses = {} THEN Anchored(raw, at) \cup {at \o raw}
                   ELSE UNION {Anchored(u.raw, at) : u \in uses}
    IN  IF \/ raw = None
           \/ child /\ raw[1] \in Members
           \/ uses # {} /\ (Len(raw) > 1 \/ Cardinality(uses) > 1 \/ at \o raw \in base)
        THEN {} ELSE reached \cap base

PlainType(ty, at) == Plain(Hint(ty), at)

\* The impl blocks of the workspace, with the ids their plain paths name.
Blocks ==
    {[methods |-> ToSet(t.item.methods), inherent |-> t.item.trait = None,
      self |-> PlainType(t.item.self, t.at), trait |-> Plain(t.item.trait, t.at)] :
         t \in TextOf("impl")}

\* The methods `name` of the type id, when every block that has one is plain.
MethodsOf(id, name) ==
    LET with == {b \in Blocks : \E m \in b.methods : m.name = name}
    IN  IF \E b \in with : b.self = {} \/ (~b.inherent /\ b.trait = {}) THEN {}
        ELSE {MethodId(id, name, IF b.inherent THEN None ELSE CHOOSE r \in b.trait : TRUE) :
                  b \in {c \in with : c.self = {id}}}

-----------------------------------------------------------------------------
Kinds == {"struct", "enum", "type", "const", "static", "trait", "fn", "method"}

\* The graph is closed at every moment: an edge joins two nodes, a call ends in
\* something callable, a method belongs to a node that lists it, and every id a
\* module lists is a node.
TypeOK ==
    /\ phase \in {"visit", "inherits", "impls", "contains", "calls", "views", "done", "failed"}
    /\ \A id \in DOMAIN nodes : /\ nodes[id].kind \in Kinds
                                /\ nodes[id].module \in DOMAIN modules
                                /\ nodes[id].methods \subseteq DOMAIN nodes
                                /\ LET owner == nodes[id].owner
                                   IN  owner # None => /\ owner \in DOMAIN nodes
                                                       /\ id \in nodes[owner].methods
    /\ \A e \in edges : /\ {e[2], e[3]} \subseteq DOMAIN nodes
                        /\ e[1] = "call" => Callable(e[2]) /\ Callable(e[3])
    /\ \A m \in DOMAIN modules : ToSet(modules[m].ids) \subseteq DOMAIN nodes

\* A supertrait, an impl block, a field, a parameter or a result whose path is
\* plain gives the edge to exactly the item the path names, whatever other items
\* of the workspace share the name: resolve_symbol tries its candidates in an
\* order that never puts a namesake first.  The signatures a trait declares are
\* resolved in the same way; add_contain_edges draws no edge for them.
PlainTypesLinked ==
    phase = "done" =>
        LET Signature(n, sig, param, ret) ==
                {<<PlainType(sig.params[i].ty, n.module), param>> : i \in DOMAIN sig.params}
                \cup {<<PlainType(sig.ret, n.module), ret>>}
            Types(n) ==
                {<<PlainType(n.fields[i], n.module), "struct_field">> : i \in DOMAIN n.fields}
                \cup Signature(n, n.sig, "fn_param", "fn_return")
                \cup UNION {Signature(n, m.sig, "trait_param", "trait_return") :
                                m \in ToSet(n.traitMethods)}
            Mentions(n, id, context) ==
                \E t \in Types(n) : t[2] = context /\ t[1] \in {{}, {id}}
            Supertraits == UNION {{<<Append(t.at, t.item.name), Plain(s, t.at)>> :
                                       s \in ToSet(t.item.supers)} : t \in TextOf("trait")}
        IN  /\ \A b \in Blocks : b.self \X {"impl"} \X b.trait
                   \subseteq {<<e[2], e[1], e[3]>> : e \in edges}
            /\ \A s \in Supertraits : \A r \in s[2] : <<"inherit", s[1], r, "supertrait">> \in edges
            /\ \A id \in DOMAIN nodes :
                   /\ \A t \in nodes[id].types : Mentions(nodes[id], t[1], t[2])
                   /\ \A t \in Types(nodes[id]) : \A r \in t[1] :
                         /\ <<r, t[2]>> \in nodes[id].types
                         /\ t[2] \in {"struct_field", "fn_param", "fn_return"} /\ r # id =>
                               <<"contain", id, r, t[2]>> \in edges
            /\ \A e \in edges :
                   CASE e[1] = "impl" -> \E b \in Blocks : /\ b.self \in {{}, {e[2]}}
                                                           /\ b.trait \in {{}, {e[3]}}
                     [] e[1] = "inherit" -> \E s \in Supertraits : /\ s[1] = e[2]
                                                                   /\ s[2] \in {{}, {e[3]}}
                     [] e[1] = "contain" -> Mentions(nodes[e[2]], e[3], e[4])
                     [] OTHER -> TRUE

\* A call by a plain path ends at the function it names; `T::f()` of a plain type
\* ends at the one f of T, and `<T as R>::f()` at the f of that trait, wherever
\* in the workspace the impl block stands.
PlainCallsLinked ==
    phase = "done" =>
        \A id \in DOMAIN nodes : \A c \in nodes[id].calls :
            LET at == nodes[id].module
                To(t, context) == <<"call", id, t, context>> \in edges
            IN  CASE c.k = "path" ->
                       /\ \A f \in Plain(c.path, at) : Callable(f) => To(f, "fn_call")
                       /\ Len(c.path) > 1 /\ Plain(c.path, at) = {} =>
                            \A t \in Plain(Front(c.path), at) :
                                LET ms == MethodsOf(t, Last(c.path))
                                IN  Cardinality(ms) = 1 => \A m \in ms : To(m, "associated_call")
                  [] c.k = "ufcs" ->
                       \A t \in Plain(c.owner, at), r \in Plain(c.trait, at) :
                           LET m == MethodId(t, c.name, r)
                           IN  m \in MethodsOf(t, c.name) => To(m, "ufcs_call")
                  [] OTHER -> TRUE

\* `x.m()` on self or on a parameter of a plain type ends at the one m of that
\* type; and no edge of a method call ends at a method of another type.  A body
\* has no `let` here, as in collect_call_specs_from_block, which does not look
\* for one: a local of the same name is taken for the parameter.
MethodCallsFindOwner ==
    phase = "done" =>
        LET Owner(n, r) ==
                CASE r.k = "self" -> {n.owner} \ {None}
                  [] r.k = "ident" -> UNION {PlainType(p.ty, n.module) :
                                         p \in {q \in ToSet(n.sig.params) : q.name = r.name}}
                  [] OTHER -> {}
            Sites(id) == {c \in nodes[id].calls : c.k = "method"}
        IN  /\ \A id \in DOMAIN nodes : \A c \in Sites(id) :
                   \A t \in Owner(nodes[id], c.recv) :
                       LET ms == MethodsOf(t, c.name)
                       IN  Cardinality(ms) = 1 =>
                               \A m \in ms : <<"call", id, m, "method_call">> \in edges
            /\ \A e \in edges : e[4] = "method_call" =>
                   \E c \in Sites(e[2]) :
                       /\ c.name = Last(e[3])
                       /\ Owner(nodes[e[2]], c.recv) \in {{}, {nodes[e[3]].owner}}

\* Every node is shown in the tree of its crate, under one module, if every
\* module above it has a file or a `mod` of its own: a method is listed by the
\* module of the impl block that gave it its body, and by no other.  (An item
\* declared twice, as under two `cfg`s, is listed twice by that module.)
EveryNodeInOneView ==
    phase = "done" =>
        \A id \in DOMAIN nodes :
            LET listed == {m \in DOMAIN modules : id \in ToSet(modules[m].ids)}
                shown == {m \in UNION {crates[c] : c \in Members} \cap DOMAIN modules :
                              id \in ToSet(modules[m].ids)}
            IN  /\ listed = {nodes[id].module}
                /\ (\A n \in 2..Len(nodes[id].module) :
                        SubSeq(nodes[id].module, 1, n) \in DOMAIN modules) => shown = listed
=============================================================================
