----------------------------- MODULE MCRustMap -----------------------------
(***************************************************************************)
(* Small workspaces for RustMap, in three families: the same names         *)
(* declared in several modules and reached by every form of path and of    *)
(* `use`; the blocks and calls a type's methods can have; and the layouts  *)
(* a package can have on disk.                                             *)
(***************************************************************************)
EXTENDS RustMap

Pkg(name, targets, fs) == [name |-> name, targets |-> targets, files |-> fs]
File(dir, stem, items) == [dir |-> dir, stem |-> stem, items |-> items, broken |-> FALSE]
Src(stem, items) == File(<<"src">>, stem, items)

P(path) == [k |-> "path", path |-> path]
Ref(of) == [k |-> "ref", of |-> of]
Call(fun, args) == [k |-> "call", fun |-> fun, args |-> args]
Dot(recv, name) == [k |-> "method", recv |-> recv, name |-> name, args |-> <<>>]
QSelf(ty, path) == [k |-> "qself", ty |-> ty, path |-> path]
AnyOf(bounds) == [k |-> "impl", bounds |-> bounds]
Param(name, ty) == [name |-> name, ty |-> ty]
Sig(ty, second) == [params |-> << Param("x", ty), Param("", second) >>, ret |-> ty]

Struct(name, fields) == [kind |-> "struct", name |-> name, fields |-> fields]
Trait(name, supers, methods) ==
    [kind |-> "trait", name |-> name, supers |-> supers, methods |-> methods]
Fn(name, sig, body) == [kind |-> "fn", name |-> name, sig |-> sig, body |-> body]
Impl(self, trait, methods) ==
    [kind |-> "impl", self |-> self, trait |-> trait, methods |-> methods]
Method(name, body) == [name |-> name, sig |-> NoSig, body |-> body]
Mod(name, items) == [kind |-> "mod", name |-> name, items |-> items]
Use(tree) == [kind |-> "use", tree |-> tree]
Macro == [kind |-> "macro"]

-----------------------------------------------------------------------------
(* Paths: S, R and f are declared in some of a, a::m, b; module `user`     *)
(* imports them or not and names them by one form of path.                 *)

PathTo(prefix, name) == Append(prefix, name)

RECURSIVE UsePath(_, _)
UsePath(prefix, tree) ==
    IF prefix = <<>> THEN tree
    ELSE [k |-> "path", name |-> Head(prefix), tree |-> UsePath(Tail(prefix), tree)]

Name(n) == [k |-> "name", name |-> n]
As(n, alias) == [k |-> "rename", name |-> n, alias |-> alias]
Group(trees) == [k |-> "group", trees |-> trees]

Imports ==
    {<<>>, << Use([k |-> "path", name |-> "b", tree |-> [k |-> "glob"]]) >>}
    \cup {<< Use(UsePath(p, Group(<< Name("S"), Name("R"), Name("f") >>))) >> :
              p \in {<<"crate">>, <<"crate", "m">>, <<"super">>, <<"b">>}}
    \cup {<< Use(UsePath(p, Group(<< As("S", "S2"), As("R", "R2"), As("f", "f2") >>))) >> :
              p \in {<<"a", "m">>, <<"b">>}}

Forms ==
    [prefix : {<<>>, <<"self">>, <<"super">>, <<"super", "super">>, <<"crate">>,
               <<"crate", "m">>, <<"m">>, <<"a">>, <<"b">>},
     names : {<<"S", "R", "f">>}]
    \cup [prefix : {<<>>}, names : {<<"S2", "R2", "f2">>}]

Declared == << Struct("S", <<>>), Trait("R", <<>>, <<>>), Fn("f", NoSig, <<>>) >>

UserOf(form) ==
    LET ty == PathTo(form.prefix, form.names[1])
        tr == PathTo(form.prefix, form.names[2])
        fn == PathTo(form.prefix, form.names[3])
        anyTr == Ref(AnyOf(<< None, tr >>)) \* &(impl 'a + R)
    IN  << Struct("H", << P(ty), Unit >>),
           Trait("K", << tr >>, << [name |-> "k", sig |-> Sig(Ref(P(ty)), anyTr)] >>),
           Impl(P(ty), tr, << Method("g", <<>>) >>),
           Impl(Ref(P(ty)), <<>>, << Method("h", << Dot(P(<<"self">>), "g") >>) >>),
           Impl(P(<<"H">>), tr, <<>>),
           Fn("w", Sig(Ref(P(ty)), anyTr),
              << Call(P(fn), << Dot(P(<<"x">>), "h") >>), Call(P(Append(ty, "h")), <<>>),
                 Call(QSelf(P(ty), Append(tr, "g")), <<>>) >>) >>

PathWorkspace(places, user, uses, form) ==
    LET In(m) == (IF m \in places THEN Declared ELSE <<>>)
                   \o (IF m = user THEN uses \o UserOf(form) ELSE <<>>)
    IN  << Pkg("a", {<<"src">>},
               << Src("lib", << Mod("m", <<>>) >> \o In("a")),
                  Src("m", In("m") \o << Mod("n", In("n")) >>) >>),
           Pkg("b", {}, << Src("lib", In("b")) >>) >>

PathWorkspaces ==
    {PathWorkspace(places, user, uses, form) :
        places \in SUBSET {"a", "m", "b"} \ {{}}, user \in {"a", "m", "n", "b"},
        uses \in Imports, form \in Forms}

-----------------------------------------------------------------------------
(* Methods: some of the blocks of S, and the ways to call g.               *)

BlocksOf == {
    Impl(P(<<"S">>), <<>>, << Method("g", <<>>) >>),
    Impl(P(<<"S">>), <<"R">>, << Method("g", << Dot(P(<<"self">>), "h") >>) >>),
    Impl(P(<<"S">>), <<"Q">>, << Method("g", <<>>), Method("h", << Dot(P(<<"self">>), "g") >>) >>),
    Impl(P(<<"S">>), <<"Debug">>, << Method("g", << Call(P(<<"f">>), <<>>) >>) >>),
    Impl(P(<<"E">>), <<"R">>, << Method("g", <<>>) >>),
    Impl(Unit, <<>>, << Method("g", <<>>) >>) }

Bodies == {
    << Dot(P(<<"x">>), "g"), Dot(P(<<"_arg2">>), "g"), Call(P(<<"S", "g">>), <<>>) >>,
    << Dot(Ref(P(<<"x">>)), "h"), Dot(P(<<"y">>), "g") >>,
    << Call(P(<<"S", "New">>), << Dot(P(<<"c", "X">>), "g") >>), Call(P(<<"Self", "g">>), <<>>) >>,
    << Call(QSelf(P(<<"S">>), <<"R", "g">>), <<>>), Call(QSelf(P(<<"S">>), <<"g">>), <<>>) >>,
    << Dot(Dot(P(<<"x">>), "g"), "h"), Call(Ref(P(<<"E", "g">>)), << Call(P(<<"g">>), <<>>) >>) >> }

MethodWorkspace(home, away, body) ==
    LET Seq2(blocks) == SetToSeq(blocks)
    IN  << Pkg("a", {<<"src">>},
              << Src("lib", << Struct("S", <<>>), [kind |-> "enum", name |-> "E"],
                               Trait("R", <<>>, << [name |-> "g", sig |-> Sig(P(<<"Self">>), Unit)] >>),
                               Trait("Q", << <<"R">>, <<"Debug">> >>, <<>>), Macro >>
                            \o Seq2(home) \o << Mod("m", <<>>), Fn("w", Sig(P(<<"S">>), P(<<"E">>)), body) >>),
                 Src("m", << Use(UsePath(<<"super">>, Group(<< Name("S"), Name("R"), Name("E"),
                                                               Name("Q") >>))) >>
                          \o Seq2(away)) >>) >>

MethodWorkspaces ==
    {MethodWorkspace(home, away, body) :
        home \in SUBSET BlocksOf, away \in {x \in SUBSET BlocksOf : Cardinality(x) <= 1},
        body \in Bodies}

-----------------------------------------------------------------------------
(* Layouts: which targets the package has, and what lies in its files.     *)

LayoutWorkspace(targets, here, deep, broken, inline) ==
    << Pkg("a", targets,
           << File(<<>>, "build", << Fn("main", NoSig, << Call(P(<<"run">>), <<>>) >>) >>),
              [File(<<"src", "k">>, "mod", deep) EXCEPT !.broken = broken],
              File(<<"src", "k">>, "p", deep),
              Src("lib", here), Src("main", here),
              File(<<"tests">>, "k", << Mod("q", inline) >> \o deep) >>) >>

LayoutWorkspaces ==
    {LayoutWorkspace(targets, here, deep, broken, inline) :
        targets \in SUBSET {<<>>, <<"src">>, <<"tests">>, <<"src", "k">>},
        here \in {<< Fn("run", NoSig, << Call(P(<<"k", "f">>), <<>>) >>) >>,
                  << Mod("k", <<>>), Fn("main", NoSig, <<>>) >>,
                  << [kind |-> "const", name |-> "N"], Mod("q", << Struct("S", <<>>) >>) >>},
        deep \in {Declared, << Impl(P(<<"S">>), <<>>, << Method("g", <<>>) >>) >>},
        broken \in BOOLEAN,
        inline \in {<<>>, << Struct("S", << P(<<"super", "S">>) >>) >>}}

MCWorkspaces == PathWorkspaces \cup MethodWorkspaces \cup LayoutWorkspaces
MCCapitalized == {"S", "S2", "R", "R2", "K", "H", "E", "Q", "New", "N", "X"}
=============================================================================
