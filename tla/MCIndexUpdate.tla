---------------------------- MODULE MCIndexUpdate ----------------------------
(* One package with two files of the same qualified prefix: its build script *)
(* build.rs and its module src/build.rs.                                    *)
EXTENDS IndexUpdate

CONSTANTS a, b, bad, p1, p2

OnePackage ==
    {[package |-> "pkg", root |-> <<>>,
      targets |-> <<[kind |-> "lib", name |-> "pkg", dirs |-> <<"src">>, stem |-> "lib"]>>]}
Checkout == <<"home", "pkg">>

Script == [dirs |-> <<>>, stem |-> "build"]
Module == [dirs |-> <<"src">>, stem |-> "build"]
TwoPaths == <<Script, Module>>

Item(kind, parent, name, line) ==
    [kind |-> kind, parent |-> parent, name |-> name, trait |-> NoName, line |-> line,
     calls |-> <<>>, test |-> FALSE, hints |-> <<>>, marks |-> {}]

\* use std::fs; fn run() { go() }
TextA == <<Item("use", 0, <<"std", "fs">>, 1),
           [Item("fn", 0, "run", 2) EXCEPT !.calls = << << <<"go">> >> >>, !.marks = {"spawn"}]>>
\* fn run() {}  mod tests { use super::run; fn test_run() { run() } }
TextB == <<Item("fn", 0, "run", 1), Item("mod", 0, "tests", 2),
           Item("use", 2, <<"super", "run">>, 3),
           [Item("fn", 2, "test_run", 4) EXCEPT !.calls = << << <<"run">> >> >>, !.hints = <<"run">>]>>

AllContents == {a, b, bad}
OnlyBad == {bad}
TextOf == [c \in {a, b} |-> IF c = a THEN TextA ELSE TextB]
\* a and b are of one length, so that only the time tells them apart.
OneSize == [c \in {a, b, bad} |-> 1]
History == <<{Script, Module}, {Module}, {Script, Module}>>
BothFiles == [f \in {Script, Module} |-> [content |-> IF f = Script THEN a ELSE b, mtime |-> 1]]

Interchangeable == Permutations({p1, p2})

==============================================================================
