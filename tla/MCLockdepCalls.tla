--------------------------- MODULE MCLockdepCalls ---------------------------
(***************************************************************************)
(* Crates of three functions.  f is public; it calls g, with a static, its *)
(* argument or a callback, or registers a callback for an interrupt; g     *)
(* locks, calls h, calls its argument, or returns a guard; h locks or      *)
(* returns a guard.  A callback is h, g, or spawn of another crate.  A     *)
(* handler may be entered with the interrupt guard.                        *)
(***************************************************************************)
EXTENDS LockdepCalls

\* What the theorems about executions assume of the crates.
ASSUME PassedDirectly == CallbacksPassedDirectly
ASSUME OnlyRegistered == GuardsOnlyRegistered

Local(l) == Place(l, <<>>)
Copy(l) == [kind |-> "copy", place |-> Local(l)]
Move(l) == [kind |-> "move", place |-> Local(l)]
Static(name) == [kind |-> "static", fn |-> name]
FnItem(name) == [kind |-> "fn", fn |-> name]

Recv(primitive, guardian) == [primitive |-> primitive, guardian |-> guardian]
CallTerm(func, args, dest, recv) ==
    [kind |-> "call", func |-> func, args |-> args, dest |-> Local(dest), recv |-> recv]

\* Locks a static through local 4, or a field of what argument 1 points to through local 5.
LockStatic(name, dest, guardian) ==
    [stmts |-> <<[op |-> "use", dst |-> 4, src |-> Static(name)]>>,
     term |-> CallTerm(FnItem("lock"), <<Copy(4)>>, dest, Recv("SpinLock", guardian))]
Field(l, field) == [kind |-> "copy", place |-> Place(l, <<"Deref", field>>)]
LockField(field, dest, method) ==
    [stmts |-> <<[op |-> "ref", dst |-> 5, src |-> Field(1, field)]>>,
     term |-> CallTerm(FnItem(method), <<Move(5)>>, dest, Recv("RwLock", "PreemptDisabled"))]
DropLocal(l) == [stmts |-> <<>>, term |-> [kind |-> "drop", place |-> Local(l)]]

CallOf(func, arg, dest) ==
    [stmts |-> <<>>, term |-> CallTerm(func, <<arg>>, dest, Recv("none", "none"))]
CallField(name, field, dest) ==
    [stmts |-> <<[op |-> "ref", dst |-> 6, src |-> Field(1, field)]>>,
     term |-> CallTerm(FnItem(name), <<Move(6)>>, dest, Recv("none", "none"))]
Register(entry, args) ==
    [stmts |-> <<>>, term |-> CallTerm(FnItem(entry), args, 9, Recv("none", "none"))]
Return == [stmts |-> <<>>, term |-> [kind |-> "return"]]

Function(name, public, callables, blocks) ==
    [name |-> name, args |-> 1, public |-> public, callables |-> callables, statics |-> <<>>,
     irq_guard_arg |-> FALSE, blocks |-> Append(blocks, Return)]

PlainBodiesF == {
    <<LockStatic("A", 2, "PreemptDisabled"), CallOf(FnItem("g"), Static("B"), 3)>>,
    <<LockStatic("A", 2, "LocalIrqDisabled"), CallOf(FnItem("g"), Copy(1), 3), DropLocal(2),
      CallOf(FnItem("g"), Static("B"), 3)>>,
    <<CallField("g", "y", 2), LockStatic("A", 3, "LocalIrqDisabled")>>,
    <<CallOf(FnItem("g"), Static("A"), 2), DropLocal(2), CallOf(FnItem("g"), Static("B"), 2)>>,
    <<Register("on_active", <<Copy(1), FnItem("h")>>), CallOf(FnItem("g"), Copy(1), 2)>>,
    <<Register("register_bottom_half_handler_l2", <<FnItem("g")>>),
      LockStatic("A", 2, "PreemptDisabled"), CallOf(FnItem("h"), Copy(1), 3)>>,
    <<Register("on_active", <<Copy(1), FnItem("spawn")>>), CallOf(FnItem("h"), Copy(1), 2)>>}
CallbackBodiesF == {
    <<LockStatic("A", 2, "PreemptDisabled"), CallOf(FnItem("g"), FnItem("spawn"), 3)>>,
    <<LockStatic("A", 2, "PreemptDisabled"), CallOf(FnItem("g"), FnItem("h"), 3)>>,
    <<LockStatic("A", 2, "LocalIrqDisabled"),
      [stmts |-> <<[op |-> "use", dst |-> 7, src |-> FnItem("h")]>>,
       term |-> CallTerm(FnItem("g"), <<Copy(7)>>, 3, Recv("none", "none"))]>>}
PlainBodiesG == {
    <<LockField("x", 2, "read")>>,
    <<LockStatic("A", 2, "PreemptDisabled"), DropLocal(2), CallField("h", "x", 3)>>,
    <<LockField("x", 0, "write")>>,
    <<CallOf(FnItem("h"), Copy(1), 0)>>,
    <<CallOf(FnItem("g"), Copy(1), 2), LockField("x", 3, "write")>>,
    <<LockStatic("B", 2, "LocalIrqDisabled"), CallOf(FnItem("h"), Copy(1), 3)>>}
CallbackBodiesG == {
    <<CallOf(Copy(1), Static("B"), 2)>>,
    <<LockStatic("B", 2, "LocalIrqDisabled"), CallOf(Copy(1), Static("B"), 3)>>,
    <<CallOf(FnItem("g"), Copy(1), 3), CallOf(Copy(1), Static("B"), 2)>>}
BodiesH == {
    <<LockField("x", 2, "read"), LockStatic("A", 3, "PreemptDisabled")>>,
    <<LockField("y", 0, "write")>>,
    <<LockStatic("B", 2, "LocalIrqDisabled"), DropLocal(2), LockField("x", 2, "read")>>}

Crate(f, g, callables, h) ==
    "f" :> Function("f", TRUE, {}, f) @@ "g" :> Function("g", FALSE, callables, g) @@
    "h" :> Function("h", FALSE, {}, h)

\* g is a handler that f registers and that is entered with the interrupt guard.
HandlerCrate(f, g, h) == [Crate(f, g, {}, h) EXCEPT !["g"].irq_guard_arg = TRUE]
HandlerBodiesF == {
    <<Register("register_bottom_half_handler_l1", <<FnItem("g")>>),
      LockStatic("A", 2, "PreemptDisabled"), CallOf(FnItem("h"), Copy(1), 3)>>}
HandlerBodiesG == {
    <<CallOf(FnItem("h"), Static("B"), 3)>>,
    <<DropLocal(1), LockStatic("B", 2, "PreemptDisabled"), CallOf(FnItem("h"), Static("A"), 3)>>}

AllCrates ==
    {Crate(p[1], p[2], {}, p[3]) : p \in PlainBodiesF \X PlainBodiesG \X BodiesH}
    \cup {Crate(p[1], p[2], {1}, p[3]) : p \in CallbackBodiesF \X CallbackBodiesG \X BodiesH}
    \cup {HandlerCrate(p[1], p[2], p[3]) : p \in HandlerBodiesF \X HandlerBodiesG \X BodiesH}

\* A function that locks a field of its argument and calls itself on another field.
ListCrates ==
    {Crate(<<CallOf(FnItem("g"), Copy(1), 2)>>,
           <<LockField("x", 2, "write"), DropLocal(2), CallField("g", "y", 3)>>, {},
           <<LockField("x", 2, "read")>>)}
=============================================================================
