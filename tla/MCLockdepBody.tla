--------------------------- MODULE MCLockdepBody ----------------------------
(***************************************************************************)
(* Bodies of five or six blocks over two global spin locks: a plain one,   *)
(* taken through local 2, and one that disables local interrupts, taken    *)
(* through local 3.  The first argument may be an L1 bottom half's guard.  *)
(***************************************************************************)
EXTENDS LockdepBody

Local(l) == Place(l, <<>>)
Move(l) == [kind |-> "move", place |-> Local(l)]
Copy(l) == [kind |-> "copy", place |-> Local(l)]

Goto == [stmts |-> <<>>, term |-> [kind |-> "goto"]]
Call(stmts, name, args, dest, guardian) ==
    [stmts |-> stmts,
     term |-> [kind |-> "call", func |-> [kind |-> "fn", fn |-> name], args |-> args,
               dest |-> Local(dest), recv |-> [primitive |-> "SpinLock", guardian |-> guardian]]]

\* The receiver is a local given the address of the lock's static.
LockStatic(name, temp, dest, guardian) ==
    Call(<<[op |-> "use", dst |-> temp, src |-> [kind |-> "static", fn |-> name]]>>,
         "lock", <<Copy(temp)>>, dest, guardian)

\* What a block may do, with the guards it needs and the guards it leaves.
Ops == {"goto", "lockA", "lockB", "dropA", "dropFnA", "deadB", "returnA"}
Content(op) ==
    CASE op = "goto" -> Goto
      [] op = "lockA" -> LockStatic("A", 4, 2, "PreemptDisabled")
      [] op = "lockB" -> LockStatic("B", 5, 3, "LocalIrqDisabled")
      [] op = "dropA" -> [stmts |-> <<>>, term |-> [kind |-> "drop", place |-> Local(2)]]
      [] op = "dropFnA" -> Call(<<>>, "drop", <<Move(2)>>, 6, "PreemptDisabled")
      [] op = "deadB" -> [stmts |-> <<[op |-> "storage_dead", dst |-> 3, src |-> Move(3)]>>,
                          term |-> [kind |-> "goto"]]
      [] op = "returnA" -> [stmts |-> <<[op |-> "use", dst |-> 7, src |-> Move(2)]>>,
                            term |-> [kind |-> "goto"]]

\* Control flow: a diamond in both orders, a loop, a tree, calls that may unwind, and a
\* switch with two edges to one block.
Shapes == {<< <<2, 3>>, <<4>>, <<4>>, <<5>> >>, << <<3, 2>>, <<4>>, <<4>>, <<5>> >>,
           << <<2>>, <<3>>, <<2, 4>>, <<5>> >>,
           << <<2, 3>>, <<4>>, <<5>>, <<>> >>,
           << <<2>>, <<3, 5>>, <<4, 5>>, <<>> >>,
           << <<2>>, <<3, 3>>, <<4>>, <<5>> >>}
\* A diamond whose branches end in an empty block before they meet.
QuietDiamond == << <<2, 3>>, <<4>>, <<5>>, <<6>>, <<6>> >>

\* The locals whose guard is held after the block, from those held before: none when the
\* block would lock into a local that holds a guard or release one that does not.
After(op, held) ==
    CASE op = "lockA" -> IF 2 \in held THEN {} ELSE {held \cup {2}}
      [] op = "lockB" -> IF 3 \in held THEN {} ELSE {held \cup {3}}
      [] op \in {"dropA", "dropFnA", "returnA"} -> IF 2 \in held THEN {held \ {2}} ELSE {}
      [] op = "deadB" -> IF 3 \in held THEN {held \ {3}} ELSE {}
      [] OTHER -> {held}

\* Every path of the body locks and releases as a compiled body does.
Legal(shape, ops) ==
    LET Exits == {Len(shape) + 1}
        Step(R) == R \cup UNION {{<<shape[r[1]][i], h>> :
                                    i \in DOMAIN shape[r[1]], h \in After(ops[r[1]], r[2])} :
                                  r \in {q \in R : q[1] \notin Exits}}
        reach[n \in 0 .. 10] == IF n = 0 THEN {<<1, {}>>} ELSE Step(reach[n - 1])
    IN  \A r \in reach[10] : r[1] \notin Exits => After(ops[r[1]], r[2]) # {}

Body(shape, ops, guarded) ==
    [name |-> "f", args |-> 1, callables |-> {}, statics |-> <<>>, irq_guard_arg |-> guarded,
     blocks |-> [b \in 1 .. Len(shape) |-> Content(ops[b]) @@ [succs |-> shape[b]]]
                \o <<[stmts |-> <<>>, term |-> [kind |-> "return"], succs |-> <<>>]>>]

\* A switch has no effect of its own: a block with two successors is one or a call.
Compiled(shape, ops) ==
    /\ \A b \in DOMAIN shape : Len(shape[b]) = 2 => ops[b] # "dropA"
    /\ Legal(shape, ops)

AllBodies ==
    {Body(p[1], p[2], p[3]) :
        p \in {q \in Shapes \X [1 .. 4 -> Ops] \X BOOLEAN : Compiled(q[1], q[2])}}
    \cup {Body(QuietDiamond, p[1], p[2]) :
        p \in {q \in {ops \o <<"goto", "goto">> : ops \in [1 .. 3 -> Ops]} \X BOOLEAN :
                  Compiled(QuietDiamond, q[1])}}
=============================================================================
