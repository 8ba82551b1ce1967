--------------------------- MODULE MCLockdepReport --------------------------
(***************************************************************************)
(* Four locks: two spin locks, a read-write lock by its modes, and a       *)
(* mutex.  The orders give cycles of one, two and three locks, two cycles  *)
(* in one component, cycles through a shared read, and a sleeping lock     *)
(* below a spin lock.                                                      *)
(***************************************************************************)
EXTENDS LockdepReport

LockInfo(class, primitive, acquire, behavior) ==
    [class |-> class, primitive |-> primitive, acquire |-> acquire, behavior |-> behavior]

A == LockInfo("A", "SpinLock", "lock", "PreemptDisabled")
AIrq == LockInfo("A", "SpinLock", "lock", "LocalIrqDisabled")
B == LockInfo("B", "SpinLock", "lock", "PreemptDisabled")
R == LockInfo("R", "RwLock", "read", "PreemptDisabled")
W == LockInfo("R", "RwLock", "write", "PreemptDisabled")
M == LockInfo("M", "Mutex", "lock", "Sleeping")

Order(from, to) == [context |-> "Task", from |-> from, to |-> to]
MCOrders == {Order(A, B), [Order(A, B) EXCEPT !.context = "BottomHalfL2"], Order(B, A),
             Order(B, W), Order(W, A), Order(B, R), Order(R, A), Order(A, A), Order(A, AIrq), Order(W, B),
             Order(R, R), Order(A, M), Order(M, B)}

Usage(lock, bits) == [lock |-> lock, bits |-> bits]
MCUsages == {Usage(A, {"hardirq", "hardirq_disabled"}), Usage(A, {"hardirq_enabled", "softirq"}),
             Usage(B, {"hardirq_enabled", "softirq_enabled"}),
             Usage(W, {"softirq", "softirq_enabled"}), Usage(AIrq, {"hardirq"})}
=============================================================================
