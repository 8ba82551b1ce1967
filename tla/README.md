# A TLA+ development for the Agent-thon repository

The repository collects the work of ten participants. Many directories hold
documents, patches to a kernel (Asterinas) whose source is not included, or
scripts around external programs. Four programs have an algorithm or a protocol
of their own, and these are what the modules here specify:

- the **virtio-vsock driver and socket backend**, given in full as a patch,
  `liruihan/artifacts/0001-Generated-by-Codex.patch`: concurrent, run by
  application threads and four interrupt tasklesses. Bare line numbers in
  this file are lines of that patch, and `98-plan.md` is the design document in
  `liruihan/artifacts/plans-and-reviews/`;
- **SwiftIndex** (`yuxinyi/artifact/SwiftIndex`), a code index in SQLite, written
  by processes that may overlap, be killed, and race with an editor;
- **lockdep** (`jiangjianfeng/artifacts/lockdep`), a static analyser of locks: a
  dataflow inside a function, fixpoints over a crate, a graph over all crates;
- **RustMap** (`lincan/artifacts/parser`), which draws the graph of the items of
  a workspace: name resolution over several passes.

## 1. Inventory

| Component | State it keeps | Operations | What makes it correct | Here |
|---|---|---|---|---|
| vsock transmit path (`device.rs`: `TxState`, `TxGuard`, `TxPendingGuard`; `try_send`, `send_packet`) | TX virtqueue, in-flight slots, software queue `pending`, `reserved_descs`, per-connection byte budget | `prepare_send`, `submit_prepared`, `cancel_prepared`, `try_send`, `process_tx`, completions | a promised descriptor exists when it is used; budget is conserved; no packet is lost, doubled or stuck | `VsockTxQueue`, `TxChannel` |
| vsock receive ring (`RxState`, `pop_used`) | RX virtqueue, buffer slots | post at `init`, `can_pop`, pop and refill | memory the device can write is owned; every packet is handed on | `VsockRxRing` |
| vsock flow control (`CreditState`, `RxQueue`) | `peer_fwd_cnt`, `tx_cnt`, `local_fwd_cnt`, `last_reported_fwd_cnt`, `credit_request_pending`, `used_bytes`, `read_offset` | send, receive, CREDIT_UPDATE, CREDIT_REQUEST | neither side overruns the other's buffer; a blocked sender goes on | `VsockCredit` |
| vsock connection tables and lifecycle (`space.rs`, `connection.rs`, `listener.rs`) | `connections`, `closing_connections`, `listeners`, the phase, shutdown flags, error and timer of each connection, backlog | connect, accept, shutdown, drop, the packet handlers, timeouts, transport reset | one table per object; connect returns; closed connections are freed with their port | `VsockSpace` |
| vsock ports | `used_ports`, ephemeral counter | bind, share, drop | a port is free exactly when nobody holds it | planned |
| vsock stream socket | init / connecting / listening / connected | the socket calls and poll | no state is lost between states | planned |
| vsock event queue, registration | event buffers, device registry | refill, register | — | effect of a reset event only |
| revised vsock driver (patch 0002) | a second layout of the same queues | the same | the same promise, `TxChannel` | planned |
| SwiftIndex indexer and store | the SQLite tables with their full-text shadows; per process the scan, the stored states it read, a transaction | `build`, `update`, per file: stat, read, extract, delete, insert; git metrics; derived relations | rows and full-text rows agree; a file is indexed whole; an update on its own ends equal to the workspace | `Index*` |
| SwiftIndex queries, ranking | none | pure functions | budget respected | candidate |
| lockdep, one body | in-state of each block: guards, aliases, interrupt state | worklist over MIR with transfer functions and joins | ends; misses no order; follows the guards | `LockdepMir`, `LockdepBody` |
| lockdep, one crate | contexts, summaries of returned and acquired locks, usages | three nested fixpoints | least; every execution is covered | `LockdepContexts`, `LockdepCalls` |
| lockdep, global report | lock graph, usage states | merge, components, cycles, usage rules | a reported cycle can block; none of exclusive locks is missed | `LockdepReport` |
| RustMap parser | nodes, modules, queued supertraits and impl blocks, imports, edges | walk the items; resolve imports, supertraits, blocks, types, calls; build the module trees | a path is linked to the item it names; nothing dangles | `RustMap` |
| RustMap web application | view state | reducer | selection refers to existing nodes | candidate |
| FuzzAsterinas orchestrator | campaigns, workers, VMs | schedule, time out, retry, clean up | no slot leaks, no case runs twice | planned |
| FuzzAsterinas tools, test and verify skills | processes, log files | drive external programs | — | not planned, mostly I/O |
| virtio-9p, virtio-crypto drivers | request tags | submit, complete | a completion meets its request | candidates |
| LTP and bug-fix patches | — | — | about a hundred unrelated changes to code that is not here | not planned |

### How the vsock parts interact

Application threads enter through a `Connection` or `Listener`, one call at a
time for each socket (the socket's write lock). Below them, on any CPU:

- the **RX taskless** pops packets from the ring and calls `process_rx_packet`,
  which changes tables, connections and backlog and may answer;
- the **TX taskless** (`process_tx`) reclaims descriptors, moves software-pending
  packets into the virtqueue and then, without the lock, runs their completions,
  which give back budget, count credit as reported or arm a timer;
- the **timer taskless** takes expiry events and looks the connection up by
  ConnId and generation;
- the **event taskless** empties the tables after a transport reset.

They share the sockets lock, one state lock for each connection and the TX and
RX locks of the device. No two steps of a multi-step operation are under one
lock, so nearly every hard behaviour is an interleaving between those steps:
a decision (Direct or Pending, credit available, header contents, table entry)
is taken under one lock and carried out under another. `Arc`s keep objects
alive; `connect()` relies on its own being the last.

### How the parts of the other programs interact

**SwiftIndex.** A process scans the directory tree, reads what the database has
stored, and then writes all files in one transaction, git metrics in a second
and derived relations in a third. Processes share the database only: SQLite
lets one of them write and makes another wait or fail. Files are shared with
editors and are protected by nothing, so the text, the size and the time
recorded for a file may belong to different moments.

**lockdep.** `collect` analyses every body with the contexts it may be entered
in; the lock summaries of callees feed the bodies of callers, the callsites
feed the contexts, and each crate's artifact feeds the report. Each arrow is a
fixpoint that must end and must not end early.

**RustMap.** The walk only records; each later pass reads the tables of the
passes before it (imports, then supertraits, then blocks, which create the
methods, then the types of fields and signatures and the calls against the enlarged
table).

The hard behaviours that matter most are listed, line by line, in `PROJECT.json`
under "hazards"; smaller ones that no property covers are described at the end
of section 4.

## 2. The modules

| Module | Models | Granularity |
|---|---|---|
| `TxChannel` | what the transmit path promises: an accepted packet is taken by the device at most once, and is never forgotten | abstract |
| `VsockTxQueue` | the transmit path and both kinds of callers | one action per TX-lock section, with the steps between `prepare_send` and `submit_prepared` |
| `MCVsockTxQueue` | its TLC instance | |
| `VsockRxRing` | receive ring and the loop that drains it | one action per popped packet |
| `VsockCredit` | flow control of one established connection with a peer that keeps to the protocol | one action per state-lock or TX-lock section |
| `VsockSpace` | tables, connections, a listener, sockets, the four bottom halves, the peer | one action per lock section, and one for each drop of an `Arc` in between |
| `MCVsockSpace` | its TLC instance: the SHUTDOWN flags a peer uses | |
| `IndexScan` | `scanner/workspace.rs`: which files are indexed, and their qualified prefix | function of the tree |
| `IndexExtract` | `extractor/symbols.rs`: the symbols, chunks, imports and edges of a text | function of the text |
| `IndexStore` | `db/store.rs` and the schema: inserts, cascades, full-text rows, conflicts of names | functions from database to database |
| `IndexDerived` | `indexer/derived.rs`: tests, what they cover, entry points | function of the database |
| `IndexUpdate` | `build.rs`, `update.rs`, `git/stats.rs`: several processes, the write lock, editors, kills | one action per read, stat, statement group or commit |
| `LockdepMir` | `mir.rs`, `place.rs`, `context.rs`: the state at a point and what a statement or call does to it | functions of the state |
| `LockdepBody` | the worklist over one body, then an execution of the body | one action per block taken from the queue |
| `LockdepContexts` | `propagate_contexts` | one action per pair taken from the queue |
| `LockdepCalls` | `collect.rs`, `summary.rs`: the three nested loops over a crate, then an execution down its calls; refines `LockdepContexts` | one action per round of an inner loop |
| `LockdepReport` | `main.rs`: reading artifacts, the graph, Tarjan's algorithm, the rules | one action per edge or usage read, and per step of Tarjan |
| `RustMap` | `extract.rs`, `workspace.rs` | one action per item visited, per impl block, and per later pass |
| `MCIndexUpdate`, `MCLockdep*`, `MCRustMap` | the TLC instances: the workspaces, bodies, crates and edges analysed | |
| `VsockTxQueue_Proofs`, `VsockRxRing_Proofs`, `VsockCredit_Proofs`, `VsockSpace_Proofs`, `IndexUpdate_Proofs`, `LockdepBody_Proofs`, `LockdepCalls_Proofs` | the theorems of section 5 | |
| `FoldInduction` | the rule of the loop invariant for `FoldLeft`, instantiated by the proofs about `VsockSpace`, `LockdepBody`, `LockdepCalls` and `IndexUpdate` | |

`VsockTxQueue` is the detailed form of what `VsockSpace` and `VsockCredit` use
as `Send*` (direct, queued, or failed): a packet handed over either reaches the
peer at once, or waits with its completion until `TxDrain`. That the queue in
between neither loses nor doubles packets is `ExactlyOnce`.

**Correspondence of state.** In `VsockTxQueue`, `hw` and `used` together are the
virtqueue (not yet consumed, and consumed but not reclaimed); `pc[c]` is the
place of the sending thread inside `Connection::try_send`, `held[c]` its
unspent reservation of bytes. In `VsockSpace` an object of `Obj` stands for one
`Arc<ConnectionInner>`; `pc[s]` is where the system call of socket `s` is,
`plan[s]` the `LocalShutdownAction` or `DropAction` it has computed; `rx`,
`timer`, `event` and `drained` hold the `Arc`s the bottom halves and
`shutdown_listener` have taken out of the tables. `Freed(o)` holds when nothing
refers to `o`; its `BoundPort` goes with it. In `VsockCredit`, `sent` and
`peer.read` count bytes without wrapping; the code's own counters are `credit`.

**Abstractions.** A payload is its length; in `VsockSpace`, the receive queue is
a number of packets. A packet's header is the part the receiver acts on. In
`VsockCredit` the header's `fwd_cnt` is taken when the packet is sent: for the
application's packets it was built a step earlier, but only the same thread
advances `local_fwd_cnt`, so the value is the same; the reply to CREDIT_REQUEST
is built by another thread, and there the two steps are apart. Packets with a malformed
header, `poll`, a changed backlog and CREDIT packets on connections being set
up are left out of `VsockSpace`. Definitions named as mutants are not part of
the model: each is a form of the definition below it that a plausible slip in
the code would produce, and shows that a property notices.

**The other programs.** Their texts are data, reduced to what the algorithms
read. In `IndexExtract` a file is the sequence of its items; names are model
values, and a comparison of path endings compares segments. In `LockdepMir` a
place is a local with its projections, and a lock class is its root and path;
`LockdepCalls` keeps bodies without branches (merges belong to `LockdepBody`)
and callbacks one level deep: no callable is passed to a callable. In `RustMap` a path is the sequence of its
segments and a body the sequence of its call expressions. Row ids of SQLite,
cascades and the write lock follow SQLite's documentation and are marked as
external. In `LockdepBody`, `LockdepCalls` and `RustMap` the analysis is
deterministic and the variety is in the initial states; the reference it is
compared with (an execution of the body or the crate, the naming rules of Rust
in `Plain`) is written without the analyser's tables of states.

## 3. The runs

The vsock runs, `Index` and `LockdepBody` set CHECK_DEADLOCK FALSE: the
environment is bounded (`MaxSeq`, `MaxPackets`, `MaxSent`, `MaxReceived`,
`MaxResets`, `MaxEdits`, `MaxRuns`) and the system is allowed to become idle,
or the walk of a body to return. The other runs stutter when they have ended
and check deadlock; in `LockdepCalls` this makes a loop that needs more than
`MaxRounds` rounds an error.

| Run | Bounds | Shows |
|---|---|---|
| `Tx` | 2 connections, 2 descriptors, budget 2, lengths 1–2, 2 packets per connection, building may fail; 362k states | `DescriptorBudget`, `ReservedIsHeld`, `BudgetConserved`, `ExactlyOnce`, `PendingDrainsWhileBusy` |
| `TxLost` | 1 descriptor | expected violation of `AcceptedIsTransmitted` |
| `RxRing` | 3 descriptors, 5 packets, short packets, failing allocations; 1.4k states | `LiveBuffers`, `EveryPacketDelivered` |
| `CreditReceive` | buffer and threshold 2 and 1, 3 bytes from the peer in packets of 1 and 2, reads of part of a packet, failing copies, CREDIT_REQUESTs, congestion; 2.7M states | `ResetOnlyMidPacket` |
| `CreditSend` | 4 bytes sent into a buffer of 2, failing sends, congestion; 187k states | `SendsWithinCredit`, `SenderResumes` |
| `SpaceConnect` | 1 connecting socket, 1 object, 2 packets from the peer, 2 in the ring, 1 transport reset, failing and queued sends; 252k states | `ConnectWillEnd`, `ConnectReturns` |
| `SpaceRelease` | a listener with backlog 1, an accepting socket, 2 objects, 4 packets, the peer reuses its port, RESPONSE and RST may fail; 466k states | `InOneTable`, `NeverRelisted`, `OrphanWillClose`, `ReleasedIsFreed` |
| `Index` | 2 processes, 2 files with the same qualified prefix, 2 edits (change, vanish, return, unreadable), 3 runs of `build` or `update`, kills, failing git, the lock not given in time; 815k states | `FtsMirrorsRows`, `BundleComplete`, `MaskedOnlyByRace`, `QuietRunConverges` |
| `LockdepBody` | bodies of 5 blocks, diamonds of 6 and a switch with two edges to one block, over a plain and an interrupt-disabling lock, in a task and in a bottom half; 46k states | `IrqFollowsGuards`, `HeldOnEveryPath`, `NoMissedOrder`, `OnlyLosesFacts` |
| `LockdepCalls` | 159 crates of 3 functions: direct, recursive and callback calls, callbacks of another crate, guards returned by helpers, registered handlers with and without the interrupt guard; 6.5k states | `EveryContextAnalysed`, `EveryOrderReported`, `EveryUsageReported`, `LeastClosure`, `PropagateSpec` |
| `LockdepReport` | up to 4 orders and usages in every order, over 4 locks and an ignored function; 222k states | `SccsAreMutualReach`, `CyclesAreReal`, `ExclusiveCyclesReported`, `SingleLockIsExact`, `DependenciesReported` |
| `RustMap` | 4,864 workspaces in three families (paths, methods, layouts); 120k states | `PlainTypesLinked`, `PlainCallsLinked`, `MethodCallsFindOwner`, `EveryNodeInOneView` |

**Why the bounds are enough for the cases.** Two senders and one or two
descriptors give every way in which one sender's step falls between
`prepare_send` and `submit_prepared` of the other; a budget of 2 with lengths 1
and 2 gives full, partial and empty reservations. Two objects under one ConnId
are the smallest number with an active and a closing connection that a lookup by ConnId
can confuse; four packets let the peer open, close, reopen and close.
`SpaceRelease` has no transport reset (`SpaceConnect` has); with one reset, three
packets and SHUTDOWNs of both directions its properties hold too, in 0.9M
states, which takes too long to keep as a run. In the
credit runs the buffer is smaller than what is sent, so each side runs out of
credit at least once. `W` (the number of counter values, 2^32 in the code) is
larger than what is sent: wrapping is out of these runs (section 4).

Two processes with three runs between them let one overtake the other twice:
an update that has read the stored states, a second that replaces the rows,
and a third that must repair what they left. Two files that collide in their
qualified prefix are the smallest case of the suffixed names. Five blocks hold
every branch, merge and loop over two locks that one merge can confuse; six
give a merge whose two sides differ. Three functions are a caller, a callee and
what the callee calls, with recursion through any of them, and four orders the
shortest two cycles in one component. In `RustMap` the same three names are
declared in up to three modules of two crates, and every form of path is
written in every module.

**Type invariants.** Every specification with variables has a `TypeOK`. `RxRing`
and `RustMap` check theirs because it says more than types (a token is in one
place; the graph is closed). Those of the transmit path and of `IndexUpdate` are
proved (section 5).
The others hold under the constants of the runs too, and can be added to any
cfg, but are left out of the runs, whose other invariants read every variable
the types speak of.

**What the properties say**

- `DescriptorBudget`: used, in-flight and promised descriptors fit the
  virtqueue. It is why no `expect("... must be reserved")` can fail.
- `ReservedIsHeld`: `reserved_descs` counts exactly the senders that will still
  submit or cancel.
- `BudgetConserved`: available + reserved + queued + completing = budget.
- `ExactlyOnce`: refinement of `TxChannel`.
- `PendingDrainsWhileBusy`: while the device owns a descriptor, a waiting packet
  gets out. It makes an exception for a reservation that may be cancelled,
  because `cancel_prepared` (15427) does not drain the software queue.
- `LiveBuffers`: descriptors with the device, or used and not popped, have a
  buffer in the driver's slots.
- `EveryPacketDelivered`: until the ring has lost a descriptor.
- `SendsWithinCredit`: what is sent and not read fits the peer's buffer, although the check,
  the submission and the counting are three critical sections with credit
  updates in between.
- `ResetOnlyMidPacket`: `used_bytes` exceeds the buffer only by bytes already
  read of the packet in front, whose credit was given back before their space;
  so a reader of whole packets never lets an honest peer be reset. A copy that
  fails halfway leaves `read_offset` to the next packet, and from then on nothing
  is claimed (`stray`).
- `SenderResumes`: without it both sides would wait for each other for ever.
- `ConnectWillEnd`, `ConnectReturns`: as an invariant (something is armed, queued
  or held that ends the wait) and as liveness; both of a socket's first attempt.
- `InOneTable`, `NeverRelisted`: removals by ConnId neither duplicate an object
  nor bring one back.
- `OrphanWillClose`, `ReleasedIsFreed`: the same pair for closing, the first about
  the connections that the listener made.
- `FtsMirrorsRows`: through cascades, reused row ids and rolled-back
  transactions the full-text rows are those of the tables.
- `BundleComplete`: an indexed file has every symbol of one text once, with its
  chunk, parent and edges, whatever else has the same qualified name.
- `MaskedOnlyByRace`: a stored size and time equal to those of a changed file
  come only from an edit between the read of the text and the stat after it, or
  from an update that touches by id a row another process has put in the place
  of the one it had read.
- `QuietRunConverges`: a run that nothing overlaps leaves the index equal to the
  workspace, whatever came before. It is why `update` needs no repair command.
- `OnlyLosesFacts`: a block's state only shrinks, so the worklist ends.
- `HeldOnEveryPath`, `NoMissedOrder`: nothing is reported held that a path
  does not hold (at merges that move no guard); and on a path without a merge
  nothing held is forgotten.
- `EveryContextAnalysed`, `EveryOrderReported`, `EveryUsageReported`: the three
  fixpoints cover an execution of the crate: contexts, orders across calls,
  interrupt usages.
- `PropagateSpec`, `LeastClosure`: the outer loop refines `LockdepContexts`, and
  each inner propagation ends at the least closed set.
- `SccsAreMutualReach`: Tarjan's components, with their explicit stack and low
  links, are the classes of mutual reachability.
- `CyclesAreReal`, `ExclusiveCyclesReported`: a reported cycle can deadlock; every
  component with a cycle of exclusive locks gives one.
- `SingleLockIsExact`, `DependenciesReported`: the interrupt rules hold of
  exactly what was read, in whatever order.
- `PlainTypesLinked`, `PlainCallsLinked`: a path that needs neither a re-export
  nor a glob is linked to the item it names, and to no namesake.
- `MethodCallsFindOwner`: a method call ends at the receiver's type or nowhere.
- `EveryNodeInOneView`: each node is listed by one module, and shown.

**Fairness.** `FairSpec` assumes what the kernel guarantees: a scheduled
taskless runs, a system call under way takes its next step (no lock is held
for ever; the locks are not modelled as waiting), the jiffies timer fires, and
the device consumes its queue. In `VsockCredit` also that a notified
`block_on` tries again, that the application reads what has arrived and that
the peer reads and takes what was sent. Weak fairness is enough: none of these
steps can be disabled for good by another before it runs. Nobody is obliged to
begin a call, and no peer to send, answer or close. The other programs are
checked for safety only: a run of theirs is one process doing one thing after
another, and that their loops end is shown by `OnlyLosesFacts`, by the deadlock
check of `LockdepCalls`, and by the finite queues of `LockdepReport` and `RustMap`.

## 4. Where the code and its documents disagree

`TxLost` is a run that TLC ends with a counterexample, and a "finding" with the
quoted text (15456). Two threads: A is told Pending. Before it submits, the
last completion arrives and `process_tx` empties the queue. A then appends to
the software queue; the hardware is idle, so no interrupt will come. The
packet waits until some other send completes.

**Promises not kept.** These are stated in the modules too, and not checked by a
run, because the code breaks them. TLC shows it from the cfg named, with the
property in place of those listed there and the constants given.

| Property | Module | cfg and changed constants | What the document says, and the code does |
|---|---|---|---|
| `FailedConnectIsUnique` | `VsockSpace` | `SpaceConnect` | 98-plan.md: a failed connect owns the only `Arc`. The result is published before the bottom half drops its own (18254), and `into_inner().expect(..)` may come in between |
| `EstablishedIsRoutable` | `VsockSpace` | `SpaceRelease`, `Passive = {p1, p2}`, `MaxPackets = 3`, `CanFail = {}` | 98-plan.md: an established connection stays in the table. A failed insertion is undone by ConnId (17712), which removes the connection that was there first |
| `DrainedIsFreed` | `VsockSpace` | `SpaceRelease`, `Obj = {o1}`, `MaxPackets = 2`, `CanFail = {}` | 98-plan.md: a dropped listener leaves nothing unreachable. A backlog connection that the peer has shut down is in `closing_connections`, where the drop (17588) does not look |
| `LiveBuffers` | `VsockRxRing` | `RxRing`, `DebugAssertions = FALSE` | `put_at` sits inside `debug_assert!` (15535); in a release build the replacement buffer is dropped while the device owns it |
| `HonestPeerNotReset` | `VsockCredit` | `CreditReceive` | partial reads return credit at once and space only at the end of the packet (16675, 16613); a peer that trusts the credit is reset |
| `JoinIsSymmetric` | `LockdepBody` | `LockdepBody` | interrupts.md:276: the interrupt state of a join does not depend on the order of the predecessors. The first state to reach a merge is computed from the entry states of the predecessors (`mir.rs:72`), not from their exits |
| `SelfLockReported` | `LockdepReport` | `LockdepReport`, `MaxReads = 2` | summary.md:72: `self_lock` is a repeated acquisition of the same lock class. Locks are compared with mode and guard behaviour (`main.rs:831`), so two modes of one class are no self lock |
| `NoOrphanEdges` | `IndexUpdate` | `Index` | store.rs:81: a file's bundle is deleted. Import edges have neither end set and no file, so they stay (`store.rs:284`) and pile up with every update |

Seen while modelling, expressible with these modules, and not runs of their
own:

- The models include that a send with a free descriptor overtakes the software
  queue (15465): SHUTDOWN can reach the peer before payload accepted earlier.
- `prepare_local_shutdown` (16896) overwrites phase `Reset` (`LocallyShut`).
- With a second object for the same ConnId, a late RST of an earlier attempt
  starts a new connect whose timer the older packet disturbs (16550); then
  `ConnectReturns` fails. A late RESPONSE of an earlier attempt lets the peer's
  SHUTDOWN meet the new connection while it is `Connecting` and move it to the
  closing ones, without a result for connect(). Hence `FirstAttempt`, the premise
  of `ConnectWillEnd`; `SpaceConnect` has one object, so that it always holds there.
- With two closing connections under one ConnId and a queued SHUTDOWN
  (17565), or with a SHUTDOWN that cannot be sent (16266), no close timeout is
  armed: `OrphanWillClose` fails. `SpaceRelease` excludes congestion, and of the
  sends lets only RESPONSE and RST fail. It is stated of the connections that the
  listener made: a connecting socket's can be moved to the closing ones by packets
  of an earlier attempt (above), and a failed connect() then removes only what is
  in the active table, so that the object stays there without a timer.
- A reply to CREDIT_REQUEST can carry an older `fwd_cnt` than an update sent
  before it (17861), and `mark_credit_reported` (16755) records a value no header may
  have carried; a peer without credit may then stay without.
- `local_fwd_cnt` saturates at `u32::MAX` (16675): after 4 GiB no read gives
  credit back.
- lockdep: a guard moved into an aggregate or a call stays with its source
  local (`place.rs:100`); a helper that may return one of two guards acquires
  nothing (`mir.rs:256`); a callback passed on through a callback is lost
  (`summary.rs:118`). Recursion that adds a projection to an argument at every
  turn makes the summaries grow without end (`summary.rs:277`), and a local
  assigned two callables makes the map of callables flip for ever
  (`place.rs:457`). Only one cycle of a component is looked at, and dropped if
  it passes a read-mode lock, although another of the component may block
  (`main.rs:869`). Locks of equal path in two crates are one node, which
  plan.md:392 excludes.
- SwiftIndex: an edit between the read of a file and its stat is recorded with
  the new time and is not seen by later updates (`build.rs:121`); the model has
  this race and `MaskedOnlyByRace` says it is one of only two. A package
  renamed in Cargo.toml leaves unchanged files with the old names
  (`update.rs:121`). Git paths are relative to the repository, not to the
  workspace (`stats.rs:93`). A workspace below a directory named `target` or
  `vendor` has no files (`workspace.rs:163`).
- RustMap: web/README.md:110 says that unresolved call targets are warnings.
  Constructor-like paths, methods of parameters, and paths that resolve to
  something that is not callable give neither edge nor warning. A bare name
  that nothing defines is linked to the only id of the workspace that ends in it
  (`extract.rs:1995`). `Self::f()` is never resolved, and a self call in a trait
  impl prefers the trait's method where Rust prefers the inherent one
  (`extract.rs:1411`). Hyphenated package names never match a path
  (`extract.rs:1983`). Two items of one id, as in lib.rs and main.rs, leave the
  later one; two methods of one id leave the earlier one. A build script at the
  package root makes the root a source root, so that a package's `tests/` become
  modules of it. `add_contain_edges` leaves an item that has no signature of its
  own after its fields (`extract.rs:1095`), and a trait has none: the types in
  the signatures a trait declares are resolved, but the `trait_param` and
  `trait_return` edges of `extract.rs:1124` are never drawn.

## 5. What is proved

All proofs are checked by TLAPS, for every value of the constants that meets
the named assumptions.

| Module | Theorem | Statement | Assumptions |
|---|---|---|---|
| `VsockTxQueue_Proofs` | `TypeCorrect`, `DescriptorsNeverOvercommitted`, `ReservationsAreExact` | `Spec => []TypeOK`, `[]DescriptorBudget`, `[]ReservedIsHeld` | `TxAssumption`: finitely many connections, at least one descriptor |
| | `ImplementsChannel` | `Spec => ExactlyOnce`, the refinement of `TxChannel` | the same |
| | `BudgetIsConserved` | `Spec => []BudgetConserved` | the same |
| `VsockRxRing_Proofs` | `RingTypeCorrect`, `BuffersStayLive` | `Spec => []TypeOK`, `[]LiveBuffers` | `RingAssumption`; for the second `DebugAssertions` |
| `VsockCredit_Proofs` | `SenderKeepsToCredit` | `Spec => []SendsWithinCredit` | `CreditAssumption`, `MaxSent < W`: fewer bytes than a u32 counts |
| | `PeerIsResetOnlyMidPacket` | `Spec => ResetOnlyMidPacket` | `CreditAssumption`, `MaxReceived < W` |
| `VsockSpace_Proofs` | `TablesMatchKeys`, `TabledOnlyOnce`, `NothingIsRelisted` | `Spec => []Placed`, `[]InOneTable`, `NeverRelisted` | `SpaceAssumption` |
| | `ConnectAlwaysEnds` | `Spec => []ConnectWillEnd` | the same |
| | `OrphansAreTimed` | `Spec => []OrphanWillClose` | the same, `~Congested` and `"shutdown" \notin CanFail`: every SHUTDOWN enters the virtqueue at once |
| `IndexUpdate_Proofs` | `FullTextMirrorsRows`, `OnlyRacesMask`, `TypeCorrect` | `Spec => []FtsMirrorsRows`, `[]MaskedOnlyByRace`, `[]TypeOK` | `ConstantsAssumption`, `SourceAssumption`: a text is a list of items, the calls and the test hints of an item are lists |
| | `NamesStayUnique` | `Spec => []NamesDiffer(db.symbols)` | the same |
| `LockdepBody_Proofs` | `FlagsFollowGuards`, `SolverLosesFacts` | `Spec => []IrqFollowsGuards`, `Spec => OnlyLosesFacts` | `BodiesAssumption`: a body is a non-empty list of blocks, whose successors are blocks of it and whose statements have one of the operations |
| | `SolverEndsWithSolution`, `ExecutionsAreAnalysed` | `Spec => []Solved`, `[]WalkInv` | the same |
| | `NoOrderIsMissed` | `Spec => []NoMissedOrder` | the same |
| `LockdepCalls_Proofs` | `PropagationIsLeast` | `PropagateSpec => []LeastClosure` | none |
| | `AnalysisImplementsPropagation`, `ContextsAreLeast` | `Spec => PropagateSpec`, the refinement of `LockdepContexts`; `Spec => []LeastClosure` | none |
| | `AnalysisEndsAtFixpoint` | `Spec => []ArtifactIsCurrent` | none |
| | `ContextsOfExecutions` | `Spec => []EveryContextAnalysed` | `CratesAssumption`: finitely many functions, whose bodies are lists of blocks with the statements and operands the code tells apart; and `CallbacksPassedDirectly` |
| | `OrdersOfExecutions` | `Spec => []EveryOrderReported` | the same |
| | `UsesOfExecutions` | `Spec => []EveryUsageReported` | the same, and `GuardsOnlyRegistered` |

The hypothesis of both theorems on flow control is that the connection carries
fewer bytes than a u32 counts (section 4 says what happens above). Those of
`OrphansAreTimed` are those of its run: after a SHUTDOWN that was not sent, or
waits in software, the timeout can be lost (section 4); RESPONSE and RST may fail. Two hypotheses about crates say where lockdep itself gives up:
`CallbacksPassedDirectly`, that a call through a callable passes no callable on
(`summary.rs:118` drops it), and `GuardsOnlyRegistered`, that a function given
the interrupt guard is registered and not called, or passed to a call, by the
crate (a callsite's usages take the caller's interrupt state and know nothing of
the guard). `MCLockdepCalls` assumes both of its crates, so that TLC evaluates
them. The other assumptions are the types of the constants.

**Transmit path.** `IInv` is `TypeOK /\ DescriptorBudget /\ ReservedIsHeld`.
The budget alone is not inductive: `submit_prepared` puts a packet into the
virtqueue and lowers `reserved`, and only `ReservedIsHeld` says that `reserved`
was positive. The lemmas `HolderJoins`, `HolderLeaves` and `HoldersSame` say
what a sender's step does to the set that `reserved` counts; there is one lemma
per operation, and `process_tx` rests on what `FreeDescs` means.

`ImplementsChannel` maps each step to a step of `TxChannel` or a stutter. It
needs `OnceInv`: the software queue, the virtqueue and what the device has taken
share no packet and none holds one twice, every packet has a number already
given out, and a sender that has passed `prepare_send` still has a number to
give. `BudgetIsConserved` needs besides that bytes are held by a connection
only while one of its sends is under way (`HeldOnlyInSend`); the sum over the
queues is `BytesIn`, and the lemmas on `IsSum` say what an append, a removal
and a concatenation do to it.

**Receive ring.** `TypeOK` already carries the hard part: a token is in the used
ring once and not with the device at the same time, so popping it cannot take
away the buffer of another. `LiveBuffers` then needs only `DebugAssertions`.

**Flow control.** For the sender, `IInv` adds to the types: every `fwd_cnt`
known to the guest or on its way is at most what the peer has read
(`CreditIsOld`); `tx_cnt` equals what was handed over, but for the packet just
submitted (`TxIsSent`); and a packet about to be submitted still fits
(`SubmitFits`), because reading only makes room. `MaxSent < W` is needed: at
the top `tx_cnt` saturates and `TxIsSent` fails.

For the receiver, `RInv` says that the queued packets and the one being copied
are accounted for in `used_bytes` and that `read_offset` lies in the packet in
front (`QueueFits`), that what is queued, given back and still on its way was
sent by the peer, but for the bytes read of that packet, which count twice
(`BytesFromPeer`), and that no header promises credit that was not given back,
whether it is in a variable of a thread, in the software queue or on the wire
(`PromisesKept`). The offset is therefore all a reset can be over by. A copy
that fails at an offset leaves it to a packet that may be shorter, and then
`BytesFromPeer` is lost for good: `StrayInv` is `RInv` up to that moment.

**Tables.** `IInv` of `VsockSpace_Proofs`: an entry is an allocated connection
of its key (`Placed`), nothing is twice under one ConnId (`Once`), and what the
RX taskless is about to insert is in no table yet (`InsertIsNew`), although it
was created under an earlier lock section. No property of a single step is
enough, because removals look up by ConnId and by object. The proof goes
through four shapes: what a step does to the tables is to shrink them
(`Shrinks`), to move an active connection to the closing ones (`Moves`), to
insert one that is new (`Inserts`), or nothing; there is one lemma for each
action that gives its shape, and one for each shape that it keeps `IInv`.

**connect().** `ConnectWillEnd` is about a socket in `connecting`; its invariant
is about it from the moment the object is in the table. `ConnectInv` adds to
`IInv` whose connections are held: a socket that connects owns one of its ConnId,
the backlog and the RX taskless hold accepted ones only (`WorkInv`), so that no
other socket's removal by ConnId meets this connection. `PeerInv` says that the
peer has nothing under way for a ConnId no connection was made for yet, which is
what `FirstAttempt` gives at the insertion. From there `WaitInv`: the connection
is `Connecting`; it is in the table or a bottom half has taken it and has yet to
reset it (`Taken`); in front of every SHUTDOWN in the RX virtqueue is an answer
(`Answered`), so a SHUTDOWN never meets a connection that waits; and after
REQUEST was sent the timer, its expiry or the arming completion is there
(`EndComes`). The expiry and the completion find it by ConnId, since it is still
in the table. What `process_tx` does to the peer's end is a fold (`Draining`).

**Closing.** `OrphanWillClose` sees a connection when nobody has it any more; its
invariant `CloseInv` follows one that the listener made from its insertion on. Two
parts carry it, split by whether both directions are shut from this side (`Full`).
As long as they are not, somebody has the connection: the backlog or what was
drained of it, the RX taskless, or a socket that is not about to let it go
(`HalfInv`). From then on a socket is removing it, or it is closing and its timer is
armed, its expiry queued or looked up, or a socket is about to arm it (`FullInv`).
The second step of a drop relies on the first one's plan, made under an earlier
lock: `DropsInv` says that a connection a drop leaves in the tables is shut in both
directions. The expiry finds the connection, in whichever table, because its
generation is no other's (`Timed`). `ListedInv` and `PendingInv` say that what is
in the backlog or on its way there has no other owner, so that no socket's call
falls between; `TakenInv`, that a bottom half resets only what is in no table any
more. `Unasked` is what the hypotheses give: no completion is waited for.

**Index.** `DbOk` is what each operation of the store keeps: ids are given once
and are bounded, rows of symbols and chunks belong to a file row, names differ,
and the full-text tables mirror the tables (`Mirrors`). SQLite knows nothing of
the last: a deleted id is given again, so a full-text row left behind would be
found under another row. `IInv` says `DbOk` of the committed tables and of the
open transaction, whichever process owns it. `NamesStayUnique` rests on
`StoredIsNew`: among one more candidate than there are symbols, one is free.
`JInv` adds, for `OnlyRacesMask`, what the processes know: the text a process
has read is that of the time it has seen, as long as the file still has that
time (`MeTrue`), and the same of every row unless a race was observed
(`RowTrue`).

**One body.** `Good` says of a state that its flags are those its base context
and its guards imply; the transfer functions and the join keep it, and a
statement list, a join of many states and the visit of all successors are
loops, proved with `FoldInduction`. `Settled` says of a block with a state that
its successors have one, and that theirs says at most what leaves the block.
`IInv` has it for the blocks that are not queued, so that it holds of all when
the worklist is empty. `Exact` names the edges this is true of: where a merge
has a predecessor that is not `Quiet`, the code computes the joined state from
the predecessors' entries (section 4, `JoinIsSymmetric`).

`NoOrderIsMissed` needs more than a bound, it needs equality: a state that says
less may name another lock. A `Chain` is a set of blocks that are reached from
the entry by one edge each; while the worklist runs, a block of a chain with a
state has exactly what leaves its predecessor, since a second visit brings an
equal state and a join of equal states changes nothing (`ChainInv`). So an
execution that has come through no merge is in the state of its block
(`PathInv`), and `ReportInv` says that the facts hold the orders of each block
reported so far. An execution counts edges, not predecessors: two edges of a
switch to one block are a merge (`Into`), as `predecessors()` lists the block twice.

**Contexts.** `LeastClosure` speaks of the moment when the queue is empty. The
inductive invariant says before that: whatever was found and is not queued has
had its callees visited, and every closed set that holds the seeds holds what
was found. It is preserved by taking a pair from the queue and by the next
round.

**One crate.** That `LockdepCalls` implements this specification needs `Idle`:
the queue is empty in every phase but the first, so that the outer loop never
starts `propagate_contexts` again while it runs. `LeastClosure` is carried over
to the analysis of every crate. `ArtifactIsCurrent` says of the state with the
artifact that contexts, analyses, returned locks and summaries each follow from
the present value of the others. It is why the order of the loops is right: the
analyses made for an earlier set of contexts, or for fewer returned locks, are
never what is written. `FixpointInv` adds, phase by phase, what already stands.
The equations are the ones of the loops' exits; what has to be shown is that no
later step changes a side of one of them. That the loops' functions are
monotone, so that the fixpoint is a least one, is not proved.

**An execution of a crate.** The three properties about executions rest on it.
`StackInv` follows the frames: each is `Tracked`, that is, entered in a context
its function is analysed in, in the state that the reporting pass (`IsRun`, the
trace of a fold) has before the same block, with callables that
`CallableArgCallees` finds; and each two neighbours are `Entered`, the upper one
what `Pushed` makes of the lower. A call keeps this because the callsite of the
block is in the analysis (`SiteOfCall`), its context is among the seeds of the
round, and the least set behind `CallableArgCallees` follows what a caller
passes on (`CallablesPassedOn`). `EveryContextAnalysed` is a part of it.

For the orders, `FrameAcquires` says that a block that acquires a lock reports
it. The lock then goes down the frames that hold nothing, from summary to
summary (`SummarisedAbove`): a round over the summaries that changes nothing
adds nothing (`RoundAddsNothing`), so what a site finds of its callees is in the
summary of its function. On the way the lock is renamed from argument to
argument, and it stays the same lock by its address: `AddressThrough` compares
what the callee's class names in the callee's frame with what the renamed class
names in the caller's, and rests on `SplicedReads`, that the splicing of two
projections reads the same fields although one of two `Deref` is dropped. The
typing of all this (`Good`, `IsLock`, `FactsNamed`, `SummaryInv`) goes through
every transfer function.

For the uses, the frames that hold nothing must have the interrupt state of the
frame below. `IrqPassedOn` shows it context by context: turned into a context and
back (`CurrentContext`, `FromContext`), an interrupt state keeps what a usage
tells apart. A frame that holds no lock may still be given the interrupt guard,
which is why `GuardsOnlyRegistered` is needed; `CalledPlain` carries it through
calls and callbacks. `UsagesReport` follows the two nested folds of `Usages`.

**Loops and sums.** The library's induction theorems take an operator as a
parameter and cannot be used, so nothing here is proved by induction over data
with them. A loop that carries a state through a list is `FoldLeft`;
`FoldInduction` is a module with the step and the loop's invariant as constant
operators, and its theorem `FoldLeftKeeps` is proved from the least number at
which the invariant would fail; `FoldLeftTrace` gives the states that the loop
goes through, where two of them have to be compared. Each use is an INSTANCE. Sums (`BytesIn`,
`SumsTo`) and filters (`Without`) are recursive functions, and their lemmas use
the same least counterexample.

**Only model-checked.**

- Liveness (`PendingDrainsWhileBusy`, `EveryPacketDelivered`, `SenderResumes`,
  `ConnectReturns`, `ReleasedIsFreed`) is out of this prover's reach, with ENABLED.
- `BundleComplete`: only its part about names is proved. The rest relates the
  rows of a file to the extraction of its text, whose resolution of targets
  would have to be typed first. `QuietRunConverges` follows one process through
  a whole run that nothing overlaps; not attempted.
- `HeldOnEveryPath` cannot be had from `Settled` for every body: the transfer
  functions are not monotone. Where a join has forgotten the alias or origin of
  a local, `ResolveAlias` and `RootKey` fall back to the local itself, and a
  state that says less then names another lock. It holds of the bodies of the
  run.
- `LockdepReport` and `RustMap` walk graphs and nested syntax with recursive
  operators, which the prover does not support.

## 6. Plan

1. `VsockPorts`: `bind_port`, `get_ephemeral_port`, `share_port` and the drop of
   `BoundPort`; promise: a port is used exactly while somebody holds it.
2. `VsockStream`: the socket's states over an abstract backend, with connect,
   accept, listen, shutdown and poll from several threads.
3. The queues of patch 0002 as a second implementation of `TxChannel`.
4. The FuzzAsterinas scheduler; SwiftIndex queries; the reducer of RustMap's web
   application.
5. Proofs: the rest of `BundleComplete`, from types of
   what `IndexExtract` returns; `QuietRunConverges` from an invariant about the
   run that is alone; `OrphanWillClose` with a queued SHUTDOWN, for one
   connection per ConnId.

Not planned: pure I/O and drivers of external programs, the LTP patches (their
code base is not here), generated and vendored data.

## 7. Not modelled

- vsock ports, the stream socket, the event queue and registration, and the
  revised driver: planned above.
- SwiftIndex: creating the schema, printing, queries and ranking (pure functions
  of the tables, without state of their own). `LoadDerived` reads the index in one
  step where `derived.rs:34` uses five statements; a commit of another command
  between two of them can give derived relations of two versions of the index,
  or rows the foreign keys refuse. That run is not one that ran alone, and no
  other property is about derived relations.
- lockdep: the cargo driver, configuration, printing and dot output; how the
  types and methods of the kernel are recognised (data of the bodies here).
- RustMap: spans, printed types, visibilities and the order of the output; `let`
  bindings, which the parser ignores too, so that a local that shadows a parameter
  is taken for it; that an item declared twice in a module is listed twice by it;
  the web application.
- FuzzAsterinas, the test and verify skills: mostly drivers of external programs.
- virtio-9p, virtio-crypto, LTP patches: changes to code that is not here.
