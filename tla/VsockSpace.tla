------------------------------ MODULE VsockSpace ------------------------------
(***************************************************************************)
(* The vsock backend: VsockSpace's connection tables, the life of a        *)
(* ConnectionInner (connection.rs), one listener and its backlog           *)
(* (listener.rs), the sockets that own connections, and the four bottom    *)
(* halves that act on them (RX, timer, event and TX tasklesses), each on   *)
(* its own CPU.                                                            *)
(*                                                                         *)
(* One action is one critical section (sockets lock, connection state      *)
(* lock, or the TX lock inside send_packet), or one step that drops an Arc *)
(* between two of them.  A connection object is the target of the Arcs; it *)
(* is freed, with its BoundPort, when nothing refers to it any more.       *)
(***************************************************************************)
EXTENDS Naturals, SequencesExt, FiniteSets

CONSTANTS
    Obj,             \* connection objects, each allocated at most once
    Active,          \* sockets that connect; each is also the ConnId it connects from
    Passive,         \* sockets that accept() returns
    PassiveKey,      \* ConnIds a peer may connect from, all to the one listener
    None,            \* no object
    MaxBacklog,      \* the backlog given to listen()
    MaxRx,           \* packets the receive queue of a connection holds
    PeerFlags,       \* flag sets a peer's SHUTDOWN may carry
    MaxPackets,      \* bound: packets the peer sends
    MaxInbound,      \* bound: packets waiting in the RX virtqueue
    MaxResets,       \* bound: transport resets
    CanFail,         \* packets for which send_packet may fail (no memory for the packet)
    Congested,       \* whether send_packet may queue in software pending
    PeerReuses       \* whether a peer reconnects from a port it has shut down

Sock == Active \cup Passive
Key == Active \cup PassiveKey
Both == {"read", "write"}

ASSUME SpaceAssumption ==
    /\ None \notin Obj
    /\ Active \cap Passive = {} /\ Active \cap PassiveKey = {}
    /\ {MaxBacklog, MaxRx, MaxInbound, MaxPackets, MaxResets} \subseteq Nat
    /\ PeerFlags \subseteq SUBSET Both
    /\ CanFail \subseteq {"request", "response", "shutdown", "rst"}
    /\ {Congested, PeerReuses} \subseteq BOOLEAN

VARIABLES
    conn,            \* ConnectionInner of each object
    connections,     \* SocketTable::connections
    closing,         \* SocketTable::closing_connections
    listening,       \* the listener is in SocketTable::listeners
    backlog,         \* ListenerInner::incoming_conns
    drained,         \* drained_connections of shutdown_listener: the objects, the one reset
    own,             \* the connection a socket owns
    pc,              \* the step a socket's system call takes next
    plan,            \* LocalShutdownAction or DropAction of that call
    rx,              \* the RX taskless: step, key, object held, RST to follow
    timer,           \* the timer taskless: step, event, object held, RST to follow
    timerEvents,     \* Component::pending_timer_events
    event,           \* the event taskless: objects it took, the one being reset
    txPending,       \* control packets in the driver's software queue
    txDone,          \* completions the TX taskless has still to run
    generation,      \* next_timer_generation
    inbound,         \* packets in the RX virtqueue
    peer,            \* the peer's end of each ConnId
    budget           \* packets and resets the environment may still produce

tables == <<connections, closing>>
listenerVars == <<listening, backlog, drained>>
sockVars == <<own, pc, plan>>
timerVars == <<timer, timerEvents>>
txVars == <<txPending, txDone, peer>>
envVars == <<inbound, budget>>
vars == <<conn, tables, listenerVars, sockVars, rx, timerVars, event, txVars,
          generation, envVars>>

Members(s) == {s[i] : i \in DOMAIN s}
\* retain(|candidate| !Arc::ptr_eq(candidate, connection)).
Without(s, x) ==
    LET kept[i \in 0..Len(s)] ==
            IF i = 0 THEN <<>>
            ELSE IF s[i] = x THEN kept[i - 1] ELSE Append(kept[i - 1], s[i])
    IN kept[Len(s)]

NoPlan == [flags |-> {}, rst |-> FALSE, arm |-> FALSE, table |-> "Keep", drop |-> FALSE]
RxIdle == [at |-> "idle", key |-> None, obj |-> None, rst |-> FALSE]
TimerIdle == [at |-> "idle", key |-> None, gen |-> 0, obj |-> None, rst |-> FALSE]
Resetting(objs) == [held |-> objs, current |-> None]

\* ConnectionInner::new.  local and peer hold the directions each side has
\* closed; gen is the armed timer's generation (0: none) and ticking tells
\* whether it has still to fire.
NewConn(k, p) ==
    [key |-> k, phase |-> p, err |-> FALSE, ready |-> (p = "Connected"),
     local |-> {}, peer |-> {}, rx |-> 0, gen |-> 0, ticking |-> FALSE]

Fresh == {o \in Obj : conn[o].phase = "unused"}

Init ==
    /\ conn = [o \in Obj |-> NewConn(None, "unused")]
    /\ connections = [k \in Key |-> None]
    /\ closing = [k \in Key |-> <<>>]
    /\ listening = (PassiveKey # {}) /\ backlog = <<>> /\ drained = Resetting({})
    /\ own = [s \in Sock |-> None]
    /\ pc = [s \in Sock |-> "init"]
    /\ plan = [s \in Sock |-> NoPlan]
    /\ rx = RxIdle /\ timer = TimerIdle /\ timerEvents = <<>>
    /\ event = Resetting({})
    /\ txPending = <<>> /\ txDone = <<>>
    /\ generation = 1
    /\ inbound = <<>>
    /\ peer = [k \in Key |-> "idle"]
    /\ budget = [packets |-> MaxPackets, resets |-> MaxResets]

-------------------------------------------------------------------------------
(* Strong references.                                                      *)

Tabled(o) == \E k \in Key : connections[k] = o \/ o \in Members(closing[k])
TaskHolds(o) ==
    o \in {rx.obj, timer.obj} \cup event.held \cup drained.held \cup Members(backlog)
Owned(o) == \E s \in Sock : own[s] = o
Freed(o) == ~Tabled(o) /\ ~TaskHolds(o) /\ ~Owned(o)

\* Arc::into_inner succeeds: the socket's reference is the last one.
UniquelyOwned(s) == ~Tabled(own[s]) /\ ~TaskHolds(own[s])

-------------------------------------------------------------------------------
(* send_packet: into the virtqueue (the peer sees the packet), into the    *)
(* software queue with a completion, or not at all.                        *)

AfterGuest(op, k, ends) ==
    CASE op = "request" -> [ends EXCEPT ![k] = "asked"]
      [] op = "response" /\ ends[k] = "asking" -> [ends EXCEPT ![k] = "open"]
      [] op = "rst" -> [ends EXCEPT ![k] = "idle"]
      [] OTHER -> ends

SendDirect(op, k) == peer' = AfterGuest(op, k, peer) /\ UNCHANGED <<txPending, txDone>>

SendQueuedUntracked(op, k, act) ==
    /\ Congested
    /\ txPending' = Append(txPending, [op |-> op, key |-> k, act |-> "mark"])
    /\ UNCHANGED <<txDone, peer>>
SendQueued(op, k, act) ==
    /\ Congested
    /\ txPending' = Append(txPending, [op |-> op, key |-> k, act |-> act])
    /\ UNCHANGED <<txDone, peer>>

SendFails(op) == op \in CanFail /\ UNCHANGED txVars

\* A packet whose sender ignores the outcome.
Send(op, k) == SendDirect(op, k) \/ SendQueued(op, k, "mark") \/ SendFails(op)

\* arm_timeout: a new generation replaces the armed timer.
Armed(o) == [conn EXCEPT ![o].gen = generation, ![o].ticking = TRUE]

\* on_rst: cancel_timer, then the phase, the error and the connect result.
WithRst(o) ==
    [conn EXCEPT ![o].phase = "Reset", ![o].err = TRUE, ![o].ready = TRUE,
                 ![o].gen = 0, ![o].ticking = FALSE]

\* remove_connection and remove_connection_instance: both remove whatever is
\* active under the ConnId.
WithoutActive(k) == [connections EXCEPT ![k] = None]
RemoveInstance(o) ==
    LET k == conn[o].key IN
    /\ connections' = WithoutActive(k)
    /\ closing' = [closing EXCEPT ![k] = Without(@, o)]

\* move_connection_to_closing: whatever is active under the ConnId.
MoveToClosingKeeping(k) ==
    /\ closing' = IF connections[k] = None THEN closing
                  ELSE [closing EXCEPT ![k] = Append(@, connections[k])]
    /\ UNCHANGED connections
MoveToClosing(k) ==
    /\ connections' = WithoutActive(k)
    /\ closing' = IF connections[k] = None THEN closing
                  ELSE [closing EXCEPT ![k] = Append(@, connections[k])]

-------------------------------------------------------------------------------
(* connect(): new_connection inserts the object, then sends REQUEST.       *)

Goto(s, label) == pc' = [pc EXCEPT ![s] = label]

ConnectInsert(s) ==
    /\ s \in Active /\ pc[s] = "init" /\ connections[s] = None
    /\ \E o \in Fresh :
        /\ connections' = [connections EXCEPT ![s] = o]
        /\ conn' = [conn EXCEPT ![o] = NewConn(s, "Connecting")]
        /\ own' = [own EXCEPT ![s] = o]
    /\ Goto(s, "request")
    /\ UNCHANGED <<closing, listenerVars, plan, rx, timerVars, event, txVars,
                   generation, envVars>>

\* Only a packet that entered the virtqueue arms the timer here; a queued one
\* leaves that to its completion.
ConnectRequest(s) ==
    /\ pc[s] = "request"
    /\ \/ SendDirect("request", s) /\ Goto(s, "armConnect")
       \/ SendQueued("request", s, "arm") /\ Goto(s, "connecting")
       \/ SendFails("request") /\ Goto(s, "unrequest")
    /\ UNCHANGED <<conn, tables, listenerVars, own, plan, rx, timerVars, event,
                   generation, envVars>>

ArmTimer(s) ==
    /\ conn' = Armed(own[s])
    /\ generation' = generation + 1
    /\ UNCHANGED <<tables, listenerVars, own, plan, rx, timerVars, event, txVars, envVars>>

ConnectArm(s) == pc[s] = "armConnect" /\ ArmTimer(s) /\ Goto(s, "connecting")

\* into_result: with a result ready finish_connect reads the phase and takes
\* the error.
ConnectFinish(s) ==
    LET o == own[s] IN
    /\ pc[s] = "connecting" /\ conn[o].ready /\ conn[o].phase # "Connecting"
    /\ conn' = [conn EXCEPT ![o].err = FALSE]
    /\ Goto(s, IF conn[o].err THEN "unrequest" ELSE "connected")
    /\ UNCHANGED <<tables, listenerVars, own, plan, rx, timerVars, event, txVars,
                   generation, envVars>>

\* remove_connection(&conn_id) on the failure paths.
ConnectUndo(s) ==
    /\ pc[s] = "unrequest"
    /\ connections' = WithoutActive(s)
    /\ Goto(s, "unwrap")
    /\ UNCHANGED <<conn, closing, listenerVars, own, plan, rx, timerVars, event,
                   txVars, generation, envVars>>

\* Arc::into_inner(..).expect(..): back to an InitStream with its port, or panic.
ConnectUnwrap(s) ==
    /\ pc[s] = "unwrap"
    /\ Goto(s, IF UniquelyOwned(s) THEN "init" ELSE "panicked")
    /\ own' = [own EXCEPT ![s] = None]
    /\ UNCHANGED <<conn, tables, listenerVars, plan, rx, timerVars, event, txVars,
                   generation, envVars>>

-------------------------------------------------------------------------------
(* accept(), recv(), shutdown() and the drop of a Connection.              *)

Accept(s) ==
    /\ s \in Passive /\ pc[s] = "init" /\ listening /\ backlog # <<>>
    /\ own' = [own EXCEPT ![s] = Head(backlog)]
    /\ backlog' = Tail(backlog)
    /\ Goto(s, "connected")
    /\ UNCHANGED <<conn, tables, listening, drained, plan, rx, timerVars, event,
                   txVars, generation, envVars>>

Recv(s) ==
    /\ pc[s] = "connected" /\ conn[own[s]].rx > 0
    /\ conn' = [conn EXCEPT ![own[s]].rx = @ - 1]
    /\ UNCHANGED <<tables, listenerVars, sockVars, rx, timerVars, event, txVars,
                   generation, envVars>>

\* prepare_local_shutdown: the flags it newly closes and what must follow; the
\* phase changes whenever both directions are closed, whatever it was.
FullyShut(o, dirs) == conn[o].local \cup dirs = Both
ReadyToReset(o, dirs) == FullyShut(o, dirs) /\ conn[o].peer = Both /\ conn[o].rx = 0
LocallyShut(o, dirs) ==
    [conn EXCEPT ![o].local = @ \cup dirs,
                 ![o].phase = IF ReadyToReset(o, dirs) THEN "Closed"
                              ELSE IF FullyShut(o, dirs) THEN "Closing" ELSE @]
LocalShutdownUnarmed(o, dirs) ==
    [NoPlan EXCEPT !.flags = dirs \ conn[o].local, !.rst = ReadyToReset(o, dirs),
                   !.arm = FullyShut(o, dirs) /\ conn[o].peer # Both /\ conn[o].rx = 0]
LocalShutdown(o, dirs) ==
    [NoPlan EXCEPT !.flags = dirs \ conn[o].local,
                   !.rst = ReadyToReset(o, dirs),
                   !.arm = FullyShut(o, dirs) /\ ~ReadyToReset(o, dirs)]

Shutdown(s, dirs) ==
    LET p == LocalShutdown(own[s], dirs) IN
    /\ pc[s] = "connected" /\ p.flags # {}
    /\ conn' = LocallyShut(own[s], dirs)
    /\ plan' = [plan EXCEPT ![s] = p]
    /\ Goto(s, "sendShutdown")
    /\ UNCHANGED <<tables, listenerVars, own, rx, timerVars, event, txVars,
                   generation, envVars>>

\* prepare_drop reads the phase, lets the state lock go, and for an open
\* connection takes it again to shut both directions and again to read the
\* peer's shutdown.
DropBegin(s) ==
    LET o == own[s]
        p == conn[o].phase
    IN
    /\ pc[s] \in {"connecting", "connected"}
    /\ conn' = [conn EXCEPT ![o].phase = IF p = "Connecting" THEN "Closed" ELSE p]
    /\ plan' = [plan EXCEPT ![s] = [NoPlan EXCEPT !.drop = TRUE, !.table = "Remove",
                                                  !.rst = (p = "Connecting")]]
    /\ Goto(s, IF p \in {"Connected", "Closing"} THEN "dropShut" ELSE "dropTable")
    /\ UNCHANGED <<tables, listenerVars, own, rx, timerVars, event, txVars,
                   generation, envVars>>

DropShut(s) ==
    /\ pc[s] = "dropShut"
    /\ conn' = LocallyShut(own[s], Both)
    /\ plan' = [plan EXCEPT ![s] = [LocalShutdown(own[s], Both) EXCEPT !.drop = TRUE]]
    /\ Goto(s, "dropDecide")
    /\ UNCHANGED <<tables, listenerVars, own, rx, timerVars, event, txVars,
                   generation, envVars>>

DropDecide(s) ==
    /\ pc[s] = "dropDecide"
    /\ plan' = [plan EXCEPT ![s].table =
                    IF plan[s].rst THEN "Remove"
                    ELSE IF conn[own[s]].peer = Both THEN "MoveToClosing" ELSE "Keep"]
    /\ Goto(s, "dropTable")
    /\ UNCHANGED <<conn, tables, listenerVars, own, rx, timerVars, event, txVars,
                   generation, envVars>>

\* Where the call goes once its SHUTDOWN is dealt with.
Done(s) == IF plan[s].drop THEN "release" ELSE "connected"
AfterShutdown(s) ==
    IF ~plan[s].rst THEN Done(s) ELSE IF plan[s].drop THEN "sendRst" ELSE "unlist"

DropTable(s) ==
    /\ pc[s] = "dropTable"
    /\ \/ plan[s].table = "Remove" /\ RemoveInstance(own[s])
       \/ plan[s].table = "MoveToClosing" /\ MoveToClosing(conn[own[s]].key)
       \/ plan[s].table = "Keep" /\ UNCHANGED tables
    /\ Goto(s, IF plan[s].flags # {} THEN "sendShutdown" ELSE AfterShutdown(s))
    /\ UNCHANGED <<conn, listenerVars, own, plan, rx, timerVars, event, txVars,
                   generation, envVars>>

\* shutdown() returns the error of a failed send with nothing else done; drop
\* goes on.
SendShutdown(s) ==
    LET k == conn[own[s]].key IN
    /\ pc[s] = "sendShutdown"
    /\ \/ /\ SendDirect("shutdown", k)
          /\ Goto(s, IF plan[s].arm THEN "armClose" ELSE AfterShutdown(s))
       \/ /\ SendQueued("shutdown", k, IF plan[s].arm THEN "arm" ELSE "mark")
          /\ Goto(s, AfterShutdown(s))
       \/ SendFails("shutdown") /\ Goto(s, IF plan[s].drop THEN AfterShutdown(s) ELSE "connected")
    /\ UNCHANGED <<conn, tables, listenerVars, own, plan, rx, timerVars, event,
                   generation, envVars>>

CloseArm(s) == pc[s] = "armClose" /\ ArmTimer(s) /\ Goto(s, AfterShutdown(s))

Unlist(s) ==
    /\ pc[s] = "unlist"
    /\ RemoveInstance(own[s])
    /\ Goto(s, "sendRst")
    /\ UNCHANGED <<conn, listenerVars, own, plan, rx, timerVars, event, txVars,
                   generation, envVars>>

SendRst(s) ==
    /\ pc[s] = "sendRst"
    /\ Send("rst", conn[own[s]].key)
    /\ Goto(s, Done(s))
    /\ UNCHANGED <<conn, tables, listenerVars, own, plan, rx, timerVars, event,
                   generation, envVars>>

Release(s) ==
    /\ pc[s] = "release"
    /\ own' = [own EXCEPT ![s] = None]
    /\ Goto(s, "gone")
    /\ UNCHANGED <<conn, tables, listenerVars, plan, rx, timerVars, event, txVars,
                   generation, envVars>>

-------------------------------------------------------------------------------
(* The drop of the Listener: shutdown_listener, then one reset for each    *)
(* connection it drained.                                                  *)

ListenerDrop ==
    /\ listening
    /\ listening' = FALSE /\ backlog' = <<>>
    /\ drained' = Resetting(Members(backlog))
    /\ connections' = [k \in Key |-> IF \E o \in Members(backlog) : conn[o].key = k
                                     THEN None ELSE connections[k]]
    /\ UNCHANGED <<conn, closing, sockVars, rx, timerVars, event, txVars, generation,
                   envVars>>

\* reset_removed_connection of the objects a caller holds: on_rst on one, then
\* the drop of its Arc.
AfterReset(batch, next) ==
    \/ \E o \in batch.held :
        /\ batch.current = None
        /\ conn' = WithRst(o)
        /\ next = [batch EXCEPT !.current = o]
    \/ /\ batch.current # None
       /\ next = Resetting(batch.held \ {batch.current})
       /\ UNCHANGED conn

DrainedReset ==
    /\ AfterReset(drained, drained')
    /\ UNCHANGED <<tables, listening, backlog, sockVars, rx, timerVars, event, txVars,
                   generation, envVars>>

-------------------------------------------------------------------------------
(* The RX taskless: process_rx_packet on one packet after another.         *)

RxFrame == UNCHANGED <<listenerVars, sockVars, timerVars, event, generation>>
RxTakes(op) ==
    /\ rx.at = "idle" /\ inbound # <<>> /\ Head(inbound).op = op
    /\ inbound' = Tail(inbound) /\ UNCHANGED budget
RxAt(label) == rx.at = label /\ UNCHANGED envVars
RxGoes(label, k, o, rst) == rx' = [at |-> label, key |-> k, obj |-> o, rst |-> rst]

\* process_request: the listener of the port, and the new object.
RxRequest ==
    LET k == Head(inbound).key IN
    /\ RxTakes("request")
    /\ IF k \in PassiveKey /\ listening
       THEN \E o \in Fresh : /\ conn' = [conn EXCEPT ![o] = NewConn(k, "Connected")]
                             /\ RxGoes("insert", k, o, TRUE)
       ELSE UNCHANGED conn /\ RxGoes("rst", k, None, FALSE)
    /\ RxFrame /\ UNCHANGED <<tables, txVars>>

\* insert_connection: the ConnId may be taken.
RxInsert ==
    /\ RxAt("insert")
    /\ IF connections[rx.key] = None
       THEN /\ connections' = [connections EXCEPT ![rx.key] = rx.obj]
            /\ RxGoes("push", rx.key, rx.obj, TRUE)
       ELSE UNCHANGED connections /\ RxGoes("undo", rx.key, rx.obj, TRUE)
    /\ RxFrame /\ UNCHANGED <<conn, closing, txVars>>

\* push_incoming: the listener may be shut down or its backlog full.
Room == listening /\ Len(backlog) < MaxBacklog
RxPush ==
    /\ RxAt("push")
    /\ backlog' = IF Room THEN Append(backlog, rx.obj) ELSE backlog
    /\ RxGoes(IF Room THEN "respond" ELSE "undo", rx.key, rx.obj, TRUE)
    /\ UNCHANGED <<conn, tables, listening, drained, sockVars, timerVars, event, txVars,
                   generation>>

\* remove_connection(&conn_id) when either failed: whatever is active there.
RxUndo ==
    /\ RxAt("undo")
    /\ connections' = WithoutActive(rx.key)
    /\ RxGoes("rst", rx.key, rx.obj, FALSE)
    /\ RxFrame /\ UNCHANGED <<conn, closing, txVars>>

RxRespond ==
    /\ RxAt("respond")
    /\ \/ (SendDirect("response", rx.key) \/ SendQueued("response", rx.key, "mark"))
          /\ rx' = RxIdle
       \/ SendFails("response") /\ RxGoes("unlist", rx.key, rx.obj, FALSE)
    /\ RxFrame /\ UNCHANGED <<conn, tables>>

\* reset_connection: remove_connection_instance, then on_rst, then the Arc.
RxUnlist ==
    /\ RxAt("unlist")
    /\ RemoveInstance(rx.obj)
    /\ RxGoes("onRst", rx.key, rx.obj, FALSE)
    /\ RxFrame /\ UNCHANGED <<conn, txVars>>

RxOnRst ==
    /\ RxAt("onRst")
    /\ conn' = WithRst(rx.obj)
    /\ RxGoes("release", rx.key, rx.obj, rx.rst)
    /\ RxFrame /\ UNCHANGED <<tables, txVars>>

RxRelease ==
    /\ RxAt("release")
    /\ IF rx.rst THEN RxGoes("rst", rx.key, None, FALSE) ELSE rx' = RxIdle
    /\ RxFrame /\ UNCHANGED <<conn, tables, txVars>>

\* send_raw_rst, or the RST of process_shutdown_packet.
RxSendRst ==
    /\ RxAt("rst")
    /\ Send("rst", rx.key)
    /\ rx' = RxIdle
    /\ RxFrame /\ UNCHANGED <<conn, tables>>

\* process_response: cancel_timer, Connected, result ready.
RxResponse ==
    LET o == connections[Head(inbound).key] IN
    /\ RxTakes("response")
    /\ conn' = IF o = None THEN conn
              ELSE [conn EXCEPT ![o].gen = 0, ![o].ticking = FALSE,
                                ![o].phase = "Connected", ![o].ready = TRUE]
    /\ RxFrame /\ UNCHANGED <<tables, txVars, rx>>

\* remove_connection_for_rst: the active connection, or the only closing one.
RxRst ==
    LET k == Head(inbound).key
        o == IF connections[k] # None THEN connections[k]
             ELSE IF Len(closing[k]) = 1 THEN closing[k][1] ELSE None
    IN
    /\ RxTakes("rst")
    /\ connections' = WithoutActive(k)
    /\ closing' = IF connections[k] = None /\ o # None
                  THEN [closing EXCEPT ![k] = <<>>] ELSE closing
    /\ IF o # None THEN RxGoes("onRst", k, o, FALSE) ELSE UNCHANGED rx
    /\ RxFrame /\ UNCHANGED <<conn, txVars>>

\* process_shutdown_packet and on_shutdown, under one sockets lock.
RxShutdown ==
    LET k == Head(inbound).key
        o == connections[k]
        theirs == conn[o].peer \cup Head(inbound).flags
        rst == theirs = Both /\ conn[o].local = Both /\ conn[o].rx = 0
    IN
    /\ RxTakes("shutdown")
    /\ IF o = None THEN UNCHANGED <<conn, tables, rx>>
       ELSE /\ conn' = [conn EXCEPT ![o].peer = theirs,
                            ![o].phase = IF theirs # Both THEN @
                                         ELSE IF rst THEN "Closed" ELSE "Closing"]
            /\ connections' = IF theirs = Both THEN WithoutActive(k) ELSE connections
            /\ closing' = IF theirs = Both /\ ~rst
                          THEN [closing EXCEPT ![k] = Append(@, o)] ELSE closing
            /\ IF rst THEN RxGoes("rst", k, None, FALSE) ELSE UNCHANGED rx
    /\ RxFrame /\ UNCHANGED txVars

\* process_rw_packet: a payload that does not fit resets the connection.
Fits(o) == conn[o].rx < MaxRx
RxData ==
    LET k == Head(inbound).key
        o == connections[k]
    IN
    /\ RxTakes("rw")
    /\ \/ /\ o = None
          /\ RxGoes("rst", k, None, FALSE) /\ UNCHANGED <<conn, connections>>
       \/ /\ o # None /\ Fits(o)
          /\ conn' = [conn EXCEPT ![o].rx = @ + 1]
          /\ UNCHANGED <<connections, rx>>
       \/ /\ o # None /\ ~Fits(o)
          /\ connections' = WithoutActive(k)
          /\ RxGoes("onRst", k, o, TRUE) /\ UNCHANGED conn
    /\ RxFrame /\ UNCHANGED <<closing, txVars>>

RxStep ==
    \/ RxRequest \/ RxInsert \/ RxPush \/ RxUndo \/ RxRespond \/ RxUnlist
    \/ RxOnRst \/ RxRelease \/ RxSendRst
    \/ RxResponse \/ RxRst \/ RxShutdown \/ RxData

-------------------------------------------------------------------------------
(* Timers: the expiry queues an event, and the timer taskless looks for a  *)
(* connection of that ConnId whose armed timer has that generation, first  *)
(* among the active ones, then among the closing ones.                     *)

TimerFires(o) ==
    /\ conn[o].ticking
    /\ conn' = [conn EXCEPT ![o].ticking = FALSE]
    /\ timerEvents' = Append(timerEvents, [key |-> conn[o].key, gen |-> conn[o].gen])
    /\ UNCHANGED <<tables, listenerVars, sockVars, rx, timer, event, txVars, generation,
                   envVars>>

\* on_timeout, on a connection whose armed generation is the event's.
ExpiresConnecting(o) == conn[o].phase = "Connecting"
Expires(o) == conn[o].phase \in {"Connecting", "Closing"}
TimedOutSilently(o) ==
    [conn EXCEPT ![o].gen = 0, ![o].ticking = FALSE, ![o].err = TRUE,
                 ![o].phase = IF @ = "Closing" THEN "Closed" ELSE "Reset"]
TimedOut(o) ==
    LET c == [conn EXCEPT ![o].gen = 0, ![o].ticking = FALSE] IN
    CASE conn[o].phase = "Connecting" ->
            [c EXCEPT ![o].phase = "Reset", ![o].err = TRUE, ![o].ready = TRUE]
      [] conn[o].phase = "Closing" -> [c EXCEPT ![o].phase = "Closed"]
      [] OTHER -> c

TimerFrame == UNCHANGED <<listenerVars, sockVars, rx, event, generation, envVars>>
\* An expired connection leaves the table and is held; only a closing one is
\* followed by RST.
HoldExpired(o, k) ==
    timer' = [at |-> "drop", key |-> k, gen |-> 0, obj |-> o,
              rst |-> (conn[o].phase = "Closing")]

TimerActive ==
    LET e == Head(timerEvents)
        o == connections[e.key]
        hit == o # None /\ conn[o].gen = e.gen
    IN
    /\ timer.at = "idle" /\ timerEvents # <<>>
    /\ timerEvents' = Tail(timerEvents)
    /\ conn' = IF hit THEN TimedOut(o) ELSE conn
    /\ IF hit /\ Expires(o)
       THEN connections' = WithoutActive(e.key) /\ HoldExpired(o, e.key)
       ELSE /\ timer' = [TimerIdle EXCEPT !.at = "closing", !.key = e.key, !.gen = e.gen]
            /\ UNCHANGED connections
    /\ TimerFrame /\ UNCHANGED <<closing, txVars>>

\* The connections that did not expire go back into the table they came from.
PutBackActive(k, rest) ==
    /\ closing' = [closing EXCEPT ![k] = IF rest = <<>> THEN rest ELSE Tail(rest)]
    /\ connections' = IF rest = <<>> THEN connections
                      ELSE [connections EXCEPT ![k] = Head(rest)]
PutBack(k, rest) == closing' = [closing EXCEPT ![k] = rest] /\ UNCHANGED connections

TimerClosing ==
    LET hits == {o \in Members(closing[timer.key]) : conn[o].gen = timer.gen} IN
    /\ timer.at = "closing"
    /\ \/ /\ hits = {}
          /\ timer' = TimerIdle /\ UNCHANGED conn
          /\ PutBack(timer.key, closing[timer.key])
       \/ \E o \in hits :
            /\ conn' = TimedOut(o)
            /\ IF Expires(o)
               THEN /\ HoldExpired(o, timer.key)
                    /\ PutBack(timer.key, Without(closing[timer.key], o))
               ELSE timer' = TimerIdle /\ PutBack(timer.key, closing[timer.key])
    /\ TimerFrame /\ UNCHANGED <<timerEvents, txVars>>

TimerDrop ==
    /\ timer.at = "drop"
    /\ timer' = IF timer.rst THEN [timer EXCEPT !.at = "rst", !.obj = None] ELSE TimerIdle
    /\ TimerFrame /\ UNCHANGED <<conn, tables, timerEvents, txVars>>

TimerSendRst ==
    /\ timer.at = "rst"
    /\ Send("rst", timer.key)
    /\ timer' = TimerIdle
    /\ TimerFrame /\ UNCHANGED <<conn, tables, timerEvents>>

TimerStep == TimerActive \/ TimerClosing \/ TimerDrop \/ TimerSendRst

-------------------------------------------------------------------------------
(* The event taskless: a transport reset empties both tables, then resets  *)
(* every connection it took.                                               *)

TransportReset ==
    /\ budget.resets > 0 /\ event.held = {}
    /\ budget' = [budget EXCEPT !.resets = @ - 1]
    /\ event' = Resetting({o \in Obj : Tabled(o)})
    /\ connections' = [k \in Key |-> None]
    /\ closing' = [k \in Key |-> <<>>]
    /\ peer' = [k \in Key |-> "idle"]
    /\ UNCHANGED <<conn, listenerVars, sockVars, rx, timerVars, txPending, txDone,
                   generation, inbound>>

EventReset ==
    /\ AfterReset(event, event')
    /\ UNCHANGED <<tables, listenerVars, sockVars, rx, timerVars, txVars, generation,
                   envVars>>

-------------------------------------------------------------------------------
(* The TX taskless: process_tx drains a prefix of the software queue under *)
(* the TX lock and runs the completions after it.                          *)

TxDrain ==
    /\ txDone = <<>>
    /\ \E n \in 1..Len(txPending) :
        /\ txDone' = SubSeq(txPending, 1, n)
        /\ txPending' = SubSeq(txPending, n + 1, Len(txPending))
        /\ peer' = FoldLeft(LAMBDA ends, c : AfterGuest(c.op, c.key, ends), peer, txDone')
    /\ UNCHANGED <<conn, tables, listenerVars, sockVars, rx, timerVars, event,
                   generation, envVars>>

\* apply_pending_send_action: the active connection of the ConnId, or the only
\* closing one.
TxApply ==
    LET k == Head(txDone).key
        o == IF connections[k] # None THEN connections[k]
             ELSE IF Len(closing[k]) = 1 THEN closing[k][1] ELSE None
        arms == Head(txDone).act = "arm" /\ o # None
    IN
    /\ txDone # <<>>
    /\ txDone' = Tail(txDone)
    /\ conn' = IF arms THEN Armed(o) ELSE conn
    /\ generation' = IF arms THEN generation + 1 ELSE generation
    /\ UNCHANGED <<tables, listenerVars, sockVars, rx, timerVars, event, txPending,
                   peer, envVars>>

-------------------------------------------------------------------------------
(* The peer, and the device that delivers what it sends.                   *)

PeerSends(k, op, flags, next) ==
    /\ budget.packets > 0 /\ Len(inbound) < MaxInbound
    /\ budget' = [budget EXCEPT !.packets = @ - 1]
    /\ inbound' = Append(inbound, [op |-> op, key |-> k, flags |-> flags])
    /\ peer' = [peer EXCEPT ![k] = next]
    /\ UNCHANGED <<conn, tables, listenerVars, sockVars, rx, timerVars, event,
                   txPending, txDone, generation>>

PeerRequest(k) ==
    /\ k \in PassiveKey
    /\ peer[k] = "idle" \/ (PeerReuses /\ peer[k] = "shut")
    /\ PeerSends(k, "request", {}, "asking")
PeerResponse(k) == peer[k] = "asked" /\ PeerSends(k, "response", {}, "open")
PeerRst(k) == peer[k] \in {"asked", "asking", "open", "shut"} /\ PeerSends(k, "rst", {}, "idle")
PeerData(k) == peer[k] = "open" /\ PeerSends(k, "rw", {}, "open")
PeerShutdown(k) ==
    /\ peer[k] = "open"
    /\ \E flags \in PeerFlags :
        PeerSends(k, "shutdown", flags, IF flags = Both THEN "shut" ELSE "open")

PeerStep(k) ==
    PeerRequest(k) \/ PeerResponse(k) \/ PeerRst(k) \/ PeerData(k) \/ PeerShutdown(k)

-------------------------------------------------------------------------------

\* The steps of a system call already under way.
CallStep(s) ==
    \/ ConnectRequest(s) \/ ConnectArm(s) \/ ConnectFinish(s)
    \/ ConnectUndo(s) \/ ConnectUnwrap(s)
    \/ DropShut(s) \/ DropDecide(s) \/ DropTable(s)
    \/ SendShutdown(s) \/ CloseArm(s) \/ Unlist(s) \/ SendRst(s) \/ Release(s)

SockStep(s) ==
    \/ ConnectInsert(s) \/ Accept(s) \/ Recv(s) \/ DropBegin(s)
    \/ \E dirs \in SUBSET Both : Shutdown(s, dirs)
    \/ CallStep(s)

Next ==
    \/ \E s \in Sock : SockStep(s)
    \/ ListenerDrop \/ DrainedReset
    \/ RxStep
    \/ \E o \in Obj : TimerFires(o)
    \/ TimerStep
    \/ TransportReset \/ EventReset
    \/ TxDrain \/ TxApply
    \/ \E k \in Key : PeerStep(k)

Spec == Init /\ [][Next]_vars

\* What the kernel keeps running: system calls under way, the tasklesses, and
\* the jiffies timer.  Nothing obliges a peer to answer, an application to close
\* or the listener to go.
Fairness ==
    /\ \A s \in Sock : WF_vars(CallStep(s))
    /\ WF_vars(RxStep) /\ WF_vars(TimerStep)
    /\ \A o \in Obj : WF_vars(TimerFires(o))
    /\ WF_vars(DrainedReset) /\ WF_vars(EventReset)
    /\ WF_vars(TxDrain) /\ WF_vars(TxApply)

FairSpec == Spec /\ Fairness

-------------------------------------------------------------------------------
(* Properties.                                                             *)

Phases == {"unused", "Connecting", "Connected", "Closing", "Closed", "Reset"}
SockSteps ==
    {"init", "request", "armConnect", "connecting", "unrequest", "unwrap", "panicked",
     "connected", "sendShutdown", "armClose", "unlist", "sendRst", "dropShut",
     "dropDecide", "dropTable", "release", "gone"}

\* The tables and tasks refer only to objects that were allocated, under the
\* ConnId the object was made for; a socket inside a call owns its connection.
TypeOK ==
    /\ conn \in [Obj -> [key : Key \cup {None}, phase : Phases, err : BOOLEAN,
                         ready : BOOLEAN, local : SUBSET Both, peer : SUBSET Both,
                         rx : 0..MaxRx, gen : 0..generation, ticking : BOOLEAN]]
    /\ \A k \in Key : \A o \in {connections[k]} \cup Members(closing[k]) :
        o # None => conn[o].phase # "unused" /\ conn[o].key = k
    /\ \A s \in Sock : pc[s] \in SockSteps
                       /\ (own[s] = None <=> pc[s] \in {"init", "panicked", "gone"})
    /\ Len(backlog) <= MaxBacklog /\ (listening \/ backlog = <<>>)

\* A connection is in one table at most and there once, so that one removal
\* gives up the only reference the tables hold.
InOneTable ==
    \A o \in Obj : \A k \in Key :
        LET places == {i \in DOMAIN closing[k] : closing[k][i] = o}
        IN Cardinality(places) + (IF connections[k] = o THEN 1 ELSE 0) <= 1

\* A connection that left the tables, or moved to closing_connections, is never
\* made active again: timeouts, late packets and late completions cannot bring
\* it back.
LeftActive(o) ==
    /\ conn[o].phase # "unused"
    /\ \A k \in Key : connections[k] # o
    /\ ~(rx.at = "insert" /\ rx.obj = o)
NeverRelisted ==
    [][\A o \in Obj : LeftActive(o) => \A k \in Key : connections'[k] # o]_vars

\* A socket waiting in connect(), on its first attempt under its ConnId, has something
\* that will end the wait: its timer runs, its expiry is queued or being looked up,
\* its REQUEST still has to enter the virtqueue, or a bottom half has taken the
\* connection to reset it.
ExpiryQueued(o) ==
    [key |-> conn[o].key, gen |-> conn[o].gen] \in Members(timerEvents)
DeferredArm(k) ==
    \E c \in Members(txPending) \cup Members(txDone) : c.key = k /\ c.act = "arm"
\* Every connection made under s so far is the one the socket owns: nothing of an
\* earlier attempt is on its way to the peer or back.
FirstAttempt(s) ==
    \A o \in Obj : conn[o].phase # "unused" /\ conn[o].key = s => o = own[s]
ConnectWillEnd ==
    \A s \in Active :
        LET o == own[s] IN
        pc[s] = "connecting" /\ FirstAttempt(s) /\ ~conn[o].ready =>
            \/ TaskHolds(o)
            \/ /\ connections[s] = o
               /\ conn[o].ticking \/ ExpiryQueued(o) \/ DeferredArm(s)

\* connect() returns: by RESPONSE, by RST, by a transport reset or by its timeout,
\* also when REQUEST went through the software queue.
ConnectReturns == \A s \in Active : pc[s] = "connecting" ~> pc[s] # "connecting"

\* A closing connection the listener made, that only the tables still refer to, has a
\* close timeout coming: nobody else would ever remove it if the peer stays silent.
OrphanWillClose ==
    \A o \in Obj :
        conn[o].key \in PassiveKey /\ Tabled(o) /\ conn[o].phase = "Closing"
            /\ ~Owned(o) /\ ~TaskHolds(o) =>
            \/ conn[o].ticking \/ ExpiryQueued(o) \/ DeferredArm(conn[o].key)
            \/ timer.at = "closing" /\ timer.key = conn[o].key /\ timer.gen = conn[o].gen

\* The connection of a closed socket is freed, and its port with it: by the
\* peer's RST or by the close timeout.
ReleasedIsFreed ==
    \A s \in Sock, o \in Obj : (pc[s] = "release" /\ own[s] = o) ~> Freed(o)

-------------------------------------------------------------------------------
(* Promises of the design documents that the code does not keep.           *)

\* 98-plan.md: after a refused or timed-out connect, Arc::into_inner succeeds,
\* because no background reference outlives the publication of the result.
FailedConnectIsUnique == \A s \in Active : pc[s] = "unwrap" => UniquelyOwned(s)

\* 98-plan.md: the lookup key of an established connection goes only with the
\* peer's full SHUTDOWN, an RST, the close timeout or a transport reset.
EstablishedIsRoutable ==
    \A o \in Obj :
        conn[o].phase = "Connected" /\ Owned(o) /\ ~TaskHolds(o)
            => connections[conn[o].key] = o

\* 98-plan.md: draining the backlog of a dropped listener leaves no connection
\* that user space can no longer reach.
DrainedIsFreed == \A o \in Obj : o \in drained.held ~> Freed(o)
=============================================================================
