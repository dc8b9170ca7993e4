----------------------------- MODULE SocketTable -----------------------------
(***************************************************************************)
(* One process with several UTCP sockets: the application threads that     *)
(* start the package and create, bind, listen on and connect sockets, the  *)
(* listen thread that finds the TCB of each datagram, and the ticker that  *)
(* visits every TCB.  Locks are taken and given up in steps of their own;  *)
(* find_tcb, utcp_bind, utcp_listen and the wait for ESTABLISHED take      *)
(* none, so find_tcb reads one slot per step.                              *)
(*                                                                         *)
(* Remote servers answer a SYN, remote clients connect once to a port and  *)
(* answer a SYN-ACK; nothing is lost (see Handshake for that).  err_sys    *)
(* ends the process, and so does the lock of a TCB that was not found.     *)
(***************************************************************************)
EXTENDS Integers, FiniteSets, FiniteSetsExt

CONSTANTS
  Apps,              \* application threads
  MAX_UTCP_SOCKETS,  \* slots of utcp_fd_table
  Ports,             \* local ports given to utcp_bind
  Clients, Servers,  \* remote ends: an address with its port
  None

Slots == 0 .. MAX_UTCP_SOCKETS - 1

\* What this module uses of struct tcb.
Tcbs ==
  [state : {"CLOSED", "LISTEN", "SYN_SENT", "SYN_RECV", "ESTABLISHED"}, src_port : Nat,
   dst : Clients \cup Servers \cup {None}]

Datagrams == [from : Clients \cup Servers, dport : Nat, flags : {"SYN", "SYN-ACK", "ACK"}]

ASSUME SocketAssumption ==
  /\ MAX_UTCP_SOCKETS \in Nat \ {0} /\ Ports \subseteq Nat
  /\ Clients \cap Servers = {} /\ None \notin Apps \cup Clients \cup Servers
  /\ None \notin Slots /\ None \notin Tcbs \cup Datagrams
  /\ (Apps \cup {None}) \cap {"ticker", "input"} = {}

VARIABLES
  pkg,            \* utcp_initialized, and whether the UDP port is bound
  utcp_fd_table,  \* a TCB or None for each slot
  table_lock,     \* the thread that holds utcp_table_lock
  lock,           \* the thread that holds the lock of each slot's TCB
  app,            \* each application thread: where it is, and its socket
  input,          \* the listen thread: its datagram, scan and match
  ticker,         \* the ticker thread and the slot it is at
  net,            \* datagrams on their way here
  calls,          \* remote clients that have connected
  surplus,        \* a SYN was sent with no listener free for it (history)
  up              \* "running", or how the process ended

vars == <<pkg, utcp_fd_table, table_lock, lock, app, input, ticker, net, calls, surplus, up>>

\* utcp_socket's TCB.
NewTcb == [state |-> "CLOSED", src_port |-> 0, dst |-> None]

Datagram(from, dport, flags) == [from |-> from, dport |-> dport, flags |-> flags]

Init ==
  /\ pkg = [utcp_initialized |-> FALSE, bound |-> FALSE]
  /\ utcp_fd_table = [i \in Slots |-> None]
  /\ table_lock = None /\ lock = [i \in Slots |-> None]
  /\ app = [a \in Apps |-> [pc |-> "start", fd |-> 0]]
  /\ input = [pc |-> "off", seg |-> None, i |-> 0, match |-> None]
  /\ ticker = [pc |-> "off", i |-> 0]
  /\ net = {} /\ calls = {} /\ surplus = FALSE
  /\ up = "running"

-----------------------------------------------------------------------------
\* Application threads

At(a, pc) == up = "running" /\ app[a].pc = pc
Goto(a, pc) == app' = [app EXCEPT ![a].pc = pc]

\* utcp_package_init, called by utcp_socket: the flag is read ...
ReadFlag(a) ==
  /\ At(a, "start")
  /\ Goto(a, IF pkg.utcp_initialized THEN "socket" ELSE "init")
  /\ UNCHANGED <<pkg, utcp_fd_table, table_lock, lock, input, ticker, net, calls, surplus, up>>

\* ... the UDP port is bound, which fails the second time ...
BindUdp(a) ==
  /\ At(a, "init")
  /\ IF pkg.bound THEN up' = "exited" /\ UNCHANGED <<pkg, app>>
                  ELSE pkg' = [pkg EXCEPT !.bound = TRUE] /\ Goto(a, "bound") /\ UNCHANGED up
  /\ UNCHANGED <<utcp_fd_table, table_lock, lock, input, ticker, net, calls, surplus>>

\* ... and the flag is set and both service threads are started.
StartThreads(a) ==
  /\ At(a, "bound")
  /\ pkg' = [pkg EXCEPT !.utcp_initialized = TRUE]
  /\ input' = [input EXCEPT !.pc = "recv"]
  /\ ticker' = [ticker EXCEPT !.pc = "sleep"]
  /\ Goto(a, "socket")
  /\ UNCHANGED <<utcp_fd_table, table_lock, lock, net, calls, surplus, up>>

\* Fault: utcp_socket searches without the lock.
LockTable_free(a) ==
  /\ At(a, "socket")
  /\ Goto(a, "search")
  /\ UNCHANGED <<pkg, utcp_fd_table, table_lock, lock, input, ticker, net, calls, surplus, up>>

LockTable(a) ==
  /\ At(a, "socket") /\ table_lock = None
  /\ table_lock' = a
  /\ Goto(a, "search")
  /\ UNCHANGED <<pkg, utcp_fd_table, lock, input, ticker, net, calls, surplus, up>>

free_slots == {i \in Slots : utcp_fd_table[i] = None}

\* The first free slot; a full table ends the process.
FindSlot(a) ==
  /\ At(a, "search")
  /\ IF free_slots = {} THEN up' = "exited" /\ UNCHANGED app
                        ELSE app' = [app EXCEPT ![a] = [pc |-> "alloc", fd |-> Min(free_slots)]]
                             /\ UNCHANGED up
  /\ UNCHANGED <<pkg, utcp_fd_table, table_lock, lock, input, ticker, net, calls, surplus>>

\* The TCB is published when it is complete.
Publish(a) ==
  /\ At(a, "alloc")
  /\ utcp_fd_table' = [utcp_fd_table EXCEPT ![app[a].fd] = NewTcb]
  /\ table_lock' = None
  /\ Goto(a, "bind")
  /\ UNCHANGED <<pkg, lock, input, ticker, net, calls, surplus, up>>

\* utcp_bind, to INADDR_ANY as client.c and server.c do; no port is refused.
utcp_bind(a, port) ==
  /\ At(a, "bind")
  /\ utcp_fd_table' = [utcp_fd_table EXCEPT ![app[a].fd].src_port = port]
  /\ Goto(a, "ready")
  /\ UNCHANGED <<pkg, table_lock, lock, input, ticker, net, calls, surplus, up>>

\* utcp_listen; utcp_accept then waits.
utcp_listen(a) ==
  /\ At(a, "ready")
  /\ utcp_fd_table' = [utcp_fd_table EXCEPT ![app[a].fd].state = "LISTEN"]
  /\ Goto(a, "wait")
  /\ UNCHANGED <<pkg, table_lock, lock, input, ticker, net, calls, surplus, up>>

\* utcp_connect takes the lock of the TCB.  So do utcp_send, utcp_read and
\* utcp_drain once the socket is established.
LockTcb(a, from, to) ==
  /\ At(a, from) /\ lock[app[a].fd] = None
  /\ lock' = [lock EXCEPT ![app[a].fd] = a]
  /\ Goto(a, to)
  /\ UNCHANGED <<pkg, utcp_fd_table, table_lock, input, ticker, net, calls, surplus, up>>

\* utcp_connect sends its SYN, which the server answers.
SendSyn(a, dst) ==
  /\ utcp_fd_table' = [utcp_fd_table EXCEPT ![app[a].fd].dst = dst,
                                            ![app[a].fd].state = "SYN_SENT"]
  /\ net' = net \cup {Datagram(dst, utcp_fd_table[app[a].fd].src_port, "SYN-ACK")}

\* Fault: the lock is kept while the thread waits.
Connect_locked(a, dst) ==
  /\ At(a, "connect")
  /\ SendSyn(a, dst)
  /\ Goto(a, "wait")
  /\ UNCHANGED <<pkg, table_lock, lock, input, ticker, calls, surplus, up>>

Connect(a, dst) ==
  /\ At(a, "connect")
  /\ SendSyn(a, dst)
  /\ lock' = [lock EXCEPT ![app[a].fd] = None]
  /\ Goto(a, "wait")
  /\ UNCHANGED <<pkg, table_lock, input, ticker, calls, surplus, up>>

wait_until_established(a) ==
  /\ At(a, "wait") /\ utcp_fd_table[app[a].fd].state = "ESTABLISHED"
  /\ Goto(a, "open")
  /\ UNCHANGED <<pkg, utcp_fd_table, table_lock, lock, input, ticker, net, calls, surplus, up>>

\* utcp_send, utcp_read or utcp_drain gives the lock up, to wait or to return;
\* the thread goes on with this socket or opens another.
UnlockTcb(a) ==
  /\ At(a, "busy")
  /\ lock' = [lock EXCEPT ![app[a].fd] = None]
  /\ \E pc \in {"open", "start"} : Goto(a, pc)
  /\ UNCHANGED <<pkg, utcp_fd_table, table_lock, input, ticker, net, calls, surplus, up>>

AppStep(a) ==
  \/ ReadFlag(a) \/ BindUdp(a) \/ StartThreads(a)
  \/ FindSlot(a) \/ Publish(a)
  \/ \E port \in Ports : utcp_bind(a, port)
  \/ utcp_listen(a)
  \/ \E dst \in Servers : Connect(a, dst)
  \/ wait_until_established(a) \/ UnlockTcb(a)

AppLock(a) == LockTable(a) \/ LockTcb(a, "ready", "connect") \/ LockTcb(a, "open", "busy")

-----------------------------------------------------------------------------
\* The listen thread

Listening(pc) == up = "running" /\ input.pc = pc

Recvfrom ==
  /\ Listening("recv")
  /\ \E m \in net : /\ net' = net \ {m}
                    /\ input' = [pc |-> "scan", seg |-> m, i |-> 0, match |-> None]
  /\ UNCHANGED <<pkg, utcp_fd_table, table_lock, lock, app, ticker, calls, surplus, up>>

four_tuple(tcb, m) == tcb.src_port = m.dport /\ tcb.dst = m.from
listens(tcb, m) == tcb.state = "LISTEN" /\ tcb.src_port = m.dport

\* The scan goes on behind slot i with match, if there are slots left.
scan_on(i, match) ==
  [input EXCEPT !.i = i + 1, !.match = match,
                !.pc = IF i + 1 < MAX_UTCP_SOCKETS THEN "scan" ELSE "found"]

\* Faults: a listening socket ends the search; a connection counts only when it
\* is established.
scanned_first(tcb, m, i) ==
  IF four_tuple(tcb, m) \/ listens(tcb, m) THEN [input EXCEPT !.pc = "found", !.match = i]
                                           ELSE scan_on(i, None)
scanned_open(tcb, m, i) ==
  IF four_tuple(tcb, m) /\ tcb.state = "ESTABLISHED"
    THEN [input EXCEPT !.pc = "found", !.match = i]
    ELSE scan_on(i, IF listens(tcb, m) THEN i ELSE input.match)

\* find_tcb at slot i: a matching connection ends the search, a listening
\* socket is remembered, the last one in the end.
scanned(tcb, m, i) ==
  IF four_tuple(tcb, m)
    THEN [input EXCEPT !.pc = "found", !.match = i]
    ELSE scan_on(i, IF listens(tcb, m) THEN i ELSE input.match)

find_tcb ==
  LET tcb == utcp_fd_table[input.i]
  IN  /\ Listening("scan")
      /\ input' = IF tcb = None THEN scan_on(input.i, input.match)
                                ELSE scanned(tcb, input.seg, input.i)
      /\ UNCHANGED <<pkg, utcp_fd_table, table_lock, lock, app, ticker, net, calls, surplus, up>>

\* The lock is taken before the check for NULL.
LockFound ==
  /\ Listening("found")
  /\ IF input.match = None
       THEN up' = "crashed" /\ UNCHANGED <<lock, input>>
       ELSE /\ lock[input.match] = None
            /\ lock' = [lock EXCEPT ![input.match] = "input"]
            /\ input' = [input EXCEPT !.pc = "handle"]
            /\ UNCHANGED up
  /\ UNCHANGED <<pkg, utcp_fd_table, table_lock, app, ticker, net, calls, surplus>>

\* The state machine of utcp_input; the remote client answers a SYN-ACK.
handled(tcb, m) ==
  CASE tcb.state = "LISTEN" /\ m.flags = "SYN" -> [tcb EXCEPT !.state = "SYN_RECV", !.dst = m.from]
    [] tcb.state = "SYN_SENT" /\ m.flags = "SYN-ACK" -> [tcb EXCEPT !.state = "ESTABLISHED"]
    [] tcb.state = "SYN_RECV" /\ m.flags = "ACK" -> [tcb EXCEPT !.state = "ESTABLISHED"]
    [] OTHER -> tcb

Handle ==
  LET m == input.seg
      t == handled(utcp_fd_table[input.match], m)
  IN  /\ Listening("handle")
      /\ net' = IF t # utcp_fd_table[input.match] /\ t.state = "SYN_RECV"
                  THEN net \cup {Datagram(m.from, m.dport, "ACK")} ELSE net
      /\ utcp_fd_table' = [utcp_fd_table EXCEPT ![input.match] = t]
      /\ lock' = [lock EXCEPT ![input.match] = None]
      /\ input' = [pc |-> "recv", seg |-> None, i |-> 0, match |-> None]
      /\ UNCHANGED <<pkg, table_lock, app, ticker, calls, surplus, up>>

-----------------------------------------------------------------------------
\* The ticker thread: the table's lock, then each TCB's in turn.

Ticking(pc) == up = "running" /\ ticker.pc = pc

\* Slots still to be visited from i on; the table's lock keeps them so.
to_visit(i) == {j \in Slots \ free_slots : j >= i}

\* The ticker goes on with the first of them, or ends its round.
VisitFrom(i) ==
  IF to_visit(i) = {}
    THEN ticker' = [pc |-> "sleep", i |-> 0] /\ table_lock' = None
    ELSE ticker' = [pc |-> "visit", i |-> Min(to_visit(i))] /\ table_lock' = "ticker"

TickStart ==
  /\ Ticking("sleep") /\ table_lock = None
  /\ VisitFrom(0)
  /\ UNCHANGED <<pkg, utcp_fd_table, lock, app, input, net, calls, surplus, up>>

TickLock ==
  /\ Ticking("visit") /\ lock[ticker.i] = None
  /\ lock' = [lock EXCEPT ![ticker.i] = "ticker"]
  /\ ticker' = [ticker EXCEPT !.pc = "locked"]
  /\ UNCHANGED <<pkg, utcp_fd_table, table_lock, app, input, net, calls, surplus, up>>

\* The timers of the TCB have been counted (see RetransmitTimer).
TickDone ==
  /\ Ticking("locked")
  /\ lock' = [lock EXCEPT ![ticker.i] = None]
  /\ VisitFrom(ticker.i + 1)
  /\ UNCHANGED <<pkg, utcp_fd_table, app, input, net, calls, surplus, up>>

-----------------------------------------------------------------------------
\* Listeners on a port, and SYNs for it that are not handled yet.
listeners(port) == {i \in Slots \ free_slots : /\ utcp_fd_table[i].state = "LISTEN"
                                               /\ utcp_fd_table[i].src_port = port}
pending(port) == {m \in net \cup {input.seg} : m # None /\ m.flags = "SYN" /\ m.dport = port}

RemoteConnect(c, port) ==
  /\ up = "running" /\ pkg.bound /\ c \notin calls
  /\ calls' = calls \cup {c}
  /\ surplus' = (surplus \/ Cardinality(listeners(port)) <= Cardinality(pending(port)))
  /\ net' = net \cup {Datagram(c, port, "SYN")}
  /\ UNCHANGED <<pkg, utcp_fd_table, table_lock, lock, app, input, ticker, up>>

Next ==
  \/ \E a \in Apps : AppStep(a) \/ AppLock(a)
  \/ Recvfrom \/ find_tcb \/ LockFound \/ Handle
  \/ TickStart \/ TickLock \/ TickDone
  \/ \E c \in Clients, port \in Ports : RemoteConnect(c, port)

\* Threads keep running, and a TCB's lock that is given up again and again is
\* got in the end by the service thread that waits for it.
Fairness ==
  /\ \A a \in Apps : WF_vars(AppStep(a))
  /\ WF_vars(Recvfrom \/ find_tcb \/ Handle) /\ SF_vars(LockFound)
  /\ WF_vars(TickDone) /\ SF_vars(TickLock)

Spec == Init /\ [][Next]_vars /\ Fairness

-----------------------------------------------------------------------------
\* Two sockets with one port and one peer: utcp_bind and utcp_connect allow it,
\* and find_tcb cannot tell them apart.
SharedTuple ==
  \E i, j \in Slots \ free_slots :
    /\ i # j /\ utcp_fd_table[i].dst # None
    /\ utcp_fd_table[i].dst = utcp_fd_table[j].dst
    /\ utcp_fd_table[i].src_port = utcp_fd_table[j].src_port

\* However utcp_socket calls of several threads interleave, no two of them get
\* the same descriptor.
FdsDistinct ==
  \A a, b \in Apps : a # b /\ app[a].fd = app[b].fd
    => \E x \in {a, b} : app[x].pc \in {"start", "init", "bound", "socket", "search"}

\* When utcp_input has the lock, the TCB that find_tcb chose without it is
\* still the right one: the connection of that peer, or a listening socket
\* when no socket has such a connection.
RightSocket ==
  input.pc = "handle" =>
    LET tcb == utcp_fd_table[input.match]
    IN  \/ four_tuple(tcb, input.seg)
        \/ /\ listens(tcb, input.seg)
           /\ \A i \in Slots \ free_slots : ~four_tuple(utcp_fd_table[i], input.seg)

\* The process meets a datagram that matches no socket, and takes the lock of
\* NULL, only if a client connected to a port with no listener left for it: the
\* unlocked scan never misses a socket that a datagram was meant for.
Survives == up = "crashed" => surplus

\* The locks cannot be taken in a circle: the ticker always finishes its round
\* and sleeps again.
TickerRuns == <>(up # "running") \/ []<>(ticker.pc = "sleep")

\* utcp_connect returns, whatever the other threads do with their sockets.
ConnectReturns ==
  \A a \in Apps : app[a].pc = "connect" ~> app[a].pc = "open" \/ up # "running" \/ SharedTuple
=============================================================================
