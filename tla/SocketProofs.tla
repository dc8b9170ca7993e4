---------------------------- MODULE SocketProofs ----------------------------
(***************************************************************************)
(* Module SocketTable, for every number of threads, slots, ports and       *)
(* remote ends: descriptors are distinct, and the listen thread, which     *)
(* reads the table without a lock, finds the socket each datagram is for.  *)
(***************************************************************************)
EXTENDS SocketTable, FiniteSetTheorems, NaturalsInduction, WellFoundedInduction, TLAPS

Pcs == {"start", "init", "bound", "socket", "search", "alloc",
        "bind", "ready", "connect", "wait", "open", "busy"}

\* Before utcp_socket has chosen a slot, and once the thread owns its socket.
Choosing == {"start", "init", "bound", "socket", "search"}
Owning == {"bind", "ready", "connect", "wait", "open", "busy"}

\* The table, the threads' descriptors, and what the listen thread holds.
Typed ==
  /\ app \in [Apps -> [pc : Pcs, fd : Slots]]
  /\ utcp_fd_table \in [Slots -> Tcbs \cup {None}]
  /\ net \subseteq Datagrams

Inputs ==
  [pc : {"off", "recv", "scan", "found", "handle"}, seg : Datagrams \cup {None},
   i : Nat, match : Slots \cup {None}]

\* The listen thread's match is a socket that exists.
Scanning ==
  /\ input \in Inputs
  /\ input.pc \in {"scan", "found", "handle"} => input.seg \in Datagrams
  /\ input.pc = "scan" => input.i \in Slots
  /\ input.pc = "handle" => input.match # None
  /\ input.match # None => utcp_fd_table[input.match] # None

\* Only the holder of utcp_table_lock searches the table or walks it.
Locked ==
  /\ \A a \in Apps : app[a].pc \in {"search", "alloc"} => table_lock = a
  /\ ticker.pc \in {"visit", "locked"} => table_lock = "ticker"

\* A chosen slot stays free until the TCB is published, and never becomes free
\* again.
Slotted ==
  /\ \A a \in Apps : app[a].pc = "alloc" => utcp_fd_table[app[a].fd] = None
  /\ \A a \in Apps : app[a].pc \in Owning => utcp_fd_table[app[a].fd] # None

SocketInv == Typed /\ Scanning /\ Locked /\ Slotted /\ FdsDistinct

-----------------------------------------------------------------------------
\* A non-empty set of naturals has a least element, and it is what Min chooses.
LEMMA MinOfNat ==
  ASSUME NEW S \in SUBSET Nat, S # {}
  PROVE  Min(S) \in S
<1>1. \E d \in S : \A e \in S : ~ (<<e, d>> \in OpToRel(<, Nat))
  BY NatLessThanWellFounded, WFMin
<1>2. PICK d \in S : \A e \in S : ~ (e < d)
  BY <1>1 DEF OpToRel
<1>3. \A e \in S : d <= e
  BY <1>2
<1> QED
  BY <1>3 DEF Min

LEMMA SocketInitInv == Init => SocketInv
<1> SUFFICES ASSUME Init PROVE SocketInv
  OBVIOUS
<1>1. 0 \in Slots
  BY SocketAssumption DEF Slots
<1>2. Typed
  BY <1>1 DEF Init, Typed, Pcs
<1>3. Scanning
  BY DEF Init, Scanning, Inputs
<1>4. Locked /\ Slotted /\ FdsDistinct
  BY DEF Init, Locked, Slotted, FdsDistinct, Owning
<1> QED
  BY <1>2, <1>3, <1>4 DEF SocketInv

\* A thread that goes on from one step of its socket to another, with the
\* table as it was or with its own TCB changed.
LEMMA OwnerStep ==
  ASSUME SocketInv, NEW a \in Apps, NEW pc \in Pcs, Goto(a, pc),
         app[a].pc \in Owning, pc \in Owning \cup {"start"}, net' \subseteq Datagrams,
         UNCHANGED <<table_lock, input, ticker>>,
         \/ UNCHANGED utcp_fd_table
         \/ \E tcb \in Tcbs : utcp_fd_table' = [utcp_fd_table EXCEPT ![app[a].fd] = tcb]
  PROVE  SocketInv'
<1>1. Typed /\ Scanning /\ Locked /\ Slotted /\ FdsDistinct
  BY DEF SocketInv
<1>2. /\ app' \in [Apps -> [pc : Pcs, fd : Slots]] /\ app'[a].pc = pc
      /\ \A b \in Apps : app'[b].fd = app[b].fd
      /\ \A b \in Apps : b # a => app'[b].pc = app[b].pc
  BY <1>1 DEF Typed, Goto
<1>3. /\ utcp_fd_table' \in [Slots -> Tcbs \cup {None}]
      /\ \A i \in Slots : utcp_fd_table[i] # None => utcp_fd_table'[i] # None
      /\ \A i \in Slots : i # app[a].fd => utcp_fd_table'[i] = utcp_fd_table[i]
  BY <1>1, SocketAssumption DEF Typed
<1>4. Typed'
  BY <1>2, <1>3 DEF Typed
<1>5. Scanning'
  BY <1>1, <1>3 DEF Scanning, Inputs
<1>6. pc \notin {"search", "alloc"} /\ app[a].pc \notin Choosing /\ app[a].pc # "alloc"
  BY DEF Owning, Choosing
<1>7. Locked'
  BY <1>1, <1>2, <1>6 DEF Locked
<1>8. \A b \in Apps : b # a /\ app[b].fd = app[a].fd => app[b].pc \in Choosing
  BY <1>1, <1>6 DEF FdsDistinct, Choosing
<1>9. Slotted'
  <2>1. ASSUME NEW b \in Apps, app'[b].pc = "alloc" PROVE utcp_fd_table'[app'[b].fd] = None
    <3>1. b # a /\ app[b].pc = "alloc"
      BY <1>2, <1>6, <2>1
    <3>2. app[b].fd # app[a].fd /\ app[b].fd \in Slots
      BY <1>1, <1>8, <3>1 DEF Choosing, Typed
    <3> QED
      BY <1>1, <1>2, <1>3, <3>1, <3>2 DEF Slotted
  <2>2. ASSUME NEW b \in Apps, app'[b].pc \in Owning PROVE utcp_fd_table'[app'[b].fd] # None
    <3>1. app[b].pc \in Owning /\ app[b].fd \in Slots
      BY <1>1, <1>2, <2>2 DEF Typed
    <3> QED
      BY <1>1, <1>2, <1>3, <3>1 DEF Slotted
  <2> QED
    BY <2>1, <2>2 DEF Slotted
<1>10. FdsDistinct'
  <2> SUFFICES ASSUME NEW b \in Apps, NEW c \in Apps, b # c, app'[b].fd = app'[c].fd
               PROVE  \E x \in {b, c} : app'[x].pc \in Choosing
    BY DEF FdsDistinct, Choosing
  <2>1. \E x \in {b, c} : app[x].pc \in Choosing
    BY <1>1, <1>2 DEF FdsDistinct, Choosing
  <2> QED
    BY <1>2, <1>6, <2>1
<1> QED
  BY <1>4, <1>5, <1>7, <1>9, <1>10 DEF SocketInv

\* A thread that has not chosen a slot yet, at a step that leaves the table's
\* lock alone or takes it.
LEMMA ChooserStep ==
  ASSUME SocketInv, NEW a \in Apps, NEW pc \in Choosing, Goto(a, pc),
         app[a].pc \in Choosing, UNCHANGED <<utcp_fd_table, net>>,
         \/ pc # "search" /\ UNCHANGED table_lock
         \/ pc = "search" /\ table_lock = None /\ table_lock' = a,
         Scanning', ticker' = ticker \/ ticker'.pc = "sleep"
  PROVE  SocketInv'
<1>1. Typed /\ Scanning /\ Locked /\ Slotted /\ FdsDistinct
  BY DEF SocketInv
<1>2. /\ app' \in [Apps -> [pc : Pcs, fd : Slots]] /\ app'[a].pc = pc
      /\ \A b \in Apps : app'[b].fd = app[b].fd
      /\ \A b \in Apps : b # a => app'[b].pc = app[b].pc
  BY <1>1 DEF Typed, Goto, Choosing, Pcs
<1>3. Typed'
  BY <1>1, <1>2 DEF Typed
<1>4. Locked'
  <2>1. CASE pc # "search" /\ UNCHANGED table_lock
    BY <1>1, <1>2, <2>1 DEF Locked, Choosing
  <2>2. CASE pc = "search" /\ table_lock = None /\ table_lock' = a
    <3>1. \A b \in Apps : app[b].pc \notin {"search", "alloc"}
      BY <1>1, <2>2, SocketAssumption DEF Locked
    <3>2. ASSUME ticker' = ticker PROVE ticker.pc \notin {"visit", "locked"}
      BY <1>1, <2>2, SocketAssumption DEF Locked
    <3> QED
      BY <1>2, <2>2, <3>1, <3>2 DEF Locked
  <2> QED
    BY <2>1, <2>2
<1>5. Slotted'
  BY <1>1, <1>2 DEF Slotted, Choosing, Owning
<1>6. FdsDistinct'
  BY <1>1, <1>2 DEF FdsDistinct, Choosing
<1> QED
  BY <1>3, <1>4, <1>5, <1>6 DEF SocketInv

\* The holder of the table's lock chooses a slot: it is free, so it belongs to
\* no socket, and no other thread is choosing.
LEMMA FindSlotInv ==
  ASSUME SocketInv, NEW a \in Apps, FindSlot(a) PROVE SocketInv'
<1>1. Typed /\ Scanning /\ Locked /\ Slotted /\ FdsDistinct
  BY DEF SocketInv
<1>2. app[a].pc = "search" /\ table_lock = a
  BY <1>1 DEF FindSlot, At, Locked
<1>3. UNCHANGED <<utcp_fd_table, table_lock, input, ticker, net>>
  BY DEF FindSlot
<1>4. Scanning'
  BY <1>1, <1>3 DEF Scanning
<1>5. CASE UNCHANGED app
  BY <1>1, <1>3, <1>4, <1>5 DEF SocketInv, Typed, Locked, Slotted, FdsDistinct
<1>6. CASE free_slots # {} /\ app' = [app EXCEPT ![a] = [pc |-> "alloc", fd |-> Min(free_slots)]]
  <2> DEFINE m == Min(free_slots)
  <2>1. m \in Slots /\ utcp_fd_table[m] = None
    <3>1. free_slots \in SUBSET Nat
      BY SocketAssumption DEF free_slots, Slots
    <3>2. m \in free_slots
      BY <1>6, <3>1, MinOfNat
    <3> QED
      BY <3>2 DEF free_slots
  <2> HIDE DEF m
  <2>2. /\ app' \in [Apps -> [pc : Pcs, fd : Slots]] /\ app'[a].pc = "alloc" /\ app'[a].fd = m
        /\ \A b \in Apps : b # a => app'[b] = app[b]
    BY <1>1, <1>6, <2>1 DEF Typed, Pcs, m
  <2>3. Typed' /\ Locked'
    BY <1>1, <1>2, <1>3, <2>2 DEF Typed, Locked
  <2>4. Slotted'
    BY <1>1, <1>3, <2>1, <2>2 DEF Slotted, Owning
  <2>5. ASSUME NEW b \in Apps, b # a, app'[b].fd = m PROVE app'[b].pc \in Choosing
    <3>1. app'[b] = app[b] /\ app[b].pc \in Pcs
      BY <1>1, <2>2, <2>5 DEF Typed
    <3>2. app[b].pc \notin Owning
      BY <1>1, <2>1, <2>5, <3>1 DEF Slotted
    <3>3. app[b].pc # "alloc"
      BY <1>1, <1>2, <2>5 DEF Locked
    <3> QED
      BY <3>1, <3>2, <3>3 DEF Pcs, Owning, Choosing
  <2>6. FdsDistinct'
    <3> SUFFICES ASSUME NEW b \in Apps, NEW c \in Apps, b # c, app'[b].fd = app'[c].fd
                 PROVE  \E z \in {b, c} : app'[z].pc \in Choosing
      BY DEF FdsDistinct, Choosing
    <3>1. CASE b = a \/ c = a
      BY <2>2, <2>5, <3>1
    <3>2. CASE b # a /\ c # a
      BY <1>1, <2>2, <3>2 DEF FdsDistinct, Choosing
    <3> QED
      BY <3>1, <3>2
  <2> QED
    BY <1>4, <2>3, <2>4, <2>6 DEF SocketInv
<1> QED
  BY <1>5, <1>6 DEF FindSlot

\* The TCB is published: the slot is taken from here on.
LEMMA PublishInv ==
  ASSUME SocketInv, NEW a \in Apps, Publish(a) PROVE SocketInv'
<1>1. Typed /\ Scanning /\ Locked /\ Slotted /\ FdsDistinct
  BY DEF SocketInv
<1>2. /\ app[a].pc = "alloc" /\ table_lock = a /\ app[a].fd \in Slots
      /\ utcp_fd_table' = [utcp_fd_table EXCEPT ![app[a].fd] = NewTcb]
      /\ app' = [app EXCEPT ![a].pc = "bind"] /\ UNCHANGED <<input, ticker, net>>
  BY <1>1 DEF Publish, At, Goto, Locked, Typed
<1>3. NewTcb \in Tcbs /\ NewTcb # None
  <2>1. NewTcb \in Tcbs
    BY DEF NewTcb, Tcbs
  <2> QED
    BY <2>1, SocketAssumption
<1>4. /\ utcp_fd_table' \in [Slots -> Tcbs \cup {None}]
      /\ utcp_fd_table'[app[a].fd] # None
      /\ \A i \in Slots : utcp_fd_table[i] # None => utcp_fd_table'[i] # None
  BY <1>1, <1>2, <1>3 DEF Typed
<1>5. /\ app' \in [Apps -> [pc : Pcs, fd : Slots]] /\ app'[a].pc = "bind"
      /\ \A b \in Apps : app'[b].fd = app[b].fd
      /\ \A b \in Apps : b # a => app'[b].pc = app[b].pc
  BY <1>1, <1>2 DEF Typed, Pcs
<1>6. Typed'
  BY <1>1, <1>2, <1>4, <1>5 DEF Typed
<1>7. Scanning'
  BY <1>1, <1>2, <1>4 DEF Scanning, Inputs
<1>8. \A b \in Apps : app'[b].pc \notin {"search", "alloc"}
  BY <1>1, <1>2, <1>5 DEF Locked
<1>9. Locked'
  BY <1>1, <1>2, <1>8, SocketAssumption DEF Locked
<1>10. Slotted'
  <2>1. ASSUME NEW b \in Apps, app'[b].pc \in Owning PROVE utcp_fd_table'[app'[b].fd] # None
    <3>1. CASE b = a
      BY <1>4, <1>5, <3>1
    <3>2. CASE b # a
      BY <1>1, <1>4, <1>5, <2>1, <3>2 DEF Slotted, Typed
    <3> QED
      BY <3>1, <3>2
  <2> QED
    BY <1>8, <2>1 DEF Slotted
<1>11. FdsDistinct'
  <2> SUFFICES ASSUME NEW b \in Apps, NEW c \in Apps, b # c, app'[b].fd = app'[c].fd
               PROVE  \E z \in {b, c} : app'[z].pc \in Choosing
    BY DEF FdsDistinct, Choosing
  <2>1. PICK z \in {b, c} : app[z].pc \in Choosing
    BY <1>1, <1>5 DEF FdsDistinct, Choosing
  <2>2. z # a
    BY <1>2, <2>1 DEF Choosing
  <2> QED
    BY <1>5, <2>1, <2>2
<1> QED
  BY <1>6, <1>7, <1>9, <1>10, <1>11 DEF SocketInv

-----------------------------------------------------------------------------
\* A change of one field keeps a TCB a TCB.
LEMMA TcbChanged ==
  ASSUME NEW tcb \in Tcbs
  PROVE  /\ \A p \in Nat : [tcb EXCEPT !.src_port = p] \in Tcbs
         /\ [tcb EXCEPT !.state = "LISTEN"] \in Tcbs
         /\ [tcb EXCEPT !.state = "ESTABLISHED"] \in Tcbs
         /\ \A d \in Clients \cup Servers : \A st \in {"SYN_SENT", "SYN_RECV"} :
              [tcb EXCEPT !.state = st, !.dst = d] \in Tcbs
  BY DEF Tcbs

\* Every step of an application thread.
LEMMA AppInv ==
  ASSUME SocketInv, NEW a \in Apps, AppStep(a) \/ AppLock(a) PROVE SocketInv'
<1>1. Typed /\ Scanning /\ Locked /\ Slotted /\ FdsDistinct
  BY DEF SocketInv
<1>2. ASSUME UNCHANGED <<utcp_fd_table, input>> PROVE Scanning'
  BY <1>1, <1>2 DEF Scanning
<1>3. ASSUME app[a].pc \in Owning
      PROVE  app[a].fd \in Slots /\ utcp_fd_table[app[a].fd] \in Tcbs
  BY <1>1, <1>3 DEF Typed, Slotted
<1>4. CASE ReadFlag(a)
  <2>1. PICK pc \in {"socket", "init"} : Goto(a, pc)
    BY <1>4 DEF ReadFlag
  <2> QED
    BY <1>2, <1>4, <2>1, ChooserStep DEF ReadFlag, At, Choosing
<1>5. CASE BindUdp(a)
  <2>1. CASE Goto(a, "bound")
    BY <1>2, <1>5, <2>1, ChooserStep DEF BindUdp, At, Choosing
  <2>2. CASE UNCHANGED app
    BY <1>1, <1>2, <1>5, <2>2
       DEF BindUdp, SocketInv, Typed, Locked, Slotted, FdsDistinct
  <2> QED
    BY <1>5, <2>1, <2>2 DEF BindUdp
<1>6. CASE StartThreads(a)
  <2>1. ticker'.pc = "sleep" \/ ticker' = ticker
    BY <1>6 DEF StartThreads
  <2>2. Scanning'
    <3>1. input' = [input EXCEPT !.pc = "recv"] /\ utcp_fd_table' = utcp_fd_table
      BY <1>6 DEF StartThreads
    <3>2. input \in Inputs
      BY <1>1 DEF Scanning
    <3>3. input' \in Inputs /\ input'.pc = "recv" /\ input'.match = input.match
      BY <3>1, <3>2 DEF Inputs
    <3> QED
      BY <1>1, <3>1, <3>3 DEF Scanning
  <2> QED
    BY <1>6, <2>1, <2>2, ChooserStep DEF StartThreads, At, Choosing
<1>7. CASE LockTable(a)
  BY <1>2, <1>7, ChooserStep DEF LockTable, At, Choosing
<1>8. ASSUME NEW port \in Ports, utcp_bind(a, port) PROVE SocketInv'
  <2> DEFINE tcb == [utcp_fd_table[app[a].fd] EXCEPT !.src_port = port]
  <2>1. app[a].pc \in Owning /\ "ready" \in Owning /\ "ready" \in Pcs /\ port \in Nat
    BY <1>8, SocketAssumption DEF utcp_bind, At, Owning, Pcs
  <2>2. tcb \in Tcbs /\ utcp_fd_table' = [utcp_fd_table EXCEPT ![app[a].fd] = tcb]
    BY <1>3, <1>8, <2>1, TcbChanged DEF utcp_bind
  <2> HIDE DEF tcb
  <2>3. /\ Goto(a, "ready") /\ UNCHANGED <<table_lock, input, ticker>>
        /\ net' \subseteq Datagrams
    BY <1>1, <1>8 DEF utcp_bind, Typed
  <2> QED
    BY <2>1, <2>2, <2>3, OwnerStep
<1>9. CASE utcp_listen(a)
  <2> DEFINE tcb == [utcp_fd_table[app[a].fd] EXCEPT !.state = "LISTEN"]
  <2>1. app[a].pc \in Owning /\ "wait" \in Owning /\ "wait" \in Pcs
    BY <1>9 DEF utcp_listen, At, Owning, Pcs
  <2>2. tcb \in Tcbs /\ utcp_fd_table' = [utcp_fd_table EXCEPT ![app[a].fd] = tcb]
    BY <1>3, <1>9, <2>1, TcbChanged DEF utcp_listen
  <2> HIDE DEF tcb
  <2>3. /\ Goto(a, "wait") /\ UNCHANGED <<table_lock, input, ticker>>
        /\ net' \subseteq Datagrams
    BY <1>1, <1>9 DEF utcp_listen, Typed
  <2> QED
    BY <2>1, <2>2, <2>3, OwnerStep
<1>10. ASSUME NEW dst \in Servers, Connect(a, dst) PROVE SocketInv'
  <2> DEFINE old == utcp_fd_table[app[a].fd]
             tcb == [old EXCEPT !.state = "SYN_SENT", !.dst = dst]
  <2>1. app[a].pc \in Owning /\ "wait" \in Owning /\ "wait" \in Pcs
    BY <1>10 DEF Connect, At, Owning, Pcs
  <2>2. old \in Tcbs /\ tcb \in Tcbs
    BY <1>3, <2>1, TcbChanged
  <2>3. utcp_fd_table' = [utcp_fd_table EXCEPT ![app[a].fd] = tcb]
    <3>1. utcp_fd_table' = [utcp_fd_table EXCEPT ![app[a].fd].dst = dst,
                                                 ![app[a].fd].state = "SYN_SENT"]
      BY <1>10 DEF Connect, SendSyn
    <3> QED
      BY <1>1, <1>3, <2>1, <2>2, <3>1 DEF Typed, Tcbs
  <2>4. net' \subseteq Datagrams
    <3>1. old.src_port \in Nat
      BY <2>2 DEF Tcbs
    <3> QED
      BY <1>1, <1>10, <3>1 DEF Connect, SendSyn, Typed, Datagram, Datagrams
  <2>5. Goto(a, "wait") /\ UNCHANGED <<table_lock, input, ticker>>
    BY <1>10 DEF Connect
  <2> HIDE DEF tcb, old
  <2> QED
    BY <2>1, <2>2, <2>3, <2>4, <2>5, OwnerStep
<1>11. CASE wait_until_established(a) \/ UnlockTcb(a) \/ LockTcb(a, "ready", "connect")
            \/ LockTcb(a, "open", "busy")
  <2>1. PICK pc \in {"open", "start", "connect", "busy"} : Goto(a, pc)
    BY <1>11 DEF wait_until_established, UnlockTcb, LockTcb
  <2>2. app[a].pc \in Owning /\ pc \in Owning \cup {"start"} /\ pc \in Pcs
    BY <1>11 DEF wait_until_established, UnlockTcb, LockTcb, At, Owning, Pcs
  <2>3. UNCHANGED <<utcp_fd_table, table_lock, input, ticker>> /\ net' \subseteq Datagrams
    BY <1>1, <1>11 DEF wait_until_established, UnlockTcb, LockTcb, Typed
  <2> QED
    BY <2>1, <2>2, <2>3, OwnerStep
<1> QED
  BY <1>4, <1>5, <1>6, <1>7, <1>8, <1>9, <1>10, <1>11, FindSlotInv, PublishInv
     DEF AppStep, AppLock

-----------------------------------------------------------------------------
\* The application's part of the invariant under a step of another thread that
\* frees no slot and fills none.
LEMMA ServiceStep ==
  ASSUME SocketInv, UNCHANGED app, net' \subseteq Datagrams, Scanning',
         utcp_fd_table' \in [Slots -> Tcbs \cup {None}],
         \A i \in Slots : utcp_fd_table'[i] = None <=> utcp_fd_table[i] = None,
         Locked'
  PROVE  SocketInv'
<1>1. Typed /\ Slotted /\ FdsDistinct
  BY DEF SocketInv
<1>2. Typed' /\ FdsDistinct'
  BY <1>1 DEF Typed, FdsDistinct
<1>3. Slotted'
  BY <1>1 DEF Slotted, Typed
<1> QED
  BY <1>2, <1>3 DEF SocketInv

\* The listen thread.
LEMMA InputInv ==
  ASSUME SocketInv, Recvfrom \/ find_tcb \/ LockFound \/ Handle PROVE SocketInv'
<1>1. Typed /\ Scanning /\ Locked /\ input \in Inputs
  BY DEF SocketInv, Scanning
<1>2. ASSUME UNCHANGED <<app, utcp_fd_table, table_lock, ticker>>, net' \subseteq Datagrams, Scanning'
      PROVE  SocketInv'
  BY <1>1, <1>2, ServiceStep DEF Locked, Typed
<1>3. CASE Recvfrom
  <2>1. PICK m \in net : /\ net' = net \ {m}
                         /\ input' = [pc |-> "scan", seg |-> m, i |-> 0, match |-> None]
    BY <1>3 DEF Recvfrom
  <2>2. 0 \in Slots /\ m \in Datagrams /\ net' \subseteq Datagrams
    BY <1>1, <2>1, SocketAssumption DEF Slots, Typed
  <2>3. Scanning'
    BY <2>1, <2>2 DEF Scanning, Inputs
  <2> QED
    BY <1>2, <1>3, <2>2, <2>3 DEF Recvfrom
<1>4. CASE find_tcb
  <2>1. input.pc = "scan" /\ input.i \in Slots /\ input.seg \in Datagrams /\ UNCHANGED utcp_fd_table
    BY <1>1, <1>4 DEF find_tcb, Listening, Scanning
  <2>2. PICK m \in {input.match, input.i} :
          /\ m = input.i => utcp_fd_table[input.i] # None \/ m = input.match
          /\ \/ input' = scan_on(input.i, m)
             \/ m = input.i /\ input' = [input EXCEPT !.pc = "found", !.match = m]
    BY <1>4 DEF find_tcb, scanned
  <2>3. m \in Slots \cup {None} /\ (m # None => utcp_fd_table[m] # None)
    BY <1>1, <2>1, <2>2 DEF Scanning, Inputs
  <2>4. input.i \in Nat /\ (input.i + 1 < MAX_UTCP_SOCKETS => input.i + 1 \in Slots)
    BY <2>1, SocketAssumption DEF Slots
  <2>5. Scanning'
    <3>1. CASE input' = scan_on(input.i, m)
      <4> DEFINE pc == IF input.i + 1 < MAX_UTCP_SOCKETS THEN "scan" ELSE "found"
      <4>1. /\ input' = [input EXCEPT !.i = input.i + 1, !.match = m, !.pc = pc]
            /\ pc \in {"scan", "found"} /\ (pc = "scan" => input.i + 1 \in Slots)
            /\ input.i + 1 \in Nat
        BY <2>4, <3>1 DEF scan_on
      <4> HIDE DEF pc
      <4>2. /\ input' \in Inputs /\ input'.pc = pc /\ input'.i = input.i + 1
            /\ input'.match = m /\ input'.seg = input.seg
        BY <1>1, <2>3, <4>1 DEF Inputs
      <4> QED
        BY <2>1, <2>3, <4>1, <4>2 DEF Scanning
    <3>2. CASE input' = [input EXCEPT !.pc = "found", !.match = m]
      <4>1. /\ input' \in Inputs /\ input'.pc = "found" /\ input'.match = m
            /\ input'.seg = input.seg
        BY <1>1, <2>3, <3>2 DEF Inputs
      <4> QED
        BY <2>1, <2>3, <4>1 DEF Scanning
    <3> QED
      BY <2>2, <3>1, <3>2
  <2> QED
    BY <1>1, <1>2, <1>4, <2>5 DEF find_tcb, Typed
<1>5. CASE LockFound
  <2>1. CASE UNCHANGED input
    BY <1>1, <1>2, <1>5, <2>1 DEF LockFound, Typed, Scanning
  <2>2. CASE input' = [input EXCEPT !.pc = "handle"] /\ input.match # None
    <3>1. input.pc = "found" /\ input.seg \in Datagrams /\ UNCHANGED utcp_fd_table
      BY <1>1, <1>5 DEF LockFound, Listening, Scanning
    <3>2. /\ input' \in Inputs /\ input'.pc = "handle" /\ input'.match = input.match
          /\ input'.seg = input.seg
      BY <1>1, <2>2 DEF Inputs
    <3>3. Scanning'
      BY <1>1, <2>2, <3>1, <3>2 DEF Scanning
    <3> QED
      BY <1>1, <1>2, <1>5, <3>3 DEF LockFound, Typed
  <2> QED
    BY <1>5, <2>1, <2>2 DEF LockFound
<1>6. CASE Handle
  <2> DEFINE m == input.seg
             k == input.match
             old == utcp_fd_table[k]
             t == handled(old, m)
  <2>1. m \in Datagrams /\ k \in Slots /\ old # None
    BY <1>1, <1>6 DEF Handle, Listening, Scanning, Inputs
  <2>2. old \in Tcbs /\ m.from \in Clients \cup Servers /\ m.dport \in Nat
    BY <1>1, <2>1 DEF Typed, Datagrams
  <2>3. t \in Tcbs
    <3>1. \/ t = old \/ t = [old EXCEPT !.state = "ESTABLISHED"]
          \/ t = [old EXCEPT !.state = "SYN_RECV", !.dst = m.from]
      BY DEF handled
    <3> HIDE DEF old, t, m
    <3> QED
      BY <2>2, <3>1, TcbChanged
  <2>4. /\ utcp_fd_table' = [utcp_fd_table EXCEPT ![k] = t]
        /\ net' = net \/ net' = net \cup {Datagram(m.from, m.dport, "ACK")}
        /\ input' = [pc |-> "recv", seg |-> None, i |-> 0, match |-> None]
        /\ UNCHANGED <<app, table_lock, ticker>>
    BY <1>6 DEF Handle
  <2> HIDE DEF t, m
  <2>5. net' \subseteq Datagrams
    BY <1>1, <2>2, <2>4 DEF Typed, Datagram, Datagrams
  <2>6. Scanning' /\ Locked'
    BY <1>1, <2>4 DEF Scanning, Inputs, Locked
  <2>7. /\ utcp_fd_table' \in [Slots -> Tcbs \cup {None}]
        /\ \A i \in Slots : utcp_fd_table'[i] = None <=> utcp_fd_table[i] = None
    BY <1>1, <2>1, <2>3, <2>4, SocketAssumption DEF Typed
  <2> QED
    BY <2>4, <2>5, <2>6, <2>7, ServiceStep
<1> QED
  BY <1>3, <1>4, <1>5, <1>6

\* The ticker, and a remote client.
LEMMA TickerInv ==
  ASSUME SocketInv, TickStart \/ TickLock \/ TickDone PROVE SocketInv'
<1>1. Typed /\ Scanning /\ Locked
  BY DEF SocketInv
<1>2. UNCHANGED <<app, utcp_fd_table, input, net>>
  BY DEF TickStart, TickLock, TickDone
<1>3. ASSUME NEW i, VisitFrom(i), \A b \in Apps : table_lock # b PROVE Locked'
  <2>1. \A b \in Apps : app'[b].pc \notin {"search", "alloc"}
    BY <1>1, <1>2, <1>3 DEF Locked
  <2>2. ticker'.pc \in {"visit", "locked"} => table_lock' = "ticker"
    BY <1>3 DEF VisitFrom
  <2> QED
    BY <2>1, <2>2 DEF Locked
<1>4. ASSUME TickStart PROVE Locked'
  BY <1>3, <1>4, SocketAssumption DEF TickStart
<1>5. ASSUME TickLock PROVE Locked'
  BY <1>1, <1>2, <1>5 DEF TickLock, Ticking, Locked
<1>6. ASSUME TickDone PROVE Locked'
  <2>1. table_lock = "ticker"
    BY <1>1, <1>6 DEF TickDone, Ticking, Locked
  <2> QED
    BY <1>3, <1>6, <2>1, SocketAssumption DEF TickDone
<1>7. Scanning' /\ Locked'
  BY <1>1, <1>2, <1>4, <1>5, <1>6 DEF Scanning
<1> QED
  BY <1>1, <1>2, <1>7, ServiceStep DEF Typed

LEMMA RemoteInv ==
  ASSUME SocketInv, NEW c \in Clients, NEW port \in Ports, RemoteConnect(c, port)
  PROVE  SocketInv'
<1>1. Typed /\ Scanning /\ Locked
  BY DEF SocketInv
<1>2. net' \subseteq Datagrams
  BY <1>1, SocketAssumption DEF RemoteConnect, Typed, Datagram, Datagrams
<1>3. Scanning' /\ Locked'
  BY <1>1 DEF RemoteConnect, Scanning, Locked
<1> QED
  BY <1>1, <1>2, <1>3, ServiceStep DEF RemoteConnect, Typed

-----------------------------------------------------------------------------
\* The inductive invariant of the socket table: who may search it, and that a
\* slot once taken stays taken.
THEOREM SocketInvariance == Spec => []SocketInv
<1>1. Init => SocketInv
  BY SocketInitInv
<1>2. SocketInv /\ [Next]_vars => SocketInv'
  <2> SUFFICES ASSUME SocketInv, [Next]_vars PROVE SocketInv'
    OBVIOUS
  <2>1. CASE UNCHANGED vars
    BY <2>1 DEF vars, SocketInv, Typed, Scanning, Locked, Slotted, FdsDistinct
  <2> QED
    BY <2>1, AppInv, InputInv, TickerInv, RemoteInv DEF Next
<1> QED
  BY <1>1, <1>2, PTL DEF Spec

\* utcp_socket never hands out a descriptor twice, for any number of threads and
\* slots: the search and the publication of the TCB are under utcp_table_lock.
THEOREM DescriptorsDistinct == Spec => []FdsDistinct
<1>1. SocketInv => FdsDistinct
  BY DEF SocketInv
<1> QED
  BY <1>1, SocketInvariance, PTL
-----------------------------------------------------------------------------
\* Datagrams reach the socket they are meant for

\* Datagrams that are not handled yet.
in_flight == net \cup ({input.seg} \ {None})

\* A socket that is not connected has no peer, and its owner has not gone past
\* utcp_bind without leaving CLOSED.
Unconnected ==
  /\ \A i \in Slots : utcp_fd_table[i] # None /\ utcp_fd_table[i].state \in {"CLOSED", "LISTEN"}
                        => utcp_fd_table[i].dst = None
  /\ \A a \in Apps : app[a].pc \in {"bind", "ready", "connect"}
                        => utcp_fd_table[app[a].fd].state = "CLOSED"

PkgTyped == pkg \in [utcp_initialized : BOOLEAN, bound : BOOLEAN]

\* The package is started once, before the listen thread has a datagram.
Started ==
  /\ \A a \in Apps : app[a].pc = "bound" => pkg.bound /\ input.pc = "off"
  /\ \A a, b \in Apps : app[a].pc = "bound" /\ app[b].pc = "bound" => a = b
  /\ (~pkg.bound => input.pc = "off") /\ PkgTyped
  /\ input.pc \in {"off", "recv"} => input.seg = None /\ input.match = None

\* An answer has a socket that it is meant for.
Answers ==
  \A m \in in_flight : m.flags # "SYN" =>
    \E i \in Slots : utcp_fd_table[i] # None /\ four_tuple(utcp_fd_table[i], m)

\* A SYN is the only one of its client, which no socket is connected to.
Syns ==
  /\ \A m \in in_flight : m.flags = "SYN" =>
       /\ m.from \in calls /\ m.from \in Clients /\ m.dport \in Ports
       /\ \A i \in Slots : utcp_fd_table[i] # None => utcp_fd_table[i].dst # m.from
  /\ \A m, n \in in_flight : m.flags = "SYN" /\ n.flags = "SYN" /\ m.from = n.from => m = n
  /\ input.seg # None /\ input.seg.flags = "SYN" => input.seg \notin net
  /\ \A i \in Slots : utcp_fd_table[i] # None /\ utcp_fd_table[i].dst \in Clients
                        => utcp_fd_table[i].dst \in calls

\* The scan of an answer has found its socket or has it before it.
AnswerFound ==
  input.pc \in {"scan", "found", "handle"} /\ input.seg.flags # "SYN" =>
    IF input.pc = "scan"
      THEN \E j \in Slots : /\ j >= input.i /\ utcp_fd_table[j] # None
                            /\ four_tuple(utcp_fd_table[j], input.seg)
      ELSE input.match # None /\ four_tuple(utcp_fd_table[input.match], input.seg)

\* So has the scan of a SYN, if there is a listener for each SYN.
SynFound ==
  input.pc \in {"scan", "found", "handle"} /\ input.seg.flags = "SYN" =>
    /\ input.match # None => listens(utcp_fd_table[input.match], input.seg)
    /\ input.match = None /\ ~surplus =>
         /\ input.pc = "scan"
         /\ \E j \in Slots : /\ j >= input.i /\ utcp_fd_table[j] # None
                             /\ listens(utcp_fd_table[j], input.seg)

Quota ==
  /\ IsFiniteSet(net)
  /\ ~surplus => \A port \in Ports : Cardinality(pending(port)) <= Cardinality(listeners(port))

Meant == Unconnected /\ Started /\ Answers /\ Syns /\ AnswerFound /\ SynFound /\ Quota /\ Survives

\* How the application threads change the table: a socket that has left CLOSED
\* stays as it is, and a new peer is a server.
Grown ==
  \A i \in Slots :
    /\ utcp_fd_table[i] # None /\ utcp_fd_table[i].state # "CLOSED"
         => utcp_fd_table'[i] = utcp_fd_table[i]
    /\ utcp_fd_table'[i] # None
         => utcp_fd_table'[i] = utcp_fd_table[i] \/ utcp_fd_table'[i].dst \in Servers \cup {None}

\* A step of an owner that changes its own TCB, which is still CLOSED.
LEMMA OwnerGrows ==
  ASSUME SocketInv, Unconnected, NEW a \in Apps,
         app[a].pc \in {"bind", "ready", "connect"}, NEW tcb \in Tcbs,
         utcp_fd_table' = [utcp_fd_table EXCEPT ![app[a].fd] = tcb],
         tcb.dst \in Servers \cup {None}, tcb.state \in {"CLOSED", "LISTEN"} => tcb.dst = None,
         NEW pc, Goto(a, pc), pc \in {"bind", "ready", "connect"} => tcb.state = "CLOSED"
  PROVE  Grown /\ Unconnected'
<1> DEFINE k == app[a].fd
<1>1. /\ Typed /\ FdsDistinct /\ k \in Slots /\ utcp_fd_table[k] # None
      /\ utcp_fd_table[k].state = "CLOSED"
  BY DEF SocketInv, Typed, Slotted, Owning, Unconnected
<1>2. /\ utcp_fd_table'[k] = tcb /\ tcb # None
      /\ \A i \in Slots : i # k => utcp_fd_table'[i] = utcp_fd_table[i]
  BY <1>1, SocketAssumption DEF Typed
<1>3. Grown
  BY <1>1, <1>2 DEF Grown
<1>4. /\ app'[a].pc = pc /\ app'[a].fd = k
      /\ \A b \in Apps : b # a => app'[b] = app[b]
  BY <1>1 DEF Typed, Goto
<1>5. ASSUME NEW b \in Apps, b # a, app[b].pc \in {"bind", "ready", "connect"}
      PROVE  app[b].fd # k /\ app[b].fd \in Slots
  BY <1>1, <1>5 DEF FdsDistinct, Typed
<1>6. \A b \in Apps : app'[b].pc \in {"bind", "ready", "connect"}
                        => utcp_fd_table'[app'[b].fd].state = "CLOSED"
  <2> SUFFICES ASSUME NEW b \in Apps, app'[b].pc \in {"bind", "ready", "connect"}
               PROVE  utcp_fd_table'[app'[b].fd].state = "CLOSED"
    OBVIOUS
  <2>1. CASE b = a
    BY <1>2, <1>4, <2>1
  <2>2. CASE b # a
    BY <1>2, <1>4, <1>5, <2>2 DEF Unconnected
  <2> QED
    BY <2>1, <2>2
<1>7. \A i \in Slots : utcp_fd_table'[i] # None /\ utcp_fd_table'[i].state \in {"CLOSED", "LISTEN"}
                        => utcp_fd_table'[i].dst = None
  BY <1>2 DEF Unconnected
<1> QED
  BY <1>3, <1>6, <1>7 DEF Unconnected

\* What a step of an application thread leaves of the rest.
Beside ==
  /\ UNCHANGED <<calls, surplus>> /\ up' \in {up, "exited"}
  /\ \/ net' = net
     \/ \E m \in Datagrams : /\ m.flags = "SYN-ACK" /\ net' = net \cup {m}
                             /\ \E i \in Slots : /\ utcp_fd_table'[i] # None
                                                 /\ four_tuple(utcp_fd_table'[i], m)
  /\ input' = input \/ (input.pc = "off" /\ input' = [input EXCEPT !.pc = "recv"])

\* A step that leaves the table alone.
LEMMA SameTable ==
  ASSUME SocketInv, Unconnected, Started, NEW a \in Apps, UNCHANGED utcp_fd_table,
         app' = app \/ (\E pc : Goto(a, pc) /\ (pc \in {"bind", "ready", "connect"}
                                                 => pc = "connect" /\ app[a].pc = "ready"))
                    \/ \E k : app' = [app EXCEPT ![a] = [pc |-> "alloc", fd |-> k]]
  PROVE  Grown /\ Unconnected'
<1>1. Typed
  BY DEF SocketInv
<1>2. \A b \in Apps : app'[b].pc \in {"bind", "ready", "connect"}
         => app'[b].fd = app[b].fd /\ app[b].pc \in {"bind", "ready", "connect"}
  <2>1. CASE app' = app
    BY <2>1
  <2>2. ASSUME NEW pc, Goto(a, pc), pc \in {"bind", "ready", "connect"}
                                      => pc = "connect" /\ app[a].pc = "ready"
        PROVE  \A b \in Apps : app'[b].pc \in {"bind", "ready", "connect"}
                 => app'[b].fd = app[b].fd /\ app[b].pc \in {"bind", "ready", "connect"}
    <3>1. /\ app'[a].pc = pc /\ app'[a].fd = app[a].fd
          /\ \A b \in Apps : b # a => app'[b] = app[b]
      BY <1>1, <2>2 DEF Typed, Goto
    <3> QED
      BY <2>2, <3>1
  <2>3. ASSUME NEW k, app' = [app EXCEPT ![a] = [pc |-> "alloc", fd |-> k]]
        PROVE  \A b \in Apps : app'[b].pc \in {"bind", "ready", "connect"}
                 => app'[b].fd = app[b].fd /\ app[b].pc \in {"bind", "ready", "connect"}
    BY <1>1, <2>3 DEF Typed
  <2> QED
    BY <2>1, <2>2, <2>3
<1> QED
  BY <1>2 DEF Grown, Unconnected

\* An application thread.
LEMMA AppGrows ==
  ASSUME SocketInv, Meant, NEW a \in Apps, AppStep(a) \/ AppLock(a)
  PROVE  Grown /\ Unconnected' /\ Started' /\ Beside
<1>1. Typed /\ Slotted /\ Scanning /\ Unconnected /\ Started
  BY DEF SocketInv, Meant
<1>2. ASSUME NEW pc, Goto(a, pc)
      PROVE  app'[a].pc = pc /\ \A b \in Apps : b # a => app'[b] = app[b]
  BY <1>1, <1>2 DEF Typed, Goto
<1>3. ASSUME NEW pc, Goto(a, pc), pc # "bound", UNCHANGED <<pkg, input>> PROVE Started'
  BY <1>1, <1>2, <1>3 DEF Started, PkgTyped
<1>4. CASE \/ ReadFlag(a) \/ LockTable(a) \/ wait_until_established(a) \/ UnlockTcb(a)
           \/ LockTcb(a, "ready", "connect") \/ LockTcb(a, "open", "busy")
  <2>1. PICK pc : Goto(a, pc) /\ pc \notin {"bind", "bound", "ready"}
                  /\ (pc = "connect" => app[a].pc = "ready")
    BY <1>4 DEF ReadFlag, LockTable, wait_until_established, UnlockTcb, LockTcb, At
  <2>2. UNCHANGED <<pkg, utcp_fd_table, input, net, calls, surplus, up>>
    BY <1>4 DEF ReadFlag, LockTable, wait_until_established, UnlockTcb, LockTcb
  <2> QED
    BY <1>1, <1>3, <2>1, <2>2, SameTable DEF Beside
<1>5. CASE BindUdp(a)
  <2>1. UNCHANGED <<utcp_fd_table, input, net, calls, surplus>> /\ up' \in {up, "exited"}
    BY <1>5 DEF BindUdp
  <2>2. Beside
    BY <2>1 DEF Beside
  <2>3. CASE pkg.bound
    <3>1. UNCHANGED <<pkg, app>>
      BY <1>5, <2>3 DEF BindUdp
    <3> QED
      BY <1>1, <2>1, <2>2, <3>1, SameTable DEF Started, PkgTyped
  <2>4. CASE ~pkg.bound
    <3>1. Goto(a, "bound") /\ pkg' = [pkg EXCEPT !.bound = TRUE]
      BY <1>5, <2>4 DEF BindUdp
    <3>2. input.pc = "off" /\ \A b \in Apps : app[b].pc # "bound"
      BY <1>1, <2>4 DEF Started
    <3>3. pkg'.bound
      BY <1>1, <3>1 DEF PkgTyped, Started
    <3>4. Started'
      BY <1>1, <1>2, <2>1, <3>1, <3>2, <3>3 DEF Started, PkgTyped
    <3> QED
      BY <1>1, <2>1, <2>2, <3>1, <3>4, SameTable
  <2> QED
    BY <2>3, <2>4
<1>6. CASE StartThreads(a)
  <2>1. /\ app[a].pc = "bound" /\ Goto(a, "socket") /\ pkg'.bound = pkg.bound
        /\ input' = [input EXCEPT !.pc = "recv"]
        /\ UNCHANGED <<utcp_fd_table, net, calls, surplus, up>>
    BY <1>1, <1>6 DEF StartThreads, At, Started, PkgTyped
  <2>2. pkg.bound /\ input.pc = "off" /\ input.seg = None /\ input.match = None
    BY <1>1, <2>1 DEF Started
  <2>3. input'.pc = "recv" /\ input'.seg = None /\ input'.match = None
    BY <1>1, <2>1, <2>2 DEF Scanning, Inputs
  <2>4. \A b \in Apps : app'[b].pc # "bound"
    BY <1>1, <1>2, <2>1 DEF Started
  <2>5. PkgTyped'
    BY <1>1, <1>6 DEF Started, PkgTyped, StartThreads
  <2>6. Started'
    BY <1>1, <2>1, <2>2, <2>3, <2>4, <2>5 DEF Started
  <2> QED
    BY <1>1, <2>1, <2>2, <2>6, SameTable DEF Beside
<1>7. CASE FindSlot(a)
  <2>1. /\ UNCHANGED <<pkg, utcp_fd_table, input, net, calls, surplus>> /\ up' \in {up, "exited"}
        /\ app' = app \/ \E k : app' = [app EXCEPT ![a] = [pc |-> "alloc", fd |-> k]]
    BY <1>7 DEF FindSlot
  <2>2. \A b \in Apps : app'[b].pc = "bound" => app[b].pc = "bound"
    BY <1>1, <2>1 DEF Typed
  <2>3. Started'
    BY <1>1, <2>1, <2>2 DEF Started, PkgTyped
  <2> QED
    BY <1>1, <2>1, <2>3, SameTable DEF Beside
<1>8. CASE Publish(a)
  <2> DEFINE k == app[a].fd
  <2>1. /\ app[a].pc = "alloc" /\ Goto(a, "bind") /\ k \in Slots /\ utcp_fd_table[k] = None
        /\ utcp_fd_table' = [utcp_fd_table EXCEPT ![k] = NewTcb]
        /\ UNCHANGED <<pkg, input, net, calls, surplus, up>>
    BY <1>1, <1>8 DEF Publish, At, Typed, Slotted
  <2>2. /\ utcp_fd_table'[k] = NewTcb /\ NewTcb.state = "CLOSED" /\ NewTcb.dst = None
        /\ \A i \in Slots : i # k => utcp_fd_table'[i] = utcp_fd_table[i]
    BY <1>1, <2>1 DEF Typed, NewTcb
  <2>3. Grown
    BY <2>1, <2>2 DEF Grown
  <2>4. app'[a].fd = k /\ \A b \in Apps : b # a => app'[b] = app[b]
    BY <1>1, <2>1 DEF Typed, Goto
  <2>5. \A b \in Apps : app[b].pc \in {"bind", "ready", "connect"}
                          => app[b].fd # k /\ app[b].fd \in Slots
    BY <1>1, <2>1 DEF Slotted, Owning, Typed
  <2>6. \A b \in Apps : app'[b].pc \in {"bind", "ready", "connect"}
                          => utcp_fd_table'[app'[b].fd].state = "CLOSED"
    <3> SUFFICES ASSUME NEW b \in Apps, app'[b].pc \in {"bind", "ready", "connect"}
                 PROVE  utcp_fd_table'[app'[b].fd].state = "CLOSED"
      OBVIOUS
    <3>1. CASE b = a
      BY <2>2, <2>4, <3>1
    <3>2. CASE b # a
      BY <1>1, <2>2, <2>4, <2>5, <3>2 DEF Unconnected
    <3> QED
      BY <3>1, <3>2
  <2>7. Unconnected'
    BY <1>1, <2>2, <2>6 DEF Unconnected
  <2> QED
    BY <1>3, <2>1, <2>3, <2>7 DEF Beside
<1> DEFINE old == utcp_fd_table[app[a].fd]
<1>9. ASSUME app[a].pc \in {"bind", "ready", "connect"}
      PROVE  /\ app[a].fd \in Slots /\ old \in Tcbs /\ old.state = "CLOSED" /\ old.dst = None
             /\ old # None
  BY <1>1, <1>9 DEF Typed, Slotted, Owning, Unconnected
<1>10. ASSUME NEW port \in Ports, utcp_bind(a, port)
       PROVE  Grown /\ Unconnected' /\ Started' /\ Beside
  <2> DEFINE tcb == [old EXCEPT !.src_port = port]
  <2>1. /\ app[a].pc = "bind" /\ Goto(a, "ready") /\ port \in Nat
        /\ utcp_fd_table' = [utcp_fd_table EXCEPT ![app[a].fd] = tcb]
        /\ UNCHANGED <<pkg, input, net, calls, surplus, up>>
    BY <1>10, SocketAssumption DEF utcp_bind, At
  <2>2. tcb \in Tcbs /\ tcb.state = "CLOSED" /\ tcb.dst = None
    BY <1>9, <2>1 DEF Tcbs
  <2> HIDE DEF tcb, old
  <2> QED
    BY <1>1, <1>3, <2>1, <2>2, OwnerGrows DEF Beside
<1>11. ASSUME utcp_listen(a) PROVE Grown /\ Unconnected' /\ Started' /\ Beside
  <2> DEFINE tcb == [old EXCEPT !.state = "LISTEN"]
  <2>1. /\ app[a].pc = "ready" /\ Goto(a, "wait")
        /\ utcp_fd_table' = [utcp_fd_table EXCEPT ![app[a].fd] = tcb]
        /\ UNCHANGED <<pkg, input, net, calls, surplus, up>>
    BY <1>11 DEF utcp_listen, At
  <2>2. tcb \in Tcbs /\ tcb.dst = None
    BY <1>9, <2>1 DEF Tcbs
  <2> HIDE DEF tcb, old
  <2> QED
    BY <1>1, <1>3, <2>1, <2>2, OwnerGrows DEF Beside
<1>12. ASSUME NEW dst \in Servers, Connect(a, dst)
       PROVE  Grown /\ Unconnected' /\ Started' /\ Beside
  <2> DEFINE tcb == [old EXCEPT !.state = "SYN_SENT", !.dst = dst]
             m == Datagram(dst, old.src_port, "SYN-ACK")
  <2>1. /\ app[a].pc = "connect" /\ Goto(a, "wait") /\ net' = net \cup {m}
        /\ utcp_fd_table' = [utcp_fd_table EXCEPT ![app[a].fd].dst = dst,
                                                  ![app[a].fd].state = "SYN_SENT"]
        /\ UNCHANGED <<pkg, input, calls, surplus, up>>
    BY <1>12 DEF Connect, SendSyn, At
  <2>2. /\ tcb \in Tcbs /\ tcb.dst = dst /\ tcb.state = "SYN_SENT" /\ tcb # None
        /\ tcb.src_port = old.src_port
    BY <1>9, <2>1, SocketAssumption DEF Tcbs
  <2>3. utcp_fd_table' = [utcp_fd_table EXCEPT ![app[a].fd] = tcb]
    BY <1>1, <1>9, <2>1, <2>2 DEF Typed, Tcbs
  <2>4. /\ m \in Datagrams /\ m.flags = "SYN-ACK" /\ utcp_fd_table'[app[a].fd] = tcb
        /\ four_tuple(tcb, m)
    BY <1>1, <1>9, <2>1, <2>2, <2>3 DEF Datagram, Datagrams, Tcbs, four_tuple, Typed
  <2> HIDE DEF tcb, old, m
  <2>5. Grown /\ Unconnected'
    BY <1>1, <2>1, <2>2, <2>3, OwnerGrows
  <2>6. Beside
    BY <1>9, <2>1, <2>2, <2>4 DEF Beside
  <2> QED
    BY <1>3, <2>1, <2>5, <2>6
<1> QED
  BY <1>4, <1>5, <1>6, <1>7, <1>8, <1>10, <1>11, <1>12 DEF AppStep, AppLock

-----------------------------------------------------------------------------
\* The slots are finitely many.
LEMMA SlotSets ==
  ASSUME NEW S \in SUBSET Slots, NEW T \in SUBSET S
  PROVE  /\ IsFiniteSet(S) /\ Cardinality(S) \in Nat /\ Cardinality(T) \in Nat
         /\ Cardinality(T) <= Cardinality(S)
<1>1. IsFiniteSet(Slots)
  <2>1. 0 \in Int /\ MAX_UTCP_SOCKETS - 1 \in Int
    BY SocketAssumption
  <2> QED
    BY <2>1, FS_Interval DEF Slots
<1>2. IsFiniteSet(S)
  BY <1>1, FS_Subset
<1>3. IsFiniteSet(T) /\ Cardinality(T) <= Cardinality(S)
  BY <1>2, FS_Subset
<1> QED
  BY <1>2, <1>3, FS_CardinalityType

\* So are the SYNs for a port, when net is finite.
LEMMA FewerSyns ==
  ASSUME NEW N, IsFiniteSet(N), NEW x, NEW S \in SUBSET (N \cup {x}), NEW T \in SUBSET S
  PROVE  /\ IsFiniteSet(S) /\ Cardinality(S) \in Nat /\ Cardinality(T) \in Nat
         /\ Cardinality(T) <= Cardinality(S)
<1>1. IsFiniteSet(N \cup {x})
  BY FS_AddElement
<1>2. IsFiniteSet(S)
  BY <1>1, FS_Subset
<1>3. IsFiniteSet(T) /\ Cardinality(T) <= Cardinality(S)
  BY <1>2, FS_Subset
<1> QED
  BY <1>2, <1>3, FS_CardinalityType

\* The quota is kept when no SYN comes and no listener goes.
LEMMA QuotaKept ==
  ASSUME Quota, IsFiniteSet(net'), surplus' = surplus,
         \A port \in Ports : /\ pending(port)' \subseteq pending(port)
                             /\ listeners(port) \subseteq listeners(port)'
  PROVE  Quota'
<1> SUFFICES ASSUME ~surplus, NEW port \in Ports
             PROVE  Cardinality(pending(port)') <= Cardinality(listeners(port)')
  BY DEF Quota
<1> DEFINE P1 == pending(port)
           P2 == pending(port)'
           L1 == listeners(port)
           L2 == listeners(port)'
<1>1. /\ P1 \subseteq net \cup {input.seg} /\ P2 \subseteq P1 /\ L1 \subseteq L2
      /\ L2 \subseteq Slots /\ Cardinality(P1) <= Cardinality(L1) /\ IsFiniteSet(net)
  BY DEF Quota, pending, listeners
<1> HIDE DEF P1, P2, L1, L2
<1>2. Cardinality(P1) \in Nat /\ Cardinality(P2) \in Nat /\ Cardinality(P2) <= Cardinality(P1)
  BY <1>1, FewerSyns
<1>3. Cardinality(L1) \in Nat /\ Cardinality(L2) \in Nat /\ Cardinality(L1) <= Cardinality(L2)
  BY <1>1, SlotSets
<1>4. Cardinality(P2) <= Cardinality(L2)
  BY <1>1, <1>2, <1>3
<1> QED
  BY <1>4 DEF P2, L2

\* A step of an application thread or of the ticker.
LEMMA GrownMeant ==
  ASSUME SocketInv, SocketInv', Meant, Grown, Unconnected', Started', Beside
  PROVE  Meant'
<1>1. /\ Typed /\ Typed' /\ Scanning /\ Unconnected /\ Started /\ Answers /\ Syns
      /\ AnswerFound /\ SynFound /\ Quota /\ Survives
  BY DEF SocketInv, Meant
<1>2. /\ \A i \in Slots : utcp_fd_table[i] # None /\ utcp_fd_table[i].dst # None
                             => utcp_fd_table'[i] = utcp_fd_table[i]
      /\ \A i \in Slots : utcp_fd_table[i] # None /\ utcp_fd_table[i].state = "LISTEN"
                             => utcp_fd_table'[i] = utcp_fd_table[i]
  <2>1. \A i \in Slots : utcp_fd_table[i] # None /\ utcp_fd_table[i].dst # None
                           => utcp_fd_table[i].state # "CLOSED"
    BY <1>1 DEF Unconnected
  <2> QED
    BY <2>1 DEF Grown
<1>3. in_flight \subseteq Datagrams /\ \A m \in Datagrams : m.from # None /\ m # None
  BY <1>1, SocketAssumption DEF in_flight, Typed, Scanning, Inputs, Datagrams
<1>4. \A i \in Slots : \A m \in Datagrams :
        utcp_fd_table[i] # None /\ (four_tuple(utcp_fd_table[i], m) \/ listens(utcp_fd_table[i], m))
          => utcp_fd_table'[i] = utcp_fd_table[i]
  BY <1>2, <1>3 DEF four_tuple, listens
<1>5. /\ input'.seg = input.seg /\ input'.match = input.match /\ input'.i = input.i
      /\ input'.pc = input.pc \/ input'.pc = "recv"
  BY <1>1 DEF Beside, Scanning, Inputs
<1>6. /\ net \subseteq net' /\ \A m \in net' : m.flags = "SYN" => m \in net
      /\ \A m \in net' \ net : \E i \in Slots : /\ utcp_fd_table'[i] # None
                                                /\ four_tuple(utcp_fd_table'[i], m)
  BY DEF Beside
<1>7. Answers'
  <2> SUFFICES ASSUME NEW m \in in_flight', m.flags # "SYN"
               PROVE  \E i \in Slots : utcp_fd_table'[i] # None /\ four_tuple(utcp_fd_table'[i], m)
    BY DEF Answers
  <2>1. CASE m \in net' \ net
    BY <1>6, <2>1
  <2>2. CASE m \in in_flight
    BY <1>1, <1>3, <1>4, <2>2 DEF Answers
  <2> QED
    BY <1>5, <2>1, <2>2 DEF in_flight
<1>8. Syns'
  <2>1. \A m \in in_flight' : m.flags = "SYN" => m \in in_flight
    BY <1>5, <1>6 DEF in_flight
  <2>2. ASSUME NEW m \in in_flight', m.flags = "SYN", NEW i \in Slots, utcp_fd_table'[i] # None
        PROVE  utcp_fd_table'[i].dst # m.from
    <3>1. m \in in_flight /\ m.from \in Clients /\ m.from \notin Servers /\ m.from # None
      BY <1>1, <2>1, <2>2, SocketAssumption DEF Syns
    <3> QED
      BY <1>1, <2>2, <3>1 DEF Syns, Grown
  <2>3. \A i \in Slots : utcp_fd_table'[i] # None /\ utcp_fd_table'[i].dst \in Clients
                           => utcp_fd_table'[i].dst \in calls'
    BY <1>1, SocketAssumption DEF Syns, Grown, Beside
  <2>4. input'.seg # None /\ input'.seg.flags = "SYN" => input'.seg \notin net'
    BY <1>1, <1>5, <1>6 DEF Syns
  <2>5. \A m \in in_flight' : m.flags = "SYN" =>
          m.from \in calls' /\ m.from \in Clients /\ m.dport \in Ports
    BY <1>1, <2>1 DEF Syns, Beside
  <2>6. \A m, n \in in_flight' : m.flags = "SYN" /\ n.flags = "SYN" /\ m.from = n.from => m = n
    BY <1>1, <2>1 DEF Syns
  <2> QED
    BY <2>2, <2>3, <2>4, <2>5, <2>6 DEF Syns
<1>9. AnswerFound' /\ SynFound'
  <2> SUFFICES ASSUME input'.pc \in {"scan", "found", "handle"} PROVE AnswerFound' /\ SynFound'
    BY DEF AnswerFound, SynFound
  <2>1. input'.pc = input.pc /\ input.seg \in Datagrams
    BY <1>1, <1>5 DEF Scanning
  <2>2. input.match # None => input.match \in Slots /\ utcp_fd_table[input.match] # None
    BY <1>1 DEF Scanning, Inputs
  <2>3. AnswerFound'
    BY <1>1, <1>4, <1>5, <2>1, <2>2 DEF AnswerFound
  <2>4. SynFound'
    BY <1>1, <1>4, <1>5, <2>1, <2>2 DEF SynFound, Beside
  <2> QED
    BY <2>3, <2>4
<1>10. Quota'
  <2>1. IsFiniteSet(net')
    BY <1>1, FS_AddElement DEF Quota, Beside
  <2>2. ASSUME NEW port \in Ports PROVE pending(port)' \subseteq pending(port)
    BY <1>5, <1>6 DEF pending
  <2>3. ASSUME NEW port \in Ports PROVE listeners(port) \subseteq listeners(port)'
    BY <1>2 DEF listeners, free_slots
  <2> QED
    BY <1>1, <2>1, <2>2, <2>3, QuotaKept DEF Beside
<1>11. Survives'
  BY <1>1 DEF Survives, Beside
<1> QED
  BY <1>7, <1>8, <1>9, <1>10, <1>11 DEF Meant

\* The listen thread takes a datagram from the socket: what it is meant for is
\* in the table already.
LEMMA RecvfromMeant ==
  ASSUME SocketInv, Meant, Recvfrom PROVE Meant'
<1>1. /\ Typed /\ Unconnected /\ Started /\ Answers /\ Syns /\ Quota /\ Survives
  BY DEF SocketInv, Meant
<1>2. PICK m \in net : /\ net' = net \ {m}
                       /\ input' = [pc |-> "scan", seg |-> m, i |-> 0, match |-> None]
  BY DEF Recvfrom
<1>3. /\ input.seg = None /\ m \in Datagrams /\ m # None
      /\ input'.pc = "scan" /\ input'.seg = m /\ input'.i = 0 /\ input'.match = None
      /\ pkg.bound
  BY <1>1, <1>2, SocketAssumption DEF Recvfrom, Listening, Started, Typed
<1>4. UNCHANGED <<pkg, utcp_fd_table, app, calls, surplus, up>>
  BY DEF Recvfrom
<1>5. in_flight' = in_flight /\ m \in in_flight
  BY <1>2, <1>3 DEF in_flight
<1>6. Unconnected' /\ Survives' /\ Answers'
  BY <1>1, <1>4, <1>5 DEF Unconnected, Survives, Answers
<1>7. Started'
  <2>1. \A a \in Apps : app[a].pc # "bound"
    BY <1>1 DEF Started, Recvfrom, Listening
  <2> QED
    BY <1>1, <1>3, <1>4, <2>1 DEF Started, PkgTyped
<1>8. Syns'
  BY <1>1, <1>2, <1>3, <1>4, <1>5 DEF Syns
<1>9. AnswerFound'
  <2> SUFFICES ASSUME m.flags # "SYN"
               PROVE  \E j \in Slots : /\ j >= 0 /\ utcp_fd_table[j] # None
                                       /\ four_tuple(utcp_fd_table[j], m)
    BY <1>3, <1>4 DEF AnswerFound
  <2>1. PICK j \in Slots : utcp_fd_table[j] # None /\ four_tuple(utcp_fd_table[j], m)
    BY <1>1, <1>5 DEF Answers
  <2>2. j >= 0
    BY SocketAssumption DEF Slots
  <2> QED
    BY <2>1, <2>2
<1>10. \A port \in Ports : pending(port)' = pending(port) /\ listeners(port)' = listeners(port)
  BY <1>2, <1>3, <1>4 DEF pending, listeners, free_slots
<1>11. Quota'
  <2>1. IsFiniteSet(net')
    BY <1>1, <1>2, FS_RemoveElement DEF Quota
  <2> QED
    BY <1>1, <1>4, <1>10, <2>1, QuotaKept
<1>12. SynFound'
  <2> SUFFICES ASSUME m.flags = "SYN", ~surplus
               PROVE  \E j \in Slots : /\ j >= 0 /\ utcp_fd_table[j] # None
                                       /\ listens(utcp_fd_table[j], m)
    BY <1>3, <1>4 DEF SynFound
  <2> DEFINE P == pending(m.dport)
             L == listeners(m.dport)
  <2>1. m \in P /\ P \subseteq net \cup {input.seg} /\ L \subseteq Slots
    BY <1>2, <1>3 DEF pending, listeners
  <2>2. Cardinality(P) <= Cardinality(L)
    BY <1>1, <1>5 DEF Quota, Syns
  <2> HIDE DEF P, L
  <2>3. IsFiniteSet(P) /\ Cardinality(P) \in Nat /\ Cardinality(P) # 0
    <3>1. IsFiniteSet(P) /\ Cardinality(P) \in Nat
      BY <1>1, <2>1, FewerSyns DEF Quota
    <3> QED
      BY <2>1, <3>1, FS_EmptySet
  <2>4. L # {}
    <3>1. Cardinality(L) \in Nat
      BY <2>1, SlotSets
    <3> QED
      BY <2>2, <2>3, <3>1, FS_EmptySet
  <2>5. PICK j : j \in L
    BY <2>4
  <2>6. j \in Slots /\ utcp_fd_table[j] # None /\ listens(utcp_fd_table[j], m) /\ j >= 0
    BY <2>5, SocketAssumption DEF L, listeners, free_slots, listens, Slots
  <2> QED
    BY <2>6
<1> QED
  BY <1>6, <1>7, <1>8, <1>9, <1>11, <1>12 DEF Meant

\* A step of the scan passes no socket that the datagram is meant for.
LEMMA FindMeant ==
  ASSUME SocketInv, Meant, find_tcb PROVE Meant'
<1> DEFINE i == input.i
           m == input.seg
           tcb == utcp_fd_table[i]
<1>1. /\ Typed /\ Scanning /\ Unconnected /\ Started /\ Answers /\ Syns /\ AnswerFound /\ SynFound
      /\ Quota /\ Survives
  BY DEF SocketInv, Meant
<1>2. /\ input.pc = "scan" /\ i \in Slots /\ m \in Datagrams /\ m # None /\ i \in Nat
      /\ UNCHANGED <<pkg, utcp_fd_table, app, net, calls, surplus, up>>
  BY <1>1, SocketAssumption DEF find_tcb, Listening, Scanning, Slots
<1>3. PICK k \in {input.match, i} :
        \/ /\ input' = scan_on(i, k)
           /\ tcb # None => ~four_tuple(tcb, m)
           /\ IF tcb # None /\ listens(tcb, m) THEN k = i ELSE k = input.match
        \/ /\ input' = [input EXCEPT !.pc = "found", !.match = i]
           /\ tcb # None /\ four_tuple(tcb, m)
  BY DEF find_tcb, scanned
<1>4. /\ input'.seg = m /\ input'.pc \in {"scan", "found"}
      /\ input' = scan_on(i, k) => /\ input'.match = k /\ input'.i = i + 1
                                   /\ input'.pc = IF i + 1 < MAX_UTCP_SOCKETS THEN "scan" ELSE "found"
      /\ input' = [input EXCEPT !.pc = "found", !.match = i] => input'.match = i /\ input'.pc = "found"
  BY <1>1, <1>3 DEF scan_on, Scanning, Inputs
<1>5. in_flight' = in_flight /\ m \in in_flight
  BY <1>2, <1>4 DEF in_flight
<1>6. Unconnected' /\ Survives' /\ Answers' /\ Syns'
  BY <1>1, <1>2, <1>4, <1>5 DEF Unconnected, Survives, Answers, Syns
<1>7. Started'
  <2>1. pkg.bound /\ \A a \in Apps : app[a].pc # "bound"
    BY <1>1, <1>2 DEF Started
  <2> QED
    BY <1>1, <1>2, <1>4, <2>1 DEF Started, PkgTyped
<1>8. Quota'
  <2>1. \A port \in Ports : pending(port)' = pending(port) /\ listeners(port)' = listeners(port)
    BY <1>2, <1>4 DEF pending, listeners, free_slots
  <2>2. IsFiniteSet(net')
    BY <1>1, <1>2 DEF Quota
  <2> QED
    BY <1>1, <1>2, <2>1, <2>2, QuotaKept
<1>9. \A j \in Slots : j >= i /\ j # i => j >= i + 1 /\ i + 1 < MAX_UTCP_SOCKETS
  BY <1>2, SocketAssumption DEF Slots
<1>10. AnswerFound'
  <2> SUFFICES ASSUME m.flags # "SYN" PROVE AnswerFound'
    BY <1>4 DEF AnswerFound
  <2>1. PICK j \in Slots : /\ j >= i /\ utcp_fd_table[j] # None
                           /\ four_tuple(utcp_fd_table[j], m)
    BY <1>1, <1>2 DEF AnswerFound
  <2>2. CASE input' = scan_on(i, k) /\ (tcb # None => ~four_tuple(tcb, m))
    <3>1. j # i
      BY <2>1, <2>2
    <3>2. j >= i + 1 /\ input'.pc = "scan" /\ input'.i = i + 1
      BY <1>4, <1>9, <2>1, <2>2, <3>1
    <3> QED
      BY <1>2, <1>4, <2>1, <3>2 DEF AnswerFound
  <2>3. CASE /\ input' = [input EXCEPT !.pc = "found", !.match = i]
             /\ tcb # None /\ four_tuple(tcb, m)
    <3>1. input'.pc = "found" /\ input'.match = i /\ i # None
      BY <1>1, <1>2, <1>4, <2>3, SocketAssumption
    <3> QED
      BY <1>2, <1>4, <2>3, <3>1 DEF AnswerFound
  <2> QED
    BY <1>3, <2>2, <2>3
<1>11. SynFound'
  <2> SUFFICES ASSUME m.flags = "SYN" PROVE SynFound'
    BY <1>4 DEF SynFound
  <2>1. tcb # None => ~four_tuple(tcb, m)
    BY <1>1, <1>2, <1>5 DEF Syns, four_tuple
  <2>2. input' = scan_on(i, k) /\ IF tcb # None /\ listens(tcb, m) THEN k = i ELSE k = input.match
    BY <1>3, <2>1
  <2>3. input'.match = k /\ input'.i = i + 1
    BY <1>4, <2>2
  <2>4. CASE tcb # None /\ listens(tcb, m)
    <3>1. k = i /\ i # None
      BY <1>2, <2>2, <2>4, SocketAssumption
    <3> QED
      BY <1>2, <1>4, <2>3, <2>4, <3>1 DEF SynFound
  <2>5. CASE ~(tcb # None /\ listens(tcb, m))
    <3>1. k = input.match
      BY <2>2, <2>5
    <3>2. k # None => listens(utcp_fd_table[k], m)
      BY <1>1, <1>2, <3>1 DEF SynFound
    <3>3. ASSUME k = None, ~surplus
          PROVE  /\ input'.pc = "scan"
                 /\ \E j \in Slots : /\ j >= i + 1 /\ utcp_fd_table[j] # None
                                     /\ listens(utcp_fd_table[j], m)
      <4>1. PICK j \in Slots : /\ j >= i /\ utcp_fd_table[j] # None
                               /\ listens(utcp_fd_table[j], m)
        BY <1>1, <1>2, <3>1, <3>3 DEF SynFound
      <4>2. j # i
        BY <2>5, <4>1
      <4>3. j >= i + 1 /\ input'.pc = "scan"
        BY <1>4, <1>9, <2>2, <4>1, <4>2
      <4> QED
        BY <4>1, <4>3
    <3> QED
      BY <1>2, <1>4, <2>3, <3>2, <3>3 DEF SynFound
  <2> QED
    BY <2>4, <2>5
<1> QED
  BY <1>6, <1>7, <1>8, <1>10, <1>11 DEF Meant

\* The lock of what was found; nothing was found only for a surplus SYN.
LEMMA LockFoundMeant ==
  ASSUME SocketInv, Meant, LockFound PROVE Meant'
<1>1. /\ Typed /\ Scanning /\ Unconnected /\ Started /\ Answers /\ Syns /\ AnswerFound /\ SynFound
      /\ Quota /\ Survives
  BY DEF SocketInv, Meant
<1>2. /\ input.pc = "found" /\ input.seg \in Datagrams
      /\ UNCHANGED <<pkg, utcp_fd_table, app, net, calls, surplus>>
      /\ \/ input.match = None /\ up' = "crashed" /\ input' = input
         \/ input.match # None /\ up' = up /\ input' = [input EXCEPT !.pc = "handle"]
  BY <1>1 DEF LockFound, Listening, Scanning
<1>3. /\ input'.seg = input.seg /\ input'.match = input.match
      /\ input'.pc = IF input.match = None THEN "found" ELSE "handle"
  BY <1>1, <1>2 DEF Scanning, Inputs
<1>4. input.match = None => surplus
  BY <1>1, <1>2 DEF AnswerFound, SynFound
<1>5. in_flight' = in_flight
  BY <1>2, <1>3 DEF in_flight
<1>6. Unconnected' /\ Survives' /\ Answers' /\ Syns'
  BY <1>1, <1>2, <1>3, <1>4, <1>5 DEF Unconnected, Survives, Answers, Syns
<1>7. Started'
  <2>1. pkg.bound /\ \A a \in Apps : app[a].pc # "bound"
    BY <1>1, <1>2 DEF Started
  <2> QED
    BY <1>1, <1>2, <1>3, <2>1 DEF Started, PkgTyped
<1>8. Quota'
  <2>1. \A port \in Ports : pending(port)' = pending(port) /\ listeners(port)' = listeners(port)
    BY <1>2, <1>3 DEF pending, listeners, free_slots
  <2>2. IsFiniteSet(net')
    BY <1>1, <1>2 DEF Quota
  <2> QED
    BY <1>1, <1>2, <2>1, <2>2, QuotaKept
<1>9. AnswerFound' /\ SynFound'
  BY <1>1, <1>2, <1>3, <1>4 DEF AnswerFound, SynFound
<1> QED
  BY <1>6, <1>7, <1>8, <1>9 DEF Meant

\* An answer is handled: its connection keeps peer and port.
LEMMA AnswerMeant ==
  ASSUME SocketInv, Meant, Handle, input.seg.flags # "SYN" PROVE Meant'
<1> DEFINE k == input.match
           m == input.seg
           old == utcp_fd_table[k]
           tcb == handled(old, m)
<1>1. /\ Typed /\ Scanning /\ Unconnected /\ Started /\ Answers /\ Syns /\ AnswerFound /\ Quota
      /\ Survives /\ FdsDistinct
  BY DEF SocketInv, Meant
<1>2. input.pc = "handle" /\ k \in Slots /\ old \in Tcbs /\ old # None /\ m \in Datagrams
  BY <1>1 DEF Handle, Listening, Scanning, Inputs, Typed
<1>3. four_tuple(old, m) /\ m.from # None
  BY <1>1, <1>2, SocketAssumption DEF AnswerFound, Datagrams
<1>4. old.dst # None /\ old.state \notin {"CLOSED", "LISTEN"}
  BY <1>1, <1>2, <1>3 DEF four_tuple, Unconnected
<1>5. tcb = old \/ (tcb = [old EXCEPT !.state = "ESTABLISHED"] /\ tcb.state = "ESTABLISHED")
  BY <1>2, <1>4 DEF handled, Tcbs
<1>6. /\ UNCHANGED <<pkg, app, calls, surplus, up>> /\ net' = net
      /\ utcp_fd_table' = [utcp_fd_table EXCEPT ![k] = tcb]
      /\ input' = [pc |-> "recv", seg |-> None, i |-> 0, match |-> None]
  BY <1>5 DEF Handle
<1> HIDE DEF tcb
<1>7. /\ tcb # None /\ tcb.dst = old.dst /\ tcb.src_port = old.src_port
      /\ tcb.state \notin {"CLOSED", "LISTEN"}
  <2>1. tcb \in Tcbs
    BY <1>2, <1>5, TcbChanged
  <2> QED
    BY <1>2, <1>4, <1>5, <2>1, SocketAssumption DEF Tcbs
<1>8. /\ utcp_fd_table'[k] = tcb
      /\ \A i \in Slots : i # k => utcp_fd_table'[i] = utcp_fd_table[i]
  BY <1>1, <1>2, <1>6 DEF Typed
<1> HIDE DEF old
<1>9. \A i \in Slots : /\ utcp_fd_table'[i] = None <=> utcp_fd_table[i] = None
                       /\ utcp_fd_table'[i].dst = utcp_fd_table[i].dst
                       /\ utcp_fd_table'[i].src_port = utcp_fd_table[i].src_port
                       /\ utcp_fd_table[i].state \in {"CLOSED", "LISTEN"}
                            <=> utcp_fd_table'[i].state \in {"CLOSED", "LISTEN"}
                       /\ utcp_fd_table[i].state \in {"CLOSED", "LISTEN"}
                            => utcp_fd_table'[i].state = utcp_fd_table[i].state
  BY <1>2, <1>4, <1>7, <1>8 DEF old
<1>10. in_flight' \subseteq in_flight
  BY <1>6 DEF in_flight
<1>11. Unconnected' /\ Survives'
  <2>1. \A a \in Apps : app[a].fd \in Slots
    BY <1>1 DEF Typed
  <2> QED
    BY <1>1, <1>6, <1>9, <2>1 DEF Unconnected, Survives
<1>12. Answers' /\ Syns'
  BY <1>1, <1>6, <1>9, <1>10 DEF Answers, Syns, four_tuple
<1>13. Started' /\ AnswerFound' /\ SynFound'
  <2>1. pkg.bound /\ \A a \in Apps : app[a].pc # "bound"
    BY <1>1, <1>2 DEF Started
  <2> QED
    BY <1>1, <1>6, <2>1 DEF Started, PkgTyped, AnswerFound, SynFound
<1>14. Quota'
  <2>1. ASSUME NEW port \in Ports PROVE pending(port)' \subseteq pending(port)
    BY <1>6 DEF pending
  <2>2. ASSUME NEW port \in Ports PROVE listeners(port) \subseteq listeners(port)'
    BY <1>9 DEF listeners, free_slots
  <2>3. IsFiniteSet(net')
    BY <1>1, <1>6 DEF Quota
  <2> QED
    BY <1>1, <1>6, <2>1, <2>2, <2>3, QuotaKept
<1> QED
  BY <1>11, <1>12, <1>13, <1>14 DEF Meant

\* A SYN is handled: the listener becomes the connection of that client, and
\* both leave the quota.
LEMMA SynMeant ==
  ASSUME SocketInv, Meant, Handle, input.seg.flags = "SYN" PROVE Meant'
<1> DEFINE k == input.match
           m == input.seg
           old == utcp_fd_table[k]
           tcb == [old EXCEPT !.state = "SYN_RECV", !.dst = m.from]
           reply == Datagram(m.from, m.dport, "ACK")
<1>1. /\ Typed /\ Scanning /\ Unconnected /\ Started /\ Answers /\ Syns /\ SynFound /\ Quota
      /\ Survives
  BY DEF SocketInv, Meant
<1>2. /\ input.pc = "handle" /\ k \in Slots /\ old \in Tcbs /\ old # None /\ m \in Datagrams
      /\ k # None /\ m # None
  BY <1>1, SocketAssumption DEF Handle, Listening, Scanning, Inputs, Typed
<1>3. old.state = "LISTEN" /\ old.src_port = m.dport /\ old.dst = None
  BY <1>1, <1>2 DEF SynFound, listens, Unconnected
<1>4. /\ m \in in_flight /\ m \notin net /\ m.from \in calls /\ m.from \in Clients
      /\ m.dport \in Ports
  <2>1. m \in in_flight
    BY <1>2 DEF in_flight
  <2> QED
    BY <1>1, <1>2, <2>1 DEF Syns
<1>5. handled(old, m) = tcb
  BY <1>3 DEF handled
<1>6. /\ tcb \in Tcbs /\ tcb # None /\ tcb.dst = m.from /\ tcb.src_port = m.dport
      /\ tcb.state = "SYN_RECV" /\ tcb # old
  BY <1>2, <1>3, <1>4, SocketAssumption DEF Tcbs
<1>7. /\ UNCHANGED <<pkg, app, calls, surplus, up>> /\ net' = net \cup {reply}
      /\ utcp_fd_table' = [utcp_fd_table EXCEPT ![k] = tcb]
      /\ input' = [pc |-> "recv", seg |-> None, i |-> 0, match |-> None]
  <2> HIDE DEF tcb
  <2> QED
    BY <1>5, <1>6 DEF Handle
<1>8. /\ utcp_fd_table'[k] = tcb
      /\ \A i \in Slots : i # k => utcp_fd_table'[i] = utcp_fd_table[i]
  BY <1>1, <1>2, <1>7 DEF Typed
<1>9. reply \in Datagrams /\ reply.flags = "ACK" /\ reply.from = m.from /\ reply.dport = m.dport
  BY <1>2 DEF Datagram, Datagrams
<1> HIDE DEF tcb, old, reply
<1>10. /\ in_flight' = net \cup {reply} /\ net \subseteq in_flight
       /\ net \subseteq Datagrams
  BY <1>1, <1>7 DEF in_flight, Typed
<1>11. Unconnected' /\ Survives'
  <2>1. ASSUME NEW a \in Apps, app[a].pc \in {"bind", "ready", "connect"}
        PROVE  app[a].fd \in Slots /\ app[a].fd # k
    BY <1>1, <1>3, <2>1 DEF Unconnected, Typed, old
  <2> QED
    BY <1>1, <1>6, <1>7, <1>8, <2>1 DEF Unconnected, Survives
<1>12. Answers'
  <2> SUFFICES ASSUME NEW n \in in_flight', n.flags # "SYN"
               PROVE  \E i \in Slots : utcp_fd_table'[i] # None /\ four_tuple(utcp_fd_table'[i], n)
    BY DEF Answers
  <2>1. CASE n = reply
    BY <1>2, <1>6, <1>8, <1>9, <2>1 DEF four_tuple
  <2>2. CASE n \in net
    <3>1. PICK i \in Slots : utcp_fd_table[i] # None /\ four_tuple(utcp_fd_table[i], n)
      BY <1>1, <1>10, <2>2 DEF Answers
    <3>2. n.from # None
      BY <1>10, <2>2, SocketAssumption DEF Datagrams
    <3>3. i # k
      BY <1>3, <3>1, <3>2 DEF four_tuple, old
    <3> QED
      BY <1>8, <3>1, <3>3
  <2> QED
    BY <1>10, <2>1, <2>2
<1>13. Syns'
  <2>1. \A n \in in_flight' : n.flags = "SYN" => n \in net /\ n \in in_flight /\ n # m
    BY <1>4, <1>9, <1>10
  <2>2. \A n \in in_flight' : n.flags = "SYN" => n.from # m.from
    BY <1>1, <1>4, <2>1 DEF Syns
  <2>3. ASSUME NEW n \in in_flight', n.flags = "SYN", NEW i \in Slots, utcp_fd_table'[i] # None
        PROVE  utcp_fd_table'[i].dst # n.from
    BY <1>1, <1>6, <1>8, <2>1, <2>2, <2>3 DEF Syns
  <2>4. \A i \in Slots : utcp_fd_table'[i] # None /\ utcp_fd_table'[i].dst \in Clients
                           => utcp_fd_table'[i].dst \in calls'
    BY <1>1, <1>4, <1>6, <1>7, <1>8 DEF Syns
  <2>5. \A n \in in_flight' : n.flags = "SYN" =>
          n.from \in calls' /\ n.from \in Clients /\ n.dport \in Ports
    BY <1>1, <1>7, <2>1 DEF Syns
  <2>6. \A n, l \in in_flight' : n.flags = "SYN" /\ l.flags = "SYN" /\ n.from = l.from => n = l
    BY <1>1, <2>1 DEF Syns
  <2>7. input'.seg = None
    BY <1>7
  <2> QED
    BY <2>3, <2>4, <2>5, <2>6, <2>7 DEF Syns
<1>14. Started' /\ AnswerFound' /\ SynFound'
  <2>1. pkg.bound /\ \A a \in Apps : app[a].pc # "bound"
    BY <1>1, <1>2 DEF Started
  <2> QED
    BY <1>1, <1>7, <2>1 DEF Started, PkgTyped, AnswerFound, SynFound
<1>15. Quota'
  <2>1. IsFiniteSet(net')
    BY <1>1, <1>7, FS_AddElement DEF Quota
  <2> SUFFICES ASSUME ~surplus, NEW port \in Ports
               PROVE  Cardinality(pending(port)') <= Cardinality(listeners(port)')
    BY <1>7, <2>1 DEF Quota
  <2> DEFINE P1 == pending(port)
             P2 == pending(port)'
             L1 == listeners(port)
             L2 == listeners(port)'
  <2>2. /\ P1 \subseteq net \cup {m} /\ IsFiniteSet(net) /\ L1 \subseteq Slots /\ L2 \subseteq Slots
        /\ Cardinality(P1) <= Cardinality(L1)
    BY <1>1 DEF Quota, pending, listeners
  <2>3. P2 \subseteq P1 \ {m}
    BY <1>4, <1>7, <1>9 DEF pending
  <2>4. L1 \ {k} \subseteq L2
    BY <1>8 DEF listeners, free_slots
  <2>5. port = m.dport => m \in P1
    BY <1>2 DEF pending
  <2>6. port # m.dport => k \notin L1
    BY <1>3 DEF listeners, old
  <2> HIDE DEF P1, P2, L1, L2, m, k
  <2>7. IsFiniteSet(P1) /\ Cardinality(P1) \in Nat /\ IsFiniteSet(L1) /\ Cardinality(L1) \in Nat
    BY <2>2, FewerSyns, SlotSets
  <2>8. /\ Cardinality(P1 \ {m}) = IF m \in P1 THEN Cardinality(P1) - 1 ELSE Cardinality(P1)
        /\ Cardinality(L1 \ {k}) = IF k \in L1 THEN Cardinality(L1) - 1 ELSE Cardinality(L1)
    BY <2>7, FS_RemoveElement
  <2>9. /\ Cardinality(P2) \in Nat /\ Cardinality(P1 \ {m}) \in Nat
        /\ Cardinality(P2) <= Cardinality(P1 \ {m})
    <3>1. P1 \ {m} \in SUBSET (net \cup {m})
      BY <2>2
    <3> QED
      BY <2>2, <2>3, <3>1, FewerSyns
  <2>10. /\ Cardinality(L2) \in Nat /\ Cardinality(L1 \ {k}) \in Nat
         /\ Cardinality(L1 \ {k}) <= Cardinality(L2)
    BY <2>2, <2>4, SlotSets
  <2>11. CASE port = m.dport
    BY <2>2, <2>5, <2>7, <2>8, <2>9, <2>10, <2>11 DEF P2, L2
  <2>12. CASE port # m.dport
    BY <2>2, <2>6, <2>7, <2>8, <2>9, <2>10, <2>12 DEF P2, L2
  <2> QED
    BY <2>11, <2>12
<1> QED
  BY <1>11, <1>12, <1>13, <1>14, <1>15 DEF Meant

\* A remote client connects: its SYN is within the quota, or surplus.
LEMMA RemoteMeant ==
  ASSUME SocketInv, Meant, NEW c \in Clients, NEW port \in Ports, RemoteConnect(c, port)
  PROVE  Meant'
<1> DEFINE m == Datagram(c, port, "SYN")
<1>1. /\ Typed /\ Scanning /\ Unconnected /\ Started /\ Answers /\ Syns /\ AnswerFound /\ SynFound
      /\ Quota /\ Survives
  BY DEF SocketInv, Meant
<1>2. /\ UNCHANGED <<pkg, utcp_fd_table, app, input, up>> /\ c \notin calls
      /\ calls' = calls \cup {c} /\ net' = net \cup {m} /\ (surplus => surplus')
      /\ ~surplus' => ~surplus /\ ~(Cardinality(listeners(port)) <= Cardinality(pending(port)))
  BY DEF RemoteConnect
<1>3. m.flags = "SYN" /\ m.from = c /\ m.dport = port /\ c \notin Servers /\ c # None
  BY SocketAssumption DEF Datagram
<1> HIDE DEF m
<1>4. in_flight' \subseteq in_flight \cup {m}
  BY <1>2 DEF in_flight
<1>5. Unconnected' /\ Started' /\ Answers' /\ Survives' /\ AnswerFound' /\ SynFound'
  <2>1. Unconnected' /\ Started'
    BY <1>1, <1>2 DEF Unconnected, Started, PkgTyped
  <2>2. Answers'
    BY <1>1, <1>2, <1>3, <1>4 DEF Answers
  <2>3. AnswerFound' /\ SynFound'
    BY <1>1, <1>2 DEF AnswerFound, SynFound
  <2> QED
    BY <1>1, <1>2, <2>1, <2>2, <2>3 DEF Survives
<1>6. Syns'
  <2>1. \A n \in in_flight : n.flags = "SYN" => n.from # c
    BY <1>1, <1>2 DEF Syns
  <2>2. \A i \in Slots : utcp_fd_table[i] # None => utcp_fd_table[i].dst # c
    BY <1>1, <1>2 DEF Syns
  <2>3. input.seg # None /\ input.seg.flags = "SYN" => input.seg \notin net'
    <3> SUFFICES ASSUME input.seg # None, input.seg.flags = "SYN" PROVE input.seg \notin net'
      OBVIOUS
    <3>1. input.seg \in in_flight /\ input.seg \notin net
      BY <1>1 DEF in_flight, Syns
    <3> QED
      BY <1>2, <1>3, <2>1, <3>1
  <2>4. \A n \in in_flight' : n.flags = "SYN" =>
          /\ n.from \in calls' /\ n.from \in Clients /\ n.dport \in Ports
          /\ \A i \in Slots : utcp_fd_table[i] # None => utcp_fd_table[i].dst # n.from
    BY <1>1, <1>2, <1>3, <1>4, <2>2 DEF Syns
  <2>5. \A n, l \in in_flight' : n.flags = "SYN" /\ l.flags = "SYN" /\ n.from = l.from => n = l
    BY <1>1, <1>3, <1>4, <2>1 DEF Syns
  <2> QED
    BY <1>1, <1>2, <2>3, <2>4, <2>5 DEF Syns
<1>7. Quota'
  <2>1. IsFiniteSet(net')
    BY <1>1, <1>2, FS_AddElement DEF Quota
  <2> SUFFICES ASSUME ~surplus', NEW q \in Ports
               PROVE  Cardinality(pending(q)') <= Cardinality(listeners(q)')
    BY <2>1 DEF Quota
  <2> DEFINE P1 == pending(q)
             P2 == pending(q)'
             L1 == listeners(q)
  <2>2. listeners(q)' = L1
    BY <1>2 DEF listeners, free_slots
  <2>3. /\ P1 \subseteq net \cup {input.seg} /\ IsFiniteSet(net) /\ L1 \subseteq Slots
        /\ Cardinality(P1) <= Cardinality(L1)
        /\ P2 \subseteq P1 \cup {m} /\ P2 \subseteq net' \cup {input.seg}
    BY <1>1, <1>2 DEF Quota, pending, listeners
  <2>4. q # port => P2 \subseteq P1
    BY <1>2, <1>3 DEF pending
  <2>5. q = port => ~(Cardinality(L1) <= Cardinality(P1))
    BY <1>2
  <2> HIDE DEF P1, P2, L1
  <2>6. IsFiniteSet(P1) /\ Cardinality(P1) \in Nat /\ Cardinality(L1) \in Nat
    BY <2>3, FewerSyns, SlotSets
  <2>7. IsFiniteSet(P1 \cup {m}) /\ Cardinality(P1 \cup {m}) \in Nat
        /\ Cardinality(P1 \cup {m}) <= Cardinality(P1) + 1
    <3>1. IsFiniteSet(P1 \cup {m}) /\ Cardinality(P1 \cup {m})
            = IF m \in P1 THEN Cardinality(P1) ELSE Cardinality(P1) + 1
      BY <2>6, FS_AddElement
    <3> QED
      BY <2>6, <3>1
  <2>8. Cardinality(P2) \in Nat /\ Cardinality(P2) <= Cardinality(P1 \cup {m})
    <3>1. IsFiniteSet(P2) /\ Cardinality(P2) <= Cardinality(P1 \cup {m})
      BY <2>3, <2>7, FS_Subset
    <3> QED
      BY <3>1, FS_CardinalityType
  <2>9. CASE q = port
    BY <2>2, <2>3, <2>5, <2>6, <2>7, <2>8, <2>9 DEF P2
  <2>10. CASE q # port
    <3>1. Cardinality(P2) <= Cardinality(P1)
      BY <2>4, <2>6, <2>10, FS_Subset
    <3> QED
      BY <2>2, <2>3, <2>6, <2>8, <3>1 DEF P2
  <2> QED
    BY <2>9, <2>10
<1> QED
  BY <1>5, <1>6, <1>7 DEF Meant

LEMMA MeantInit == Init => Meant
<1> SUFFICES ASSUME Init PROVE Meant
  OBVIOUS
<1>1. /\ Unconnected /\ Answers /\ Syns /\ AnswerFound /\ SynFound /\ Survives
  BY DEF Init, Unconnected, Answers, Syns, AnswerFound, SynFound, Survives, in_flight
<1>2. Started
  BY DEF Init, Started, PkgTyped
<1>3. Quota
  <2>1. net = {} /\ \A port : pending(port) = {}
    BY DEF Init, pending
  <2>2. \A port : listeners(port) \subseteq Slots
    BY DEF listeners
  <2>3. \A port : Cardinality(listeners(port)) \in Nat
    BY <2>2, SlotSets
  <2> QED
    BY <2>1, <2>3, FS_EmptySet DEF Quota
<1> QED
  BY <1>1, <1>2, <1>3 DEF Meant

LEMMA MeantStep ==
  ASSUME SocketInv, SocketInv', Meant, [Next]_vars PROVE Meant'
<1>1. ASSUME UNCHANGED <<pkg, utcp_fd_table, app, input, net, calls, surplus, up>> PROVE Meant'
  <2>1. Grown /\ Beside
    BY <1>1 DEF Grown, Beside
  <2>2. Unconnected' /\ Started'
    BY <1>1 DEF Meant, Unconnected, Started, PkgTyped
  <2> QED
    BY <2>1, <2>2, GrownMeant
<1>2. ASSUME NEW a \in Apps, AppStep(a) \/ AppLock(a) PROVE Meant'
  BY <1>2, AppGrows, GrownMeant
<1>3. ASSUME TickStart \/ TickLock \/ TickDone PROVE Meant'
  BY <1>1, <1>3 DEF TickStart, TickLock, TickDone
<1>4. ASSUME UNCHANGED vars PROVE Meant'
  BY <1>1, <1>4 DEF vars
<1> QED
  BY <1>2, <1>3, <1>4, RecvfromMeant, FindMeant, LockFoundMeant, AnswerMeant, SynMeant,
     RemoteMeant DEF Next

\* The inductive invariant of find_tcb: every datagram on its way has the socket
\* it is meant for, and the scan has that socket before it or has found it.
THEOREM DatagramsMeant == Spec => [](SocketInv /\ Meant)
<1>1. Init => Meant
  BY MeantInit
<1>2. SocketInv /\ SocketInv' /\ Meant /\ [Next]_vars => Meant'
  BY MeantStep
<1> QED
  BY <1>1, <1>2, SocketInvariance, PTL DEF Spec

\* find_tcb reads the table slot by slot without a lock, while other threads
\* open, bind and connect sockets: what it chose is still right when utcp_input
\* has the lock, for any number of threads, slots, ports and peers.
THEOREM ChosenSocketRight == Spec => []RightSocket
<1>1. SocketInv /\ Meant => RightSocket
  <2> SUFFICES ASSUME SocketInv, Meant, input.pc = "handle" PROVE RightSocket
    BY DEF RightSocket
  <2>1. /\ input.seg \in Datagrams /\ input.seg # None /\ input.match # None
        /\ AnswerFound /\ SynFound /\ Syns
    BY SocketAssumption DEF SocketInv, Scanning, Meant
  <2>2. CASE input.seg.flags # "SYN"
    BY <2>1, <2>2 DEF RightSocket, AnswerFound
  <2>3. CASE input.seg.flags = "SYN"
    <3>1. input.seg \in in_flight
      BY <2>1 DEF in_flight
    <3>2. listens(utcp_fd_table[input.match], input.seg)
      BY <2>1, <2>3 DEF SynFound
    <3>3. \A i \in Slots \ free_slots : ~four_tuple(utcp_fd_table[i], input.seg)
      BY <2>1, <2>3, <3>1 DEF Syns, four_tuple, free_slots
    <3> QED
      BY <3>2, <3>3 DEF RightSocket
  <2> QED
    BY <2>2, <2>3
<1> QED
  BY <1>1, DatagramsMeant, PTL

\* Nothing but a SYN for which there is no listener left makes the process lock
\* a TCB that was not found.
THEOREM NoMissedSocket == Spec => []Survives
<1>1. SocketInv /\ Meant => Survives
  BY DEF Meant
<1> QED
  BY <1>1, DatagramsMeant, PTL
=============================================================================
