-------------------------- MODULE HeapServerProofs --------------------------
(***************************************************************************)
(* Theorems about HeapServer for every number of handlers, clients and     *)
(* descriptors, and every other constant.                                  *)
(***************************************************************************)
EXTENDS HeapServer, SequenceTheorems, WellFoundedInduction, TLAPS

-----------------------------------------------------------------------------
(* The kernel's rule for new descriptors.                                  *)

LEMMA LeastNatural ==
    ASSUME NEW S \in SUBSET Nat, S # {}
    PROVE  \E m \in S : \A k \in S : m <= k
  <1>1. PICK m \in S : \A k \in S : <<k, m>> \notin OpToRel(<, Nat)
    BY WFMin, NatLessThanWellFounded, Zenon
  <1>2. \A k \in S : ~(k < m)
    BY <1>1, Zenon DEF OpToRel
  <1> QED
    BY <1>2

LEMMA FdsNatural == Fds \subseteq Nat /\ NoFd \notin Fds
  BY FdAssumption DEF Fds, NoFd

LEMMA NewFdIsClosed == NewFd = NoFd \/ (NewFd \in Fds /\ files[NewFd].kind = "closed")
  <1>1. CASE FreeFds = {}
    BY <1>1 DEF NewFd
  <1>2. CASE FreeFds # {}
    <2>1. FreeFds \in SUBSET Nat
      BY FdsNatural DEF FreeFds
    <2>2. \E fd \in FreeFds : \A g \in FreeFds : fd <= g
      BY <1>2, <2>1, LeastNatural
    <2>3. NewFd \in FreeFds
      BY <1>2, <2>2 DEF NewFd
    <2> QED
      BY <2>3 DEF FreeFds
  <1> QED
    BY <1>1, <1>2

LEMMA FdSetAppend ==
    ASSUME NEW S, NEW seq \in Seq(S), NEW x \in S
    PROVE  FdSet(Append(seq, x)) = FdSet(seq) \cup {x}
  <1>1. /\ Len(seq) \in Nat /\ DOMAIN seq = 1 .. Len(seq)
        /\ DOMAIN Append(seq, x) = 1 .. Len(seq) + 1
        /\ \A k \in 1 .. Len(seq) : Append(seq, x)[k] = seq[k]
        /\ Append(seq, x)[Len(seq) + 1] = x
    OBVIOUS
  <1>2. \A k \in 1 .. Len(seq) + 1 : k = Len(seq) + 1 \/ k \in 1 .. Len(seq)
    BY <1>1
  <1>3. Len(seq) + 1 \in DOMAIN Append(seq, x)
    BY <1>1
  <1> HIDE <1>3
  <1> QED
    BY <1>1, <1>2, <1>3 DEF FdSet

-----------------------------------------------------------------------------
(* Types.                                                                  *)

FileKinds == {"closed", "app", "epoll", "socket", "listen", "client"}

FileRecord == [kind : FileKinds, port : 0 .. PortRange - 1, queue : Seq(Clients)]

Slot == [handler : {Handlers[n] : n \in Nat}, port : 0 .. PortRange - 1, fd : Fds \cup {0}]

Before == {"register", "start", "epoll"}
Binding == {"socket", "bind", "add"}
Accepting == {"wait", "accept", "find", "handle"}

TypeInv ==
    /\ s_port \in 0 .. PortRange - 1 /\ port \in 0 .. PortRange - 1
    /\ s_handlers \in Seq(Slot) /\ Len(s_handlers) <= MAX_HANDLER_COUNT
    /\ files \in [Fds -> FileRecord]
    /\ fv \in Seq(Fds)
    /\ epollfd \in Fds \cup {NoFd} /\ sockfd \in Fds \cup {NoFd} /\ ev \in Fds \cup {NoFd}
    /\ spc \in Before \cup Binding \cup Accepting \cup {"returned"}
    /\ i \in Nat
    /\ client \in Clients \cup {NoClient}
    /\ state \in [Clients -> {"idle", "queued", "served", "reset"}]
    /\ via \in [Clients -> 0 .. PortRange - 1]

LEMMA FileTypes ==
    /\ Closed \in FileRecord
    /\ \A kind \in FileKinds : File(kind) \in FileRecord /\ File(kind).kind = kind
                                /\ File(kind).queue = <<>>
    /\ \A p \in 0 .. PortRange - 1 :
          LET f == [File("listen") EXCEPT !.port = p]
          IN  f \in FileRecord /\ f.kind = "listen" /\ f.port = p /\ f.queue = <<>>
    /\ Closed.kind = "closed" /\ Closed.queue = <<>>
  <1>1. <<>> \in Seq(Clients)
    OBVIOUS
  <1>2. 0 \in 0 .. PortRange - 1
    BY PortAssumption
  <1>3. "closed" \in FileKinds /\ "listen" \in FileKinds
    BY DEF FileKinds
  <1>4. Closed \in FileRecord /\ Closed.kind = "closed" /\ Closed.queue = <<>>
    BY <1>1, <1>2, <1>3 DEF Closed, FileRecord
  <1>5. ASSUME NEW kind \in FileKinds
        PROVE  File(kind) \in FileRecord /\ File(kind).kind = kind /\ File(kind).queue = <<>>
    BY <1>4 DEF File, FileRecord
  <1>6. ASSUME NEW p \in 0 .. PortRange - 1, NEW f, f = [File("listen") EXCEPT !.port = p]
        PROVE  f \in FileRecord /\ f.kind = "listen" /\ f.port = p /\ f.queue = <<>>
    BY <1>3, <1>5, <1>6 DEF FileRecord
  <1> QED
    BY <1>4, <1>5, <1>6

-----------------------------------------------------------------------------
(* Who owns which open file, what fv and the slots have to do with each    *)
(* other, and where a client can be.                                       *)

OwnerInv ==
    /\ NoFdLeak
    /\ spc \in Before \cup {"returned"} => fv = <<>> /\ epollfd = NoFd
    /\ spc \notin {"bind", "add", "find", "handle"} => sockfd = NoFd
    /\ spc \in Binding \cup Accepting => epollfd \in Fds /\ files[epollfd].kind = "epoll"
    /\ \A fd \in FdSet(fv) : files[fd].kind = "listen"
    /\ spc = "bind" => sockfd \in Fds /\ files[sockfd].kind = "socket"
    /\ spc = "add" => sockfd \in Fds /\ files[sockfd].kind = "listen" /\ sockfd \notin FdSet(fv)
    /\ spc \in {"find", "handle"} => sockfd \in Fds /\ files[sockfd].kind = "client"

SlotInv ==
    /\ \A n \in DOMAIN fv : n \in DOMAIN s_handlers /\ s_handlers[n].fd = fv[n]
    /\ spc = "epoll" => i = 1 /\ s_handlers # <<>>
    /\ spc \in Binding => i \in DOMAIN s_handlers /\ i = Len(fv) + 1
    /\ spc \in {"accept", "find", "handle"} => ev \in FdSet(fv)
    /\ spc = "accept" => files[ev].queue # <<>>
    /\ spc = "handle" => i \in DOMAIN s_handlers /\ s_handlers[i].fd = ev

Queued(fd, c) == \E k \in DOMAIN files[fd].queue : files[fd].queue[k] = c

Queues ==
    /\ \A fd \in Fds : Len(files[fd].queue) <= Backlog
    /\ \A fd \in Fds : files[fd].kind # "listen" => files[fd].queue = <<>>
    /\ \A fd \in Fds : \A k \in DOMAIN files[fd].queue :
          LET c == files[fd].queue[k] IN state[c] = "queued" /\ via[c] = files[fd].port
    /\ \A fd, g \in Fds : \A k \in DOMAIN files[fd].queue, l \in DOMAIN files[g].queue :
          files[fd].queue[k] = files[g].queue[l] => fd = g /\ k = l

ClientInv ==
    spc \in {"find", "handle"} =>
          /\ client \in Clients /\ state[client] = "queued" /\ via[client] = files[ev].port
          /\ \A fd \in Fds : ~Queued(fd, client)

Inv == TypeInv /\ OwnerInv /\ SlotInv /\ Queues /\ ClientInv

LEMMA InitInv == Init => Inv
  <1> SUFFICES ASSUME Init PROVE Inv
    OBVIOUS
  <1>1. \A fd \in Fds : files[fd] = File("app") \/ files[fd] = Closed
    BY DEF Init
  <1>2. \A fd \in Fds : files[fd] \in FileRecord /\ files[fd].kind \in {"app", "closed"}
                        /\ files[fd].queue = <<>>
    BY <1>1, FileTypes DEF FileKinds
  <1>3. files \in [Fds -> FileRecord]
    BY <1>2 DEF Init
  <1>4. TypeInv
    BY <1>3, PortAssumption, LimitAssumption DEF Init, TypeInv, Before
  <1>5. OwnerInv
    BY <1>2, FdsNatural DEF Init, OwnerInv, NoFdLeak, FdSet, Before, Binding, Accepting
  <1>6. SlotInv
    BY DEF Init, SlotInv, Binding
  <1>7. Queues /\ ClientInv
    <2>1. \A fd \in Fds : Len(files[fd].queue) = 0 /\ DOMAIN files[fd].queue = {}
      BY <1>2
    <2> QED
      BY <1>2, <2>1, LimitAssumption DEF Init, Queues, ClientInv
  <1> QED
    BY <1>4, <1>5, <1>6, <1>7 DEF Inv

(* The thread returns: whatever it held is closed.                         *)
LEMMA ReturnsInv ==
    ASSUME Inv, ServerReturns
    PROVE  Inv'
  <1> DEFINE mine == (FdSet(fv) \cup {epollfd, sockfd}) \cap Fds
  <1>1. /\ spc' = "returned" /\ files' = Close(mine) /\ fv' = <<>>
        /\ epollfd' = NoFd /\ sockfd' = NoFd /\ client' = NoClient
        /\ UNCHANGED <<s_port, s_handlers, i, port, ev, via>>
    BY DEF ServerReturns
  <1>2. state' \in [Clients -> {"idle", "queued", "served", "reset"}]
    BY DEF ServerReturns, Inv, TypeInv
  <1>3. mine = {fd \in Fds : files[fd].kind \notin {"closed", "app"}}
    BY DEF Inv, OwnerInv, NoFdLeak
  <1>4. ASSUME NEW fd \in Fds
        PROVE  /\ files'[fd] \in FileRecord /\ files'[fd].kind \in {"app", "closed"}
               /\ files'[fd].queue = <<>>
    <2>1. CASE fd \in mine
      BY <1>1, <2>1, FileTypes DEF Close
    <2>2. CASE fd \notin mine
      BY <1>1, <1>3, <2>2 DEF Close, Inv, TypeInv, Queues
    <2> QED
      BY <2>1, <2>2
  <1>5. files' \in [Fds -> FileRecord]
    BY <1>1, <1>4 DEF Close
  <1> HIDE DEF mine
  <1>6. TypeInv'
    BY <1>1, <1>2, <1>5 DEF Inv, TypeInv
  <1>7. OwnerInv'
    <2>1. FdSet(fv') = {}
      BY <1>1 DEF FdSet
    <2>2. {fd \in Fds : files'[fd].kind \notin {"closed", "app"}} = {}
      BY <1>4
    <2>3. NoFdLeak'
      BY <1>1, <2>1, <2>2, FdsNatural DEF NoFdLeak
    <2> QED
      BY <1>1, <2>1, <2>3 DEF OwnerInv, Before, Binding, Accepting
  <1>8. SlotInv'
    BY <1>1 DEF SlotInv, Binding
  <1>9. Queues' /\ ClientInv'
    <2>1. \A fd \in Fds : Len(files'[fd].queue) = 0 /\ DOMAIN files'[fd].queue = {}
      BY <1>4
    <2> QED
      BY <1>1, <1>4, <2>1, LimitAssumption DEF Queues, ClientInv
  <1> QED
    BY <1>6, <1>7, <1>8, <1>9 DEF Inv

-----------------------------------------------------------------------------
(* Most steps replace one file that does not listen by one without a queue.*)

LEMMA PutFile ==
    ASSUME Inv, NEW fd \in Fds, NEW f \in FileRecord, f.queue = <<>>,
           files[fd].kind # "listen", files' = [files EXCEPT ![fd] = f], via' = via,
           \A g \in Fds : \A k \in DOMAIN files[g].queue :
              state'[files[g].queue[k]] = state[files[g].queue[k]]
    PROVE  /\ files' \in [Fds -> FileRecord] /\ Queues'
           /\ files'[fd] = f /\ \A g \in Fds \ {fd} : files'[g] = files[g]
           /\ \A g \in Fds, c \in Clients : Queued(g, c)' => Queued(g, c)
  <1>1. /\ files' \in [Fds -> FileRecord] /\ files'[fd] = f
        /\ \A g \in Fds \ {fd} : files'[g] = files[g]
    BY DEF Inv, TypeInv
  <1>2. Len(f.queue) = 0 /\ DOMAIN f.queue = {}
    OBVIOUS
  <1>3. \A g \in Fds : \A k \in DOMAIN files'[g].queue : g # fd /\ files'[g] = files[g]
    BY <1>1, <1>2
  <1>4. Queues'
    <2>1. \A g \in Fds : /\ Len(files'[g].queue) <= Backlog
                         /\ files'[g].kind # "listen" => files'[g].queue = <<>>
      BY <1>1, <1>2, LimitAssumption DEF Inv, Queues
    <2>2. ASSUME NEW g \in Fds, NEW k \in DOMAIN files'[g].queue
          PROVE  LET c == files'[g].queue[k] IN state'[c] = "queued" /\ via'[c] = files'[g].port
      BY <1>3 DEF Inv, Queues
    <2>3. ASSUME NEW g \in Fds, NEW h \in Fds,
                 NEW k \in DOMAIN files'[g].queue, NEW l \in DOMAIN files'[h].queue,
                 files'[g].queue[k] = files'[h].queue[l]
          PROVE  g = h /\ k = l
      BY <1>3, <2>3 DEF Inv, Queues
    <2> QED
      BY <2>1, <2>2, <2>3 DEF Queues
  <1>5. \A g \in Fds, c \in Clients : Queued(g, c)' => Queued(g, c)
    BY <1>3 DEF Queued
  <1> QED
    BY <1>1, <1>4, <1>5

LEMMA RegisterInv ==
    ASSUME Inv, Register
    PROVE  Inv'
  <1>1. /\ spc = "register" /\ spc' \in {"register", "start"} /\ i' = i + 1
        /\ s_handlers' = IF Len(s_handlers) >= MAX_HANDLER_COUNT THEN s_handlers
                         ELSE Append(s_handlers, [handler |-> Handlers[i], port |-> 0, fd |-> 0])
        /\ UNCHANGED <<s_port, fv, epollfd, port, sockfd, ev, client, files, clientVars>>
    BY DEF Register, registerClient
  <1>2. [handler |-> Handlers[i], port |-> 0, fd |-> 0] \in Slot
    BY PortAssumption DEF Slot, Inv, TypeInv
  <1>3. s_handlers' \in Seq(Slot) /\ Len(s_handlers') <= MAX_HANDLER_COUNT
    BY <1>1, <1>2, LimitAssumption DEF Inv, TypeInv
  <1>4. TypeInv'
    BY <1>1, <1>3 DEF Inv, TypeInv, Before, clientVars
  <1>5. OwnerInv'
    BY <1>1 DEF Inv, OwnerInv, NoFdLeak, Before, Binding, Accepting
  <1>6. SlotInv'
    <2>1. fv = <<>>
      BY <1>1 DEF Inv, OwnerInv, Before
    <2> QED
      BY <1>1, <2>1 DEF SlotInv, Binding
  <1>7. Queues' /\ ClientInv'
    BY <1>1 DEF Inv, Queues, ClientInv, clientVars
  <1> QED
    BY <1>4, <1>5, <1>6, <1>7 DEF Inv

LEMMA StartInv ==
    ASSUME Inv, startServer
    PROVE  Inv'
  <1>1. /\ spc = "start" /\ spc' \in {"epoll", "returned"} /\ i' = 1
        /\ spc' = "epoll" => s_handlers # <<>>
        /\ UNCHANGED <<s_port, s_handlers, fv, epollfd, port, sockfd, ev, client, files, clientVars>>
    BY DEF startServer
  <1>2. TypeInv'
    BY <1>1 DEF Inv, TypeInv, Before, clientVars
  <1>3. OwnerInv'
    BY <1>1 DEF Inv, OwnerInv, NoFdLeak, Before, Binding, Accepting
  <1>4. SlotInv'
    BY <1>1 DEF Inv, SlotInv, Binding
  <1>5. Queues' /\ ClientInv'
    BY <1>1 DEF Inv, Queues, ClientInv, clientVars
  <1> QED
    BY <1>2, <1>3, <1>4, <1>5 DEF Inv

LEMMA EpollCreateInv ==
    ASSUME Inv, EpollCreate
    PROVE  Inv'
  <1>1. CASE NewFd = NoFd
    BY <1>1, ReturnsInv DEF EpollCreate
  <1>2. CASE NewFd # NoFd
    <2>1. /\ spc = "epoll" /\ spc' = "socket" /\ epollfd' = NewFd
          /\ files' = [files EXCEPT ![NewFd] = File("epoll")]
          /\ UNCHANGED <<s_port, s_handlers, fv, i, port, sockfd, ev, client, clientVars>>
      BY <1>2 DEF EpollCreate
    <2>2. NewFd \in Fds /\ files[NewFd].kind = "closed"
      BY <1>2, NewFdIsClosed
    <2>3. File("epoll") \in FileRecord /\ File("epoll").kind = "epoll" /\ File("epoll").queue = <<>>
      BY FileTypes DEF FileKinds
    <2>4. /\ files' \in [Fds -> FileRecord] /\ Queues'
          /\ files'[NewFd] = File("epoll") /\ \A g \in Fds \ {NewFd} : files'[g] = files[g]
      BY <2>1, <2>2, <2>3, PutFile DEF clientVars
    <2>5. TypeInv'
      BY <2>1, <2>2, <2>4 DEF Inv, TypeInv, Binding, clientVars
    <2>6. OwnerInv'
      <3>1. fv' = <<>> /\ FdSet(fv) = {} /\ FdSet(fv') = {} /\ sockfd' = NoFd /\ epollfd = NoFd
            /\ sockfd = NoFd
        BY <2>1 DEF Inv, OwnerInv, FdSet, Before
      <3>2. NoFdLeak'
        BY <2>1, <2>2, <2>3, <2>4, <3>1, FdsNatural DEF Inv, OwnerInv, NoFdLeak
      <3> QED
        BY <2>1, <2>2, <2>3, <2>4, <3>1, <3>2 DEF OwnerInv, Before
    <2>7. SlotInv'
      <3>1. fv = <<>> /\ i = 1 /\ s_handlers # <<>>
        BY <2>1 DEF Inv, OwnerInv, SlotInv, Before
      <3>2. 1 \in DOMAIN s_handlers
        BY <3>1 DEF Inv, TypeInv
      <3> QED
        BY <2>1, <3>1, <3>2 DEF SlotInv, Binding
    <2>8. ClientInv'
      BY <2>1 DEF ClientInv
    <2> QED
      BY <2>4, <2>5, <2>6, <2>7, <2>8 DEF Inv
  <1> QED
    BY <1>1, <1>2

LEMMA SocketInv ==
    ASSUME Inv, Socket
    PROVE  Inv'
  <1>1. /\ spc = "socket" /\ port' = s_port /\ s_port' = (s_port + 1) % PortRange /\ sockfd' = NewFd
        /\ UNCHANGED <<s_handlers, fv, epollfd, i, ev, client, clientVars>>
    BY DEF Socket
  <1>2. s_port' \in 0 .. PortRange - 1 /\ port' \in 0 .. PortRange - 1
    BY <1>1, PortAssumption DEF Inv, TypeInv
  <1>3. CASE NewFd = NoFd
    <2>1. files' = files /\ spc' = spc /\ sockfd' = sockfd
      BY <1>1, <1>3 DEF Socket, Inv, OwnerInv
    <2>2. TypeInv'
      BY <1>1, <1>2, <2>1 DEF Inv, TypeInv, clientVars
    <2>3. OwnerInv' /\ SlotInv' /\ Queues' /\ ClientInv'
      BY <1>1, <2>1 DEF Inv, OwnerInv, NoFdLeak, SlotInv, Queues, ClientInv, clientVars
    <2> QED
      BY <2>2, <2>3 DEF Inv
  <1>4. CASE NewFd # NoFd
    <2>1. spc' = "bind" /\ files' = [files EXCEPT ![NewFd] = File("socket")]
      BY <1>4 DEF Socket
    <2>2. NewFd \in Fds /\ files[NewFd].kind = "closed"
      BY <1>4, NewFdIsClosed
    <2>3. File("socket") \in FileRecord /\ File("socket").kind = "socket"
          /\ File("socket").queue = <<>>
      BY FileTypes DEF FileKinds
    <2>4. /\ files' \in [Fds -> FileRecord] /\ Queues'
          /\ files'[NewFd] = File("socket") /\ \A g \in Fds \ {NewFd} : files'[g] = files[g]
      BY <1>1, <2>1, <2>2, <2>3, PutFile DEF clientVars
    <2>5. TypeInv'
      BY <1>1, <1>2, <2>1, <2>2, <2>4 DEF Inv, TypeInv, Binding, clientVars
    <2>6. OwnerInv'
      <3>1. /\ sockfd = NoFd /\ epollfd \in Fds /\ files[epollfd].kind = "epoll"
            /\ NoFdLeak /\ \A fd \in FdSet(fv) : fd \in Fds /\ files[fd].kind = "listen"
        BY <1>1 DEF Inv, TypeInv, OwnerInv, FdSet, Binding
      <3>2. epollfd # NewFd /\ \A fd \in FdSet(fv) : fd # NewFd
        BY <2>2, <3>1
      <3>3. NoFdLeak'
        BY <1>1, <2>2, <2>3, <2>4, <3>1, FdsNatural DEF NoFdLeak
      <3> QED
        BY <1>1, <2>1, <2>2, <2>3, <2>4, <3>1, <3>2, <3>3 DEF OwnerInv, Before
    <2>7. SlotInv' /\ ClientInv'
      BY <1>1, <2>1 DEF Inv, SlotInv, ClientInv, Binding
    <2> QED
      BY <2>4, <2>5, <2>6, <2>7 DEF Inv
  <1> QED
    BY <1>3, <1>4

LEMMA BindFailsInv ==
    ASSUME Inv, BindFails
    PROVE  Inv'
  <1>1. /\ spc = "bind" /\ spc' = "socket" /\ sockfd' = NoFd /\ files' = Close({sockfd})
        /\ UNCHANGED <<s_port, s_handlers, fv, epollfd, i, port, ev, client, clientVars>>
    BY DEF BindFails
  <1>2. /\ sockfd \in Fds /\ files[sockfd].kind = "socket"
        /\ epollfd \in Fds /\ files[epollfd].kind = "epoll"
        /\ NoFdLeak /\ \A fd \in FdSet(fv) : fd \in Fds /\ files[fd].kind = "listen"
    BY <1>1 DEF Inv, TypeInv, OwnerInv, FdSet, Binding
  <1>3. files' = [files EXCEPT ![sockfd] = Closed]
    BY <1>1, <1>2 DEF Close, Inv, TypeInv
  <1>4. /\ files' \in [Fds -> FileRecord] /\ Queues'
        /\ files'[sockfd] = Closed /\ \A g \in Fds \ {sockfd} : files'[g] = files[g]
    BY <1>1, <1>2, <1>3, FileTypes, PutFile DEF clientVars
  <1>5. TypeInv'
    BY <1>1, <1>4 DEF Inv, TypeInv, Binding, clientVars
  <1>6. OwnerInv'
    <2>1. epollfd # sockfd /\ \A fd \in FdSet(fv) : fd # sockfd
      BY <1>2
    <2>2. NoFdLeak'
      <3>1. \A fd \in Fds : files'[fd].kind \notin {"closed", "app"}
                             <=> fd # sockfd /\ files[fd].kind \notin {"closed", "app"}
        BY <1>2, <1>4, FileTypes
      <3>2. \A fd \in Fds : files[fd].kind \notin {"closed", "app"}
                             <=> fd \in FdSet(fv) \/ fd = epollfd \/ fd = sockfd
        BY <1>2 DEF NoFdLeak
      <3>3. \A fd \in Fds : files'[fd].kind \notin {"closed", "app"}
                             <=> fd \in FdSet(fv) \/ fd = epollfd
        BY <2>1, <3>1, <3>2
      <3> QED
        BY <1>1, <3>3, FdsNatural DEF NoFdLeak
    <2> QED
      BY <1>1, <1>2, <1>4, <2>1, <2>2 DEF OwnerInv, Before
  <1>7. SlotInv' /\ ClientInv'
    BY <1>1 DEF Inv, SlotInv, ClientInv, Binding
  <1> QED
    BY <1>4, <1>5, <1>6, <1>7 DEF Inv

LEMMA BindListenInv ==
    ASSUME Inv, BindListen
    PROVE  Inv'
  <1>1. PICK p \in IF port = 0 THEN Ephemeral ELSE {port} :
              files' = [files EXCEPT ![sockfd] = [File("listen") EXCEPT !.port = p]]
    BY DEF BindListen, Bindable
  <1> DEFINE f == [File("listen") EXCEPT !.port = p]
  <1>2. /\ spc = "bind" /\ spc' = "add"
        /\ UNCHANGED <<s_port, s_handlers, fv, epollfd, i, port, sockfd, ev, client, clientVars>>
    BY DEF BindListen
  <1>3. p \in 0 .. PortRange - 1
    BY <1>1, PortAssumption DEF Inv, TypeInv
  <1>4. f \in FileRecord /\ f.kind = "listen" /\ f.queue = <<>>
    BY <1>3, FileTypes
  <1> HIDE DEF f
  <1>5. /\ sockfd \in Fds /\ files[sockfd].kind = "socket"
        /\ epollfd \in Fds /\ files[epollfd].kind = "epoll"
        /\ NoFdLeak /\ \A fd \in FdSet(fv) : fd \in Fds /\ files[fd].kind = "listen"
    BY <1>2 DEF Inv, TypeInv, OwnerInv, FdSet, Binding
  <1>6. files' = [files EXCEPT ![sockfd] = f]
    BY <1>1 DEF f
  <1>7. /\ files' \in [Fds -> FileRecord] /\ Queues'
        /\ files'[sockfd] = f /\ \A g \in Fds \ {sockfd} : files'[g] = files[g]
    BY <1>2, <1>4, <1>5, <1>6, PutFile DEF clientVars
  <1>8. TypeInv'
    BY <1>2, <1>7 DEF Inv, TypeInv, Binding, clientVars
  <1>9. OwnerInv'
    <2>1. epollfd # sockfd /\ sockfd \notin FdSet(fv)
      BY <1>5
    <2>2. \A fd \in Fds : files'[fd].kind \in {"closed", "app"}
                           <=> files[fd].kind \in {"closed", "app"}
      BY <1>4, <1>5, <1>7
    <2>3. NoFdLeak'
      BY <1>2, <1>5, <2>2 DEF NoFdLeak
    <2> QED
      BY <1>2, <1>4, <1>5, <1>7, <2>1, <2>3 DEF OwnerInv, Before
  <1>10. SlotInv' /\ ClientInv'
    BY <1>2 DEF Inv, SlotInv, ClientInv, Binding
  <1> QED
    BY <1>7, <1>8, <1>9, <1>10 DEF Inv

LEMMA AddInv ==
    ASSUME Inv, Add
    PROVE  Inv'
  <1>1. /\ spc = "add" /\ spc' = (IF i = Len(s_handlers) THEN "wait" ELSE "socket")
        /\ s_handlers' = [s_handlers EXCEPT ![i].fd = sockfd, ![i].port = port]
        /\ fv' = Append(fv, sockfd) /\ sockfd' = NoFd /\ i' = i + 1
        /\ UNCHANGED <<s_port, epollfd, port, ev, client, files, clientVars>>
    BY DEF Add
  <1>2. /\ sockfd \in Fds /\ files[sockfd].kind = "listen"
        /\ epollfd \in Fds /\ files[epollfd].kind = "epoll"
        /\ i \in DOMAIN s_handlers /\ i = Len(fv) + 1
    BY <1>1 DEF Inv, OwnerInv, SlotInv, Binding
  <1>3. /\ s_handlers' \in Seq(Slot) /\ Len(s_handlers') = Len(s_handlers)
        /\ DOMAIN s_handlers' = DOMAIN s_handlers /\ s_handlers'[i].fd = sockfd
        /\ \A n \in DOMAIN s_handlers : n # i => s_handlers'[n] = s_handlers[n]
    <2> DEFINE slot == [[s_handlers[i] EXCEPT !.fd = sockfd] EXCEPT !.port = port]
    <2>1. s_handlers \in Seq(Slot) /\ s_handlers[i] \in Slot /\ port \in 0 .. PortRange - 1
      BY <1>2 DEF Inv, TypeInv
    <2>2. slot \in Slot /\ slot.fd = sockfd
      BY <1>2, <2>1 DEF Slot
    <2>3. s_handlers' = [s_handlers EXCEPT ![i] = slot]
      BY <1>1, <1>2, <2>1
    <2> HIDE DEF slot
    <2> QED
      BY <1>2, <2>1, <2>2, <2>3
  <1>4. /\ fv' \in Seq(Fds) /\ Len(fv') = i /\ DOMAIN fv' = 1 .. i /\ DOMAIN fv = 1 .. i - 1
        /\ fv'[i] = sockfd /\ \A n \in DOMAIN fv : fv'[n] = fv[n]
        /\ FdSet(fv') = FdSet(fv) \cup {sockfd}
    BY <1>1, <1>2, FdSetAppend DEF Inv, TypeInv
  <1>5. TypeInv'
    BY <1>1, <1>3, <1>4 DEF Inv, TypeInv, Binding, Accepting, clientVars
  <1>6. OwnerInv'
    <2>1. NoFdLeak'
      BY <1>1, <1>2, <1>4, FdsNatural DEF Inv, OwnerInv, NoFdLeak
    <2>2. \A fd \in FdSet(fv') : files[fd].kind = "listen"
      BY <1>2, <1>4 DEF Inv, OwnerInv
    <2> QED
      BY <1>1, <1>2, <2>1, <2>2 DEF OwnerInv, Before
  <1>7. SlotInv'
    <2>1. \A n \in DOMAIN fv' : n \in DOMAIN s_handlers /\ s_handlers'[n].fd = fv'[n]
      <3>1. \A n \in 1 .. i : n = i \/ (n \in DOMAIN fv /\ n # i)
        BY <1>2, <1>4 DEF Inv, TypeInv
      <3> QED
        BY <1>2, <1>3, <1>4, <3>1 DEF Inv, SlotInv
    <2>2. i' = Len(fv') + 1
      BY <1>1, <1>4
    <2>3. i # Len(s_handlers) => i + 1 \in DOMAIN s_handlers
      BY <1>2 DEF Inv, TypeInv
    <2> QED
      BY <1>1, <1>3, <2>1, <2>2, <2>3 DEF SlotInv, Binding
  <1>8. Queues' /\ ClientInv'
    BY <1>1 DEF Inv, Queues, ClientInv, clientVars
  <1> QED
    BY <1>5, <1>6, <1>7, <1>8 DEF Inv

LEMMA EpollWaitInv ==
    ASSUME Inv, NEW fd \in Fds, EpollWait(fd)
    PROVE  Inv'
  <1>1. /\ spc = "wait" /\ spc' = "accept" /\ ev' = fd
        /\ fd \in FdSet(fv) /\ files[fd].queue # <<>>
        /\ UNCHANGED <<s_port, s_handlers, fv, epollfd, i, port, sockfd, client, files, clientVars>>
    BY DEF EpollWait
  <1>2. TypeInv'
    BY <1>1 DEF Inv, TypeInv, Accepting, clientVars
  <1>3. OwnerInv'
    BY <1>1 DEF Inv, OwnerInv, NoFdLeak, Before, Binding, Accepting
  <1>4. SlotInv'
    BY <1>1 DEF Inv, SlotInv, Binding
  <1>5. Queues' /\ ClientInv'
    BY <1>1 DEF Inv, Queues, ClientInv, clientVars
  <1> QED
    BY <1>2, <1>3, <1>4, <1>5 DEF Inv

(* The client leaves the queue it was in, and is in no other.              *)
LEMMA AcceptInv ==
    ASSUME Inv, Accept
    PROVE  Inv'
  <1> DEFINE q == files[ev].queue
  <1>1. /\ spc = "accept" /\ spc' = "find" /\ NewFd # NoFd
        /\ files' = [files EXCEPT ![ev].queue = Tail(@), ![NewFd] = File("client")]
        /\ client' = Head(q) /\ sockfd' = NewFd
        /\ UNCHANGED <<s_port, s_handlers, fv, epollfd, i, port, ev, clientVars>>
    BY DEF Accept
  <1>2. /\ ev \in Fds /\ ev \in FdSet(fv) /\ files[ev].kind = "listen" /\ q # <<>>
        /\ files[ev] \in FileRecord /\ q \in Seq(Clients)
    BY <1>1 DEF Inv, TypeInv, OwnerInv, SlotInv, FdSet, FileRecord
  <1>3. NewFd \in Fds /\ files[NewFd].kind = "closed" /\ NewFd # ev
    BY <1>1, <1>2, NewFdIsClosed
  <1>4. /\ Len(q) \in Nat \ {0} /\ DOMAIN q = 1 .. Len(q) /\ Head(q) = q[1] /\ 1 \in DOMAIN q
        /\ Tail(q) \in Seq(Clients) /\ Len(Tail(q)) = Len(q) - 1
        /\ \A k \in DOMAIN Tail(q) : k + 1 \in DOMAIN q /\ k \in Nat \ {0} /\ Tail(q)[k] = q[k + 1]
    BY <1>2
  <1>5. /\ File("client") \in FileRecord /\ File("client").kind = "client"
        /\ File("client").queue = <<>>
    BY FileTypes DEF FileKinds
  <1>6. PICK listener \in FileRecord :
              /\ listener.kind = "listen" /\ listener.port = files[ev].port
              /\ listener.queue = Tail(q)
              /\ files' = [files EXCEPT ![ev] = listener, ![NewFd] = File("client")]
    <2>1. [files[ev] EXCEPT !.queue = Tail(q)] \in FileRecord
      BY <1>2, <1>4 DEF FileRecord
    <2>2. files' = [files EXCEPT ![ev] = [files[ev] EXCEPT !.queue = Tail(q)],
                                 ![NewFd] = File("client")]
      BY <1>1, <1>2 DEF Inv, TypeInv
    <2>3. LET f == [files[ev] EXCEPT !.queue = Tail(q)]
          IN  f.kind = "listen" /\ f.port = files[ev].port /\ f.queue = Tail(q)
      BY <1>2 DEF FileRecord
    <2> QED
      BY <2>1, <2>2, <2>3
  <1>7. /\ files' \in [Fds -> FileRecord] /\ files'[ev] = listener /\ files'[NewFd] = File("client")
        /\ \A g \in Fds \ {ev, NewFd} : files'[g] = files[g]
    BY <1>2, <1>3, <1>5, <1>6 DEF Inv, TypeInv
  <1>8. TypeInv'
    <2>1. client' \in Clients
      BY <1>1, <1>2, <1>4
    <2> QED
      BY <1>1, <1>3, <1>7, <2>1 DEF Inv, TypeInv, Accepting, clientVars
  <1>9. OwnerInv'
    <2>1. /\ NoFdLeak /\ sockfd = NoFd
          /\ \A fd \in FdSet(fv) : fd \in Fds /\ files[fd].kind = "listen"
          /\ epollfd \in Fds /\ files[epollfd].kind = "epoll"
      BY <1>1 DEF Inv, TypeInv, OwnerInv, FdSet, Accepting
    <2>2. \A g \in Fds : g # NewFd => files'[g].kind = files[g].kind
      BY <1>2, <1>6, <1>7
    <2>3. epollfd # NewFd /\ NewFd \notin FdSet(fv)
      BY <1>3, <2>1
    <2>4. NoFdLeak'
      <3>1. \A g \in Fds : files[g].kind \notin {"closed", "app"}
                              <=> g \in FdSet(fv) \/ g = epollfd
        BY <2>1, FdsNatural DEF NoFdLeak
      <3>2. \A g \in Fds : files'[g].kind \notin {"closed", "app"}
                              <=> g \in FdSet(fv) \/ g = epollfd \/ g = NewFd
        BY <1>5, <1>7, <2>2, <3>1
      <3> QED
        BY <1>1, <3>2 DEF NoFdLeak
    <2> QED
      BY <1>1, <1>3, <1>5, <1>7, <2>1, <2>2, <2>3, <2>4 DEF OwnerInv, Before
  <1>10. SlotInv'
    BY <1>1 DEF Inv, SlotInv, Binding
  <1>11. ASSUME NEW g \in Fds, NEW k \in DOMAIN files'[g].queue
         PROVE  \E m \in DOMAIN files[g].queue :
                   /\ files'[g].queue[k] = files[g].queue[m]
                   /\ m = IF g = ev THEN k + 1 ELSE k
                   /\ g # NewFd
    <2>1. CASE g = ev
      BY <1>3, <1>4, <1>6, <1>7, <2>1
    <2>2. CASE g = NewFd
      BY <1>5, <1>7, <2>2
    <2>3. CASE g \notin {ev, NewFd}
      BY <1>7, <2>3
    <2> QED
      BY <2>1, <2>2, <2>3
  <1>12. \A g \in Fds : files'[g].port = files[g].port \/ g = NewFd
    BY <1>6, <1>7
  <1>13. Queues'
    <2>1. ASSUME NEW g \in Fds
          PROVE  /\ Len(files'[g].queue) <= Backlog
                 /\ files'[g].kind # "listen" => files'[g].queue = <<>>
      <3>1. CASE g = ev
        <4>1. Len(q) <= Backlog /\ Backlog \in Nat
          BY <1>2, LimitAssumption DEF Inv, Queues
        <4>2. files'[g].queue = Tail(q) /\ files'[g].kind = "listen"
          BY <1>6, <1>7, <3>1
        <4> QED
          BY <1>4, <4>1, <4>2
      <3>2. CASE g = NewFd
        BY <1>5, <1>7, <3>2, LimitAssumption
      <3>3. CASE g \notin {ev, NewFd}
        BY <1>7, <3>3 DEF Inv, Queues
      <3> QED
        BY <3>1, <3>2, <3>3
    <2>2. ASSUME NEW g \in Fds, NEW k \in DOMAIN files'[g].queue
          PROVE  LET c == files'[g].queue[k] IN state'[c] = "queued" /\ via'[c] = files'[g].port
      <3>1. PICK m \in DOMAIN files[g].queue : files'[g].queue[k] = files[g].queue[m] /\ g # NewFd
        BY <1>11
      <3>2. LET c == files[g].queue[m] IN state[c] = "queued" /\ via[c] = files[g].port
        BY DEF Inv, Queues
      <3> QED
        BY <1>1, <1>12, <3>1, <3>2 DEF clientVars
    <2>3. ASSUME NEW g \in Fds, NEW h \in Fds,
                 NEW k \in DOMAIN files'[g].queue, NEW l \in DOMAIN files'[h].queue,
                 files'[g].queue[k] = files'[h].queue[l]
          PROVE  g = h /\ k = l
      <3>1. g = h /\ (IF g = ev THEN k + 1 ELSE k) = (IF h = ev THEN l + 1 ELSE l)
        BY <1>11, <2>3 DEF Inv, Queues
      <3>2. g = ev => k \in Nat /\ l \in Nat
        BY <1>4, <1>6, <1>7, <3>1
      <3> QED
        BY <3>1, <3>2
    <2> QED
      BY <2>1, <2>2, <2>3 DEF Queues
  <1>14. ClientInv'
    <2>1. client' \in Clients /\ state[client'] = "queued" /\ via[client'] = files[ev].port
      BY <1>1, <1>2, <1>4 DEF Inv, Queues
    <2>2. ASSUME NEW g \in Fds, NEW k \in DOMAIN files'[g].queue, files'[g].queue[k] = client'
          PROVE  FALSE
      <3>1. PICK m \in DOMAIN files[g].queue :
                   files[g].queue[m] = q[1] /\ m = IF g = ev THEN k + 1 ELSE k
        <4>1. client' = q[1]
          BY <1>1, <1>4
        <4>2. PICK m \in DOMAIN files[g].queue :
                     /\ files'[g].queue[k] = files[g].queue[m]
                     /\ m = IF g = ev THEN k + 1 ELSE k
          BY <1>11
        <4> QED
          BY <2>2, <4>1, <4>2
      <3>2. g = ev /\ m = 1
        BY <1>2, <1>4, <3>1 DEF Inv, Queues
      <3>3. k \in Nat \ {0}
        BY <1>4, <1>6, <1>7, <3>2
      <3> QED
        BY <3>1, <3>2, <3>3
    <2> QED
      BY <1>1, <1>2, <1>6, <1>7, <2>1, <2>2 DEF ClientInv, Queued, clientVars
  <1> QED
    BY <1>8, <1>9, <1>10, <1>13, <1>14 DEF Inv

(* The socket that was reported is some handler's.                         *)
LEMMA ReportedIsFound ==
    ASSUME Inv, spc = "find"
    PROVE  Found # {}
  <1>1. ev \in FdSet(fv)
    BY DEF Inv, SlotInv
  <1>2. PICK n \in DOMAIN fv : fv[n] = ev
    BY <1>1 DEF FdSet
  <1>3. n \in DOMAIN s_handlers /\ s_handlers[n].fd = ev
    BY <1>2 DEF Inv, SlotInv
  <1> QED
    BY <1>3 DEF Found

LEMMA FindInv ==
    ASSUME Inv, Find
    PROVE  Inv'
  <1>1. Found # {} /\ spc = "find"
    BY ReportedIsFound DEF Find
  <1>2. /\ spc' = "handle" /\ i' = CHOOSE n \in Found : \A m \in Found : n <= m
        /\ UNCHANGED <<s_port, s_handlers, fv, epollfd, port, sockfd, ev, client, files, clientVars>>
    BY <1>1 DEF Find
  <1>3. Found \in SUBSET Nat
    BY DEF Found, Inv, TypeInv
  <1>4. i' \in Found
    BY <1>1, <1>2, <1>3, LeastNatural
  <1>5. i' \in Nat /\ i' \in DOMAIN s_handlers /\ s_handlers[i'].fd = ev
    BY <1>3, <1>4 DEF Found
  <1>6. TypeInv'
    BY <1>2, <1>5 DEF Inv, TypeInv, Accepting, clientVars
  <1>7. OwnerInv'
    BY <1>1, <1>2 DEF Inv, OwnerInv, NoFdLeak, Before, Binding, Accepting
  <1>8. SlotInv'
    BY <1>1, <1>2, <1>5 DEF Inv, SlotInv, Binding
  <1>9. Queues' /\ ClientInv'
    BY <1>1, <1>2 DEF Inv, Queues, ClientInv, Queued, clientVars
  <1> QED
    BY <1>6, <1>7, <1>8, <1>9 DEF Inv

LEMMA HandleInv ==
    ASSUME Inv, Handle
    PROVE  Inv'
  <1>1. /\ spc = "handle" /\ spc' = "wait" /\ sockfd' = NoFd /\ client' = NoClient
        /\ files' = Close({sockfd}) /\ state' = [state EXCEPT ![client] = "served"]
        /\ UNCHANGED <<s_port, s_handlers, fv, epollfd, i, port, ev, via>>
    BY DEF Handle
  <1>2. /\ sockfd \in Fds /\ files[sockfd].kind = "client"
        /\ epollfd \in Fds /\ files[epollfd].kind = "epoll"
        /\ NoFdLeak /\ \A fd \in FdSet(fv) : fd \in Fds /\ files[fd].kind = "listen"
    BY <1>1 DEF Inv, TypeInv, OwnerInv, FdSet, Accepting
  <1>3. files' = [files EXCEPT ![sockfd] = Closed]
    BY <1>1, <1>2 DEF Close, Inv, TypeInv
  <1>4. \A g \in Fds : \A k \in DOMAIN files[g].queue :
           state'[files[g].queue[k]] = state[files[g].queue[k]]
    <2>1. \A g \in Fds : ~Queued(g, client)
      BY <1>1 DEF Inv, ClientInv
    <2>2. \A g \in Fds : \A k \in DOMAIN files[g].queue :
             files[g].queue[k] # client
      BY <2>1 DEF Queued
    <2> QED
      BY <1>1, <2>2 DEF Inv, TypeInv
  <1>5. /\ files' \in [Fds -> FileRecord] /\ Queues'
        /\ files'[sockfd] = Closed /\ \A g \in Fds \ {sockfd} : files'[g] = files[g]
    BY <1>1, <1>2, <1>3, <1>4, FileTypes, PutFile
  <1>6. TypeInv'
    BY <1>1, <1>5 DEF Inv, TypeInv, Accepting
  <1>7. OwnerInv'
    <2>1. epollfd # sockfd /\ \A fd \in FdSet(fv) : fd # sockfd
      BY <1>2
    <2>2. NoFdLeak'
      <3>1. \A fd \in Fds : files'[fd].kind \notin {"closed", "app"}
                             <=> fd # sockfd /\ files[fd].kind \notin {"closed", "app"}
        BY <1>2, <1>5, FileTypes
      <3>2. \A fd \in Fds : files[fd].kind \notin {"closed", "app"}
                             <=> fd \in FdSet(fv) \/ fd = epollfd \/ fd = sockfd
        BY <1>2 DEF NoFdLeak
      <3>3. \A fd \in Fds : files'[fd].kind \notin {"closed", "app"}
                             <=> fd \in FdSet(fv) \/ fd = epollfd
        BY <2>1, <3>1, <3>2
      <3> QED
        BY <1>1, <3>3, FdsNatural DEF NoFdLeak
    <2> QED
      BY <1>1, <1>2, <1>5, <2>1, <2>2 DEF OwnerInv, Before
  <1>8. SlotInv' /\ ClientInv'
    BY <1>1 DEF Inv, SlotInv, ClientInv, Binding
  <1> QED
    BY <1>5, <1>6, <1>7, <1>8 DEF Inv

-----------------------------------------------------------------------------
(* The environment.                                                        *)

(* A client that connects joins one queue, having been in none.            *)
LEMMA ConnectInv ==
    ASSUME Inv, NEW c \in Clients, Connect(c)
    PROVE  Inv'
  <1>1. PICK fd \in Listening :
              /\ Len(files[fd].queue) < Backlog
              /\ files' = [files EXCEPT ![fd].queue = Append(@, c)]
              /\ via' = [via EXCEPT ![c] = files[fd].port]
    BY DEF Connect
  <1> DEFINE q == files[fd].queue
  <1>2. /\ state[c] \in {"idle", "served"} /\ state' = [state EXCEPT ![c] = "queued"]
        /\ UNCHANGED <<s_port, s_handlers, fv, epollfd, spc, i, port, sockfd, ev, client>>
    BY DEF Connect, serverVars
  <1>3. /\ fd \in Fds /\ files[fd].kind = "listen" /\ files[fd] \in FileRecord
        /\ q \in Seq(Clients) /\ files[fd].port \in 0 .. PortRange - 1
    BY <1>1 DEF Listening, Inv, TypeInv, FileRecord
  <1>4. /\ Len(q) \in Nat /\ DOMAIN q = 1 .. Len(q) /\ Append(q, c) \in Seq(Clients)
        /\ Len(Append(q, c)) = Len(q) + 1 /\ DOMAIN Append(q, c) = 1 .. Len(q) + 1
        /\ Append(q, c)[Len(q) + 1] = c /\ \A k \in DOMAIN q : Append(q, c)[k] = q[k]
        /\ \A k \in 1 .. Len(q) + 1 : k = Len(q) + 1 \/ k \in DOMAIN q
        /\ Append(q, c) # <<>>
    BY <1>3
  <1>5. PICK listener \in FileRecord :
              /\ listener.kind = "listen" /\ listener.port = files[fd].port
              /\ listener.queue = Append(q, c)
              /\ files' = [files EXCEPT ![fd] = listener]
    <2>1. [files[fd] EXCEPT !.queue = Append(q, c)] \in FileRecord
      BY <1>3, <1>4 DEF FileRecord
    <2>2. files' = [files EXCEPT ![fd] = [files[fd] EXCEPT !.queue = Append(q, c)]]
      BY <1>1, <1>3 DEF Inv, TypeInv
    <2>3. LET f == [files[fd] EXCEPT !.queue = Append(q, c)]
          IN  f.kind = "listen" /\ f.port = files[fd].port /\ f.queue = Append(q, c)
      BY <1>3 DEF FileRecord
    <2> QED
      BY <2>1, <2>2, <2>3
  <1>6. /\ files' \in [Fds -> FileRecord] /\ files'[fd] = listener
        /\ \A g \in Fds \ {fd} : files'[g] = files[g]
    BY <1>3, <1>5 DEF Inv, TypeInv
  <1>7. /\ \A g \in Fds : files'[g].kind = files[g].kind /\ files'[g].port = files[g].port
        /\ state'[c] = "queued" /\ via'[c] = files[fd].port
        /\ \A d \in Clients : d # c => state'[d] = state[d] /\ via'[d] = via[d]
    BY <1>1, <1>2, <1>3, <1>5, <1>6 DEF Inv, TypeInv
  <1>8. TypeInv'
    <2>1. /\ state' \in [Clients -> {"idle", "queued", "served", "reset"}]
          /\ via' \in [Clients -> 0 .. PortRange - 1]
      BY <1>1, <1>2, <1>3 DEF Inv, TypeInv
    <2> QED
      BY <1>2, <1>6, <2>1 DEF Inv, TypeInv
  <1>9. OwnerInv'
    <2>1. NoFdLeak'
      BY <1>2, <1>7 DEF Inv, OwnerInv, NoFdLeak
    <2>2. \A g \in FdSet(fv) : g \in Fds
      BY DEF Inv, TypeInv, FdSet
    <2> QED
      BY <1>2, <1>7, <2>1, <2>2 DEF Inv, OwnerInv
  <1>10. SlotInv'
    <2>1. spc = "accept" => files'[ev].queue # <<>>
      <3>1. CASE ev = fd
        BY <1>4, <1>5, <1>6, <3>1
      <3>2. CASE ev # fd
        <4>1. spc = "accept" => ev \in Fds /\ files[ev].queue # <<>>
          BY DEF Inv, TypeInv, SlotInv, FdSet
        <4> QED
          BY <1>6, <3>2, <4>1
      <3> QED
        BY <3>1, <3>2
    <2> QED
      BY <1>2, <2>1 DEF Inv, SlotInv
  <1>11. \A g \in Fds : \A k \in DOMAIN files[g].queue :
            files[g].queue[k] # c /\ files[g].queue[k] \in Clients
    <2>1. ASSUME NEW g \in Fds, NEW k \in DOMAIN files[g].queue
          PROVE  files[g].queue[k] # c /\ files[g].queue[k] \in Clients
      <3>1. state[files[g].queue[k]] = "queued"
        BY DEF Inv, Queues
      <3>2. files[g].queue \in Seq(Clients)
        BY DEF Inv, TypeInv, FileRecord
      <3> QED
        BY <1>2, <3>1, <3>2
    <2> QED
      BY <2>1
  <1>12. ASSUME NEW g \in Fds, NEW k \in DOMAIN files'[g].queue
         PROVE  \/ g = fd /\ k = Len(q) + 1 /\ files'[g].queue[k] = c
                \/ k \in DOMAIN files[g].queue /\ files'[g].queue[k] = files[g].queue[k]
    <2>1. CASE g = fd
      BY <1>4, <1>5, <1>6, <2>1
    <2>2. CASE g # fd
      BY <1>6, <2>2
    <2> QED
      BY <2>1, <2>2
  <1>13. Queues'
    <2>1. ASSUME NEW g \in Fds
          PROVE  /\ Len(files'[g].queue) <= Backlog
                 /\ files'[g].kind # "listen" => files'[g].queue = <<>>
      <3>1. CASE g = fd
        <4>1. files'[g].queue = Append(q, c) /\ files'[g].kind = "listen"
          BY <1>5, <1>6, <3>1
        <4>2. Len(q) < Backlog /\ Backlog \in Nat
          BY <1>1, LimitAssumption
        <4> QED
          BY <1>4, <4>1, <4>2
      <3>2. CASE g # fd
        BY <1>6, <3>2 DEF Inv, Queues
      <3> QED
        BY <3>1, <3>2
    <2>2. ASSUME NEW g \in Fds, NEW k \in DOMAIN files'[g].queue
          PROVE  LET d == files'[g].queue[k] IN state'[d] = "queued" /\ via'[d] = files'[g].port
      <3>1. CASE g = fd /\ files'[g].queue[k] = c
        BY <1>7, <1>3, <3>1
      <3>2. CASE k \in DOMAIN files[g].queue /\ files'[g].queue[k] = files[g].queue[k]
        <4>1. LET d == files[g].queue[k] IN state[d] = "queued" /\ via[d] = files[g].port
          BY <3>2 DEF Inv, Queues
        <4>2. files[g].queue[k] # c /\ files[g].queue[k] \in Clients
          BY <1>11, <3>2
        <4> QED
          BY <1>7, <3>2, <4>1, <4>2
      <3> QED
        BY <1>12, <3>1, <3>2
    <2>3. ASSUME NEW g \in Fds, NEW h \in Fds,
                 NEW k \in DOMAIN files'[g].queue, NEW l \in DOMAIN files'[h].queue,
                 files'[g].queue[k] = files'[h].queue[l]
          PROVE  g = h /\ k = l
      <3>1. CASE files'[g].queue[k] = c
        <4>1. g = fd /\ k = Len(q) + 1
          BY <1>11, <1>12, <3>1
        <4>2. h = fd /\ l = Len(q) + 1
          BY <1>11, <1>12, <2>3, <3>1
        <4> QED
          BY <4>1, <4>2
      <3>2. CASE files'[g].queue[k] # c
        <4>1. k \in DOMAIN files[g].queue /\ files'[g].queue[k] = files[g].queue[k]
          BY <1>12, <3>2
        <4>2. l \in DOMAIN files[h].queue /\ files'[h].queue[l] = files[h].queue[l]
          BY <1>12, <2>3, <3>2
        <4>3. files[g].queue[k] = files[h].queue[l]
          BY <2>3, <4>1, <4>2
        <4> QED
          BY <4>1, <4>2, <4>3 DEF Inv, Queues
      <3> QED
        BY <3>1, <3>2
    <2> QED
      BY <2>1, <2>2, <2>3 DEF Queues
  <1>14. ClientInv'
    <2> SUFFICES ASSUME spc \in {"find", "handle"} PROVE ClientInv'
      BY <1>2 DEF ClientInv
    <2>1. /\ client \in Clients /\ state[client] = "queued" /\ via[client] = files[ev].port
          /\ \A g \in Fds : ~Queued(g, client)
      BY DEF Inv, ClientInv
    <2>2. client # c /\ ev \in Fds
      BY <1>2, <2>1 DEF Inv, TypeInv, SlotInv, FdSet
    <2>3. ASSUME NEW g \in Fds PROVE ~Queued(g, client)'
      <3> SUFFICES ASSUME NEW k \in DOMAIN files'[g].queue PROVE files'[g].queue[k] # client
        BY <1>2 DEF Queued
      <3> QED
        BY <1>12, <2>1, <2>2 DEF Queued
    <2> QED
      BY <1>2, <1>7, <2>1, <2>2, <2>3 DEF ClientInv
  <1> QED
    BY <1>8, <1>9, <1>10, <1>13, <1>14 DEF Inv

LEMMA PortChangeInv ==
    ASSUME Inv, TakePort \/ FreePort
    PROVE  Inv'
  <1>1. UNCHANGED <<serverVars, clientVars, files>>
    BY DEF TakePort, FreePort, Change
  <1> QED
    BY <1>1 DEF serverVars, clientVars, Inv, TypeInv, OwnerInv, NoFdLeak, SlotInv, Queues,
                ClientInv, Queued

(* The application opens and closes files of its own, also in between the  *)
(* server's.                                                               *)
LEMMA AppInv ==
    ASSUME Inv, AppOpens \/ AppCloses
    PROVE  Inv'
  <1>1. PICK fd \in Fds, f \in {File("app"), Closed} :
              files[fd].kind \in {"app", "closed"} /\ files' = [files EXCEPT ![fd] = f]
    <2>1. CASE AppOpens
      BY <2>1, NewFdIsClosed DEF AppOpens
    <2>2. CASE AppCloses
      <3>1. PICK fd \in Fds : files[fd].kind = "app" /\ files' = Close({fd})
        BY <2>2 DEF AppCloses
      <3>2. files' = [files EXCEPT ![fd] = Closed]
        BY <3>1 DEF Close, Inv, TypeInv
      <3> QED
        BY <3>1, <3>2
    <2> QED
      BY <2>1, <2>2
  <1>2. UNCHANGED <<serverVars, clientVars>>
    BY DEF AppOpens, AppCloses, Change
  <1>3. f \in FileRecord /\ f.kind \in {"app", "closed"} /\ f.queue = <<>>
    BY FileTypes DEF FileKinds
  <1>4. /\ files' \in [Fds -> FileRecord] /\ Queues'
        /\ files'[fd] = f /\ \A g \in Fds \ {fd} : files'[g] = files[g]
        /\ \A g \in Fds, c \in Clients : Queued(g, c)' => Queued(g, c)
    BY <1>1, <1>2, <1>3, PutFile DEF clientVars
  <1>5. \A g \in Fds : files[g].kind \notin {"app", "closed"} => files'[g] = files[g]
    BY <1>1, <1>4
  <1>6. TypeInv'
    BY <1>2, <1>4 DEF Inv, TypeInv, serverVars, clientVars
  <1>7. OwnerInv'
    <2>1. \A g \in Fds : files'[g].kind \notin {"closed", "app"}
                          <=> files[g].kind \notin {"closed", "app"}
      BY <1>1, <1>3, <1>4
    <2>2. NoFdLeak'
      BY <1>2, <2>1 DEF Inv, OwnerInv, NoFdLeak, serverVars
    <2>3. \A g \in FdSet(fv) : g \in Fds
      BY DEF Inv, TypeInv, FdSet
    <2> QED
      BY <1>2, <1>5, <2>2, <2>3 DEF Inv, OwnerInv, serverVars
  <1>8. spc \in {"accept", "find", "handle"} => ev \in Fds /\ files'[ev] = files[ev]
    <2>1. spc \in {"accept", "find", "handle"} => ev \in Fds /\ files[ev].kind = "listen"
      BY DEF Inv, TypeInv, OwnerInv, SlotInv, FdSet
    <2> QED
      BY <1>5, <2>1
  <1>9. SlotInv'
    BY <1>2, <1>8 DEF Inv, SlotInv, serverVars
  <1>10. ClientInv'
    BY <1>2, <1>4, <1>8 DEF Inv, ClientInv, serverVars, clientVars
  <1> QED
    BY <1>4, <1>6, <1>7, <1>9, <1>10 DEF Inv

LEMMA NextInv ==
    ASSUME Inv, [Next]_vars
    PROVE  Inv'
  <1>1. CASE UNCHANGED vars
    BY <1>1 DEF vars, serverVars, clientVars, Inv, TypeInv, OwnerInv, NoFdLeak, SlotInv, Queues,
                ClientInv, Queued
  <1>2. CASE ServerStep
    <2>1. CASE Register \/ startServer
      BY <2>1, RegisterInv, StartInv
    <2>2. CASE EpollCreate \/ Socket \/ BindFails \/ BindListen \/ Add
      BY <2>2, EpollCreateInv, SocketInv, BindFailsInv, BindListenInv, AddInv
    <2>3. CASE AddFails \/ EpollWaitFails \/ AcceptFails
      BY <2>3, ReturnsInv DEF AddFails, EpollWaitFails, AcceptFails
    <2>4. CASE Accept \/ Find \/ Handle
      BY <2>4, AcceptInv, FindInv, HandleInv
    <2> QED
      BY <1>2, <2>1, <2>2, <2>3, <2>4 DEF ServerStep
  <1>3. CASE \E fd \in Fds : EpollWait(fd)
    BY <1>3, EpollWaitInv
  <1>4. CASE \E c \in Clients : Connect(c)
    BY <1>4, ConnectInv
  <1>5. CASE TakePort \/ FreePort \/ AppOpens \/ AppCloses
    BY <1>5, PortChangeInv, AppInv
  <1> QED
    BY <1>1, <1>2, <1>3, <1>4, <1>5 DEF Next

THEOREM ServerInvariant == Spec => []Inv
  BY InitInv, NextInv, PTL DEF Spec

-----------------------------------------------------------------------------
(* The fixed arrays are never written past their ends, however many        *)
(* handlers are registered and however often binding is retried.           *)
THEOREM ServerTypeCorrect == Spec => []TypeOK
  <1>1. Inv => TypeOK
    <2> SUFFICES ASSUME Inv PROVE TypeOK
      OBVIOUS
    <2>1. \A fd \in Fds : FileType(files[fd])
      <3> SUFFICES ASSUME NEW fd \in Fds PROVE FileType(files[fd])
        OBVIOUS
      <3>1. files[fd] \in FileRecord /\ Len(files[fd].queue) <= Backlog
        BY DEF Inv, TypeInv, Queues
      <3>2. FdSet(files[fd].queue) \subseteq Clients
        BY <3>1 DEF FileRecord, FdSet
      <3> QED
        BY <3>1, <3>2 DEF FileType, FileRecord, FileKinds
    <2>2. FdSet(fv) \subseteq Fds
      BY DEF Inv, TypeInv, FdSet
    <2>3. Len(fv) <= max_owners
      <3>1. /\ Len(fv) \in Nat /\ DOMAIN fv = 1 .. Len(fv)
            /\ Len(s_handlers) \in Nat /\ DOMAIN s_handlers = 1 .. Len(s_handlers)
        BY DEF Inv, TypeInv
      <3>2. Len(fv) <= Len(s_handlers)
        <4>1. CASE Len(fv) = 0
          BY <3>1, <4>1
        <4>2. CASE Len(fv) # 0
          <5>1. Len(fv) \in DOMAIN fv
            BY <3>1, <4>2
          <5>2. Len(fv) \in DOMAIN s_handlers
            BY <5>1 DEF Inv, SlotInv
          <5> QED
            BY <3>1, <5>2
        <4> QED
          BY <4>1, <4>2
      <3>3. Len(s_handlers) <= MAX_HANDLER_COUNT
        BY DEF Inv, TypeInv
      <3> QED
        BY <3>1, <3>2, <3>3, LimitAssumption
    <2> QED
      BY <2>1, <2>2, <2>3 DEF TypeOK, Inv, TypeInv
  <1> QED
    BY <1>1, ServerInvariant, PTL

(* Descriptors do not leak on any path, whatever the application opens and *)
(* closes in between.                                                      *)
THEOREM DescriptorsOwned == Spec => []NoFdLeak
  <1>1. Inv => NoFdLeak
    BY DEF Inv, OwnerInv
  <1> QED
    BY <1>1, ServerInvariant, PTL

(* A client always meets a handler, and the one whose socket it connected  *)
(* to: descriptor numbers are reused, but never that of a listening socket *)
(* the server still watches.                                               *)
THEOREM ClientsMeetTheirHandler == Spec => []ServedByOwner
  <1>1. Inv => ServedByOwner
    BY ReportedIsFound DEF Inv, SlotInv, ClientInv, ServedByOwner
  <1> QED
    BY <1>1, ServerInvariant, PTL

-----------------------------------------------------------------------------
(* The slots of a serving server.                                          *)

ListenInv ==
    /\ \A n, m \in DOMAIN fv : fv[n] = fv[m] => n = m
    /\ \A n \in DOMAIN fv : s_handlers[n].port # 0 => files[fv[n]].port = s_handlers[n].port
    /\ spc = "add" /\ port # 0 => files[sockfd].port = port
    /\ spc \in Accepting => Len(fv) = Len(s_handlers)

(* A listening socket keeps its port until the server returns.             *)
LEMMA PortsKept ==
    ASSUME Inv, Next, spc' # "returned"
    PROVE  \A fd \in Fds : files[fd].kind = "listen" => files'[fd].port = files[fd].port
  <1> SUFFICES ASSUME NEW fd \in Fds, files[fd].kind = "listen"
               PROVE  files'[fd].port = files[fd].port
    OBVIOUS
  <1>1. files \in [Fds -> FileRecord] /\ files[fd] \in FileRecord
    BY DEF Inv, TypeInv
  <1>2. NewFd = NoFd \/ NewFd # fd
    BY NewFdIsClosed
  <1>3. CASE UNCHANGED files
    BY <1>3
  <1>4. CASE \E f : files' = [files EXCEPT ![NewFd] = f] /\ NewFd # NoFd
    BY <1>1, <1>2, <1>4
  <1>5. CASE spc \in {"bind", "handle"} /\ files' = Close({sockfd})
    BY <1>1, <1>5 DEF Close, Inv, OwnerInv
  <1>6. CASE BindListen
    BY <1>1, <1>6 DEF BindListen, Inv, OwnerInv
  <1>7. CASE Accept
    <2>1. NewFd \in Fds /\ NewFd # fd
      BY <1>7, NewFdIsClosed DEF Accept
    <2>2. files' = [files EXCEPT ![ev].queue = Tail(@), ![NewFd] = File("client")]
      BY <1>7 DEF Accept
    <2> QED
      BY <1>1, <2>1, <2>2 DEF FileRecord
  <1>8. CASE \E c \in Clients : Connect(c)
    BY <1>1, <1>8 DEF Connect, FileRecord
  <1>9. CASE AppCloses
    BY <1>1, <1>9 DEF AppCloses, Close
  <1>10. CASE Register \/ startServer \/ Add \/ Find
    <2>1. UNCHANGED files
      BY <1>10 DEF Register, startServer, Add, Find, ServerReturns
    <2> QED
      BY <2>1
  <1>11. CASE EpollCreate \/ Socket \/ AppOpens
    BY <1>3, <1>4, <1>11 DEF EpollCreate, Socket, AppOpens, ServerReturns
  <1>12. CASE BindFails \/ Handle
    BY <1>5, <1>12 DEF BindFails, Handle
  <1>13. CASE TakePort \/ FreePort \/ \E g \in Fds : EpollWait(g)
    BY <1>3, <1>13 DEF TakePort, FreePort, EpollWait
  <1>14. CASE AddFails \/ EpollWaitFails \/ AcceptFails
    BY <1>14 DEF AddFails, EpollWaitFails, AcceptFails, ServerReturns
  <1> QED
    BY <1>6, <1>7, <1>8, <1>9, <1>10, <1>11, <1>12, <1>13, <1>14 DEF Next, ServerStep

LEMMA SameInterval ==
    ASSUME NEW a \in Nat, NEW b \in Nat, 1 .. a = 1 .. b
    PROVE  a = b
  <1>1. a # 0 => a \in 1 .. b
    OBVIOUS
  <1>2. b # 0 => b \in 1 .. a
    OBVIOUS
  <1> QED
    BY <1>1, <1>2

LEMMA ListenInvStep ==
    ASSUME Inv, Inv', ListenInv, [Next]_vars
    PROVE  ListenInv'
  <1>1. CASE UNCHANGED vars
    BY <1>1 DEF vars, serverVars, ListenInv
  <1>2. CASE spc' = "returned"
    <2>1. fv' = <<>>
      BY <1>2 DEF Inv, OwnerInv
    <2> QED
      BY <1>2, <2>1 DEF ListenInv, Accepting
  <1>3. CASE Next /\ spc' # "returned"
    <2>1. /\ \A fd \in Fds : files[fd].kind = "listen" => files'[fd].port = files[fd].port
          /\ \A n \in DOMAIN fv : fv[n] \in Fds /\ files[fv[n]].kind = "listen"
      BY <1>3, PortsKept DEF Inv, OwnerInv, TypeInv, FdSet
    <2>2. \A n \in DOMAIN fv : files'[fv[n]].port = files[fv[n]].port
      BY <2>1
    <2>3. CASE spc = "add" /\ Add
      <3>1. /\ s_handlers' = [s_handlers EXCEPT ![i].fd = sockfd, ![i].port = port]
            /\ fv' = Append(fv, sockfd) /\ UNCHANGED files
            /\ spc' = IF i = Len(s_handlers) THEN "wait" ELSE "socket"
        BY <2>3 DEF Add
      <3>2. /\ sockfd \in Fds /\ sockfd \notin FdSet(fv)
            /\ i \in DOMAIN s_handlers /\ i = Len(fv) + 1
            /\ fv \in Seq(Fds) /\ s_handlers \in Seq(Slot)
        BY <2>3 DEF Inv, OwnerInv, SlotInv, TypeInv, Binding
      <3>3. /\ Len(fv) \in Nat /\ DOMAIN fv = 1 .. Len(fv) /\ DOMAIN fv' = 1 .. Len(fv) + 1
            /\ \A n \in DOMAIN fv : fv'[n] = fv[n] /\ n # i
            /\ fv'[i] = sockfd /\ \A n \in DOMAIN fv' : n \in DOMAIN fv \/ n = i
            /\ Len(fv') = i
        <4>1. /\ Len(fv) \in Nat /\ DOMAIN fv = 1 .. Len(fv)
              /\ DOMAIN Append(fv, sockfd) = 1 .. Len(fv) + 1
              /\ \A n \in 1 .. Len(fv) : Append(fv, sockfd)[n] = fv[n]
              /\ Append(fv, sockfd)[Len(fv) + 1] = sockfd
              /\ Len(Append(fv, sockfd)) = Len(fv) + 1
          BY <3>2
        <4>2. \A n \in 1 .. Len(fv) + 1 : n \in 1 .. Len(fv) \/ n = i
          BY <3>2, <4>1
        <4>3. \A n \in 1 .. Len(fv) : n # i
          BY <3>2, <4>1
        <4>4. \A n \in DOMAIN fv : fv'[n] = fv[n] /\ n # i
          BY <3>1, <4>1, <4>3
        <4>5. DOMAIN fv' = 1 .. Len(fv) + 1 /\ \A n \in DOMAIN fv' : n \in DOMAIN fv \/ n = i
          BY <3>1, <4>1, <4>2
        <4>6. fv'[i] = sockfd /\ Len(fv') = i
          BY <3>1, <3>2, <4>1
        <4> QED
          BY <4>1, <4>4, <4>5, <4>6
      <3>4. /\ Len(s_handlers') = Len(s_handlers) /\ s_handlers'[i].port = port
            /\ \A n \in DOMAIN fv : s_handlers'[n].port = s_handlers[n].port
        <4>1. \A n \in DOMAIN fv : n \in DOMAIN s_handlers /\ n # i
          BY <3>3 DEF Inv, SlotInv
        <4>2. /\ DOMAIN s_handlers' = DOMAIN s_handlers
              /\ \A n \in DOMAIN s_handlers : n # i => s_handlers'[n] = s_handlers[n]
          BY <3>1
        <4>3. s_handlers'[i].port = port
          <5>1. s_handlers[i] \in Slot
            BY <3>2
          <5> QED
            BY <3>1, <3>2, <5>1 DEF Slot
        <4>4. Len(s_handlers') = Len(s_handlers)
          <5>1. /\ s_handlers' \in Seq(Slot) /\ Len(s_handlers') \in Nat
                /\ DOMAIN s_handlers' = 1 .. Len(s_handlers')
            BY DEF Inv, TypeInv
          <5>2. Len(s_handlers) \in Nat /\ DOMAIN s_handlers = 1 .. Len(s_handlers)
            BY <3>2
          <5> QED
            BY <4>2, <5>1, <5>2, SameInterval
        <4> QED
          BY <4>1, <4>2, <4>3, <4>4
      <3>5. \A n \in DOMAIN fv : fv[n] # sockfd
        BY <3>2 DEF FdSet
      <3>6. \A n, m \in DOMAIN fv' : fv'[n] = fv'[m] => n = m
        BY <3>3, <3>5 DEF ListenInv
      <3>7. ASSUME NEW n \in DOMAIN fv', s_handlers'[n].port # 0
            PROVE  files'[fv'[n]].port = s_handlers'[n].port
        <4>1. CASE n = i
          BY <2>3, <3>1, <3>3, <3>4, <3>7, <4>1 DEF ListenInv
        <4>2. CASE n \in DOMAIN fv
          BY <3>1, <3>3, <3>4, <3>7, <4>2 DEF ListenInv
        <4> QED
          BY <3>3, <3>7, <4>1, <4>2
      <3>8. /\ spc' # "add" /\ (spc' \in Accepting => i = Len(s_handlers))
        BY <3>1 DEF Accepting
      <3> QED
        BY <3>3, <3>4, <3>6, <3>7, <3>8 DEF ListenInv
    <2>4. CASE BindListen
      <3>1. /\ UNCHANGED <<fv, s_handlers, port, sockfd>> /\ spc' = "add"
            /\ port # 0 => files' = [files EXCEPT ![sockfd] = [File("listen") EXCEPT !.port = port]]
        BY <2>4 DEF BindListen, Bindable
      <3>2. sockfd \in Fds /\ files \in [Fds -> FileRecord] /\ port \in 0 .. PortRange - 1
        BY <2>4 DEF BindListen, Inv, TypeInv, OwnerInv
      <3>3. port # 0 => files'[sockfd].port = port
        BY <3>1, <3>2, FileTypes
      <3> QED
        BY <2>2, <3>1, <3>3 DEF ListenInv, Accepting
    <2>5. CASE Register
      <3>1. fv' = <<>> /\ spc' \notin Accepting /\ spc' # "add"
        BY <2>5 DEF Register, Inv, OwnerInv, Before, Accepting
      <3> QED
        BY <3>1 DEF ListenInv
    <2>6. CASE ~(Add \/ BindListen \/ Register)
      <3>1. UNCHANGED <<fv, s_handlers>>
        BY <1>3, <2>6 DEF Next, ServerStep, startServer, EpollCreate, Socket, BindFails, AddFails,
           EpollWaitFails, Accept, AcceptFails, Find, Handle, ServerReturns, EpollWait, Connect,
           TakePort, FreePort, AppOpens, AppCloses, Change, serverVars
      <3>2. /\ spc' \in Accepting => spc \in Accepting
            /\ spc' = "add" => spc = "add" /\ UNCHANGED <<port, sockfd>>
        BY <1>3, <2>6 DEF Next, ServerStep, startServer, EpollCreate, Socket, BindFails, AddFails,
           EpollWaitFails, Accept, AcceptFails, Find, Handle, ServerReturns, EpollWait, Connect,
           TakePort, FreePort, AppOpens, AppCloses, Change, serverVars, Accepting
      <3>3. spc = "add" => sockfd \in Fds /\ files[sockfd].kind = "listen"
        BY DEF Inv, OwnerInv
      <3> QED
        BY <2>1, <2>2, <3>1, <3>2, <3>3 DEF ListenInv
    <2> QED
      BY <2>3, <2>4, <2>5, <2>6 DEF Add
  <1> QED
    BY <1>1, <1>2, <1>3

(* While the server serves, the slots have different descriptors, each of  *)
(* a listening socket that is still open, on the port recorded for it      *)
(* unless that is 0, for which the kernel picks one.                       *)
THEOREM SlotsKeepListening == Spec => []HandlersListen
  <1>1. Inv /\ ListenInv => HandlersListen
    <2> SUFFICES ASSUME Inv, ListenInv, Serving
                 PROVE  HandlersListen
      BY DEF HandlersListen
    <2>1. DOMAIN fv = DOMAIN s_handlers
      <3>1. /\ Len(fv) = Len(s_handlers)
            /\ DOMAIN fv = 1 .. Len(fv) /\ DOMAIN s_handlers = 1 .. Len(s_handlers)
        BY DEF Inv, TypeInv, ListenInv, Serving, Accepting
      <3> QED
        BY <3>1
    <2>2. \A n \in DOMAIN fv : /\ s_handlers[n].fd = fv[n]
                               /\ fv[n] \in Fds /\ files[fv[n]].kind = "listen"
      BY DEF Inv, TypeInv, OwnerInv, SlotInv, FdSet
    <2>3. ASSUME NEW n \in DOMAIN s_handlers
          PROVE  /\ s_handlers[n].fd \in Listening
                 /\ s_handlers[n].port # 0 => files[s_handlers[n].fd].port = s_handlers[n].port
      BY <2>1, <2>2 DEF Listening, ListenInv
    <2>4. ASSUME NEW n \in DOMAIN s_handlers, NEW m \in DOMAIN s_handlers,
                 s_handlers[n].fd = s_handlers[m].fd
          PROVE  n = m
      BY <2>1, <2>2, <2>4 DEF ListenInv
    <2> QED
      BY <2>3, <2>4 DEF HandlersListen
  <1>2. Init => ListenInv
    BY DEF Init, ListenInv, Accepting
  <1>3. Spec => []ListenInv
    BY <1>2, ListenInvStep, ServerInvariant, PTL DEF Spec
  <1> QED
    BY <1>1, <1>3, ServerInvariant, PTL
=============================================================================
