----------------------------- MODULE HeapServer -----------------------------
(***************************************************************************)
(* The heap server, src/HeapServer.cpp: Constructor registers handlers and *)
(* starts a thread that gives each its own port, then accepts one client   *)
(* at a time and dispatches it by the listening socket it came through.    *)
(*                                                                         *)
(* The process's file descriptors are shared with the application, and the *)
(* kernel gives out the lowest free one: a number is reused as soon as it  *)
(* is closed.  What a handler does for its client is in HeapInterpose and  *)
(* HeapSnapshot.                                                           *)
(***************************************************************************)
EXTENDS Integers, Sequences, FiniteSets

CONSTANTS
    Handlers,           \* the handlers Constructor registers, in order
    Clients,            \* TCP clients, which connect again and again
    MaxFd,              \* the last descriptor the process may have
    MAX_HANDLER_COUNT,
    max_owners,         \* of FileOwnerVector
    Backlog,            \* connections a listening socket queues
    FirstPort,          \* initial s_port
    PortRange,          \* 2^16: s_port is a uint16_t
    Ephemeral,          \* ports the kernel picks from for port 0
    BusyPorts,          \* ports other processes take and give back
    KernelFails,        \* TRUE: pthread_create, epoll_* and accept may fail
    NoClient,
    MaxChanges          \* steps of other processes and of the application

ASSUME FdAssumption == MaxFd \in Nat
ASSUME PortAssumption ==
    /\ PortRange \in Nat /\ FirstPort \in 0 .. PortRange - 1
    /\ Ephemeral \cup BusyPorts \subseteq 1 .. PortRange - 1
ASSUME LimitAssumption ==
    /\ MAX_HANDLER_COUNT \in Nat /\ max_owners \in Nat /\ MAX_HANDLER_COUNT <= max_owners
    /\ Backlog \in Nat \ {0} /\ MaxChanges \in Nat /\ KernelFails \in BOOLEAN
    /\ NoClient \notin Clients /\ Handlers # <<>>

Fds == 0 .. MaxFd
NoFd == -1
Closed == [kind |-> "closed", port |-> 0, queue |-> <<>>]
File(kind) == [Closed EXCEPT !.kind = kind]

VARIABLES
    s_port,
    s_handlers,     \* handler_, serverPort_ and fd_ of each slot; s_client_count is its length
    files,          \* descriptor -> open file
    fv,             \* FileOwnerVector: the listening sockets kept open
    epollfd,
    spc,            \* next step of Constructor, then of the server thread
    i,              \* the loop's index: the handler to register, bind or call
    port,           \* port being tried
    sockfd,         \* socket being set up, or the client's
    ev,             \* descriptor epoll reported
    client,         \* client being served
    state,          \* client -> "idle", "queued", "served", "reset"
    via,            \* client -> the port it connected to
    taken,          \* ports held by other processes
    changes

serverVars == <<s_port, s_handlers, fv, epollfd, spc, i, port, sockfd, ev, client>>
clientVars == <<state, via>>
envVars == <<taken, changes>>
vars == <<serverVars, files, clientVars, envVars>>

-----------------------------------------------------------------------------
(* Descriptors.                                                            *)

FreeFds == {fd \in Fds : files[fd].kind = "closed"}

(* The lowest free descriptor; -1, EMFILE, if there is none.               *)
NewFd == IF FreeFds = {} THEN NoFd ELSE CHOOSE fd \in FreeFds : \A g \in FreeFds : fd <= g

Close(fds) == [fd \in Fds |-> IF fd \in fds THEN Closed ELSE files[fd]]

FdSet(seq) == {seq[n] : n \in DOMAIN seq}

Listening == {fd \in Fds : files[fd].kind = "listen"}

Bound(p) == p \in taken \/ \E fd \in Listening : files[fd].port = p

(* The ports a bind to p may give: for port 0 any the kernel has left.     *)
Bindable(p) == {q \in IF p = 0 THEN Ephemeral ELSE {p} : ~Bound(q)}

(* Mutant: the descriptors have no owner, and stay open.                   *)
ReturnsUnclosed ==
    /\ spc' = "returned"
    /\ fv' = <<>>
    /\ epollfd' = NoFd /\ sockfd' = NoFd /\ client' = NoClient
    /\ UNCHANGED <<s_port, s_handlers, i, port, ev, files, state, via, envVars>>

(* The thread returns: its FileOwners and fv close what they own, and the  *)
(* kernel resets the clients that were still queued there.                 *)
ServerReturns ==
    LET mine == (FdSet(fv) \cup {epollfd, sockfd}) \cap Fds
        reset == UNION {FdSet(files[fd].queue) : fd \in mine}
    IN  /\ spc' = "returned"
        /\ files' = Close(mine)
        /\ fv' = <<>>
        /\ epollfd' = NoFd /\ sockfd' = NoFd /\ client' = NoClient
        /\ state' = [c \in Clients |->
                        IF c \in reset \cup {client} THEN "reset" ELSE state[c]]
        /\ UNCHANGED <<s_port, s_handlers, i, port, ev, via, envVars>>

-----------------------------------------------------------------------------
(* Constructor.                                                            *)

(* Mutant: no limit.                                                       *)
registerAnyClient(h) ==
    s_handlers' = Append(s_handlers, [handler |-> h, port |-> 0, fd |-> 0])

(* A handler too many is deleted.                                          *)
registerClient(h) ==
    s_handlers' = IF Len(s_handlers) >= MAX_HANDLER_COUNT THEN s_handlers
                  ELSE Append(s_handlers, [handler |-> h, port |-> 0, fd |-> 0])

Register ==
    /\ spc = "register"
    /\ registerClient(Handlers[i])
    /\ i' = i + 1
    /\ spc' = IF i = Len(Handlers) THEN "start" ELSE "register"
    /\ UNCHANGED <<s_port, fv, epollfd, port, sockfd, ev, client, files, clientVars, envVars>>

startServer ==
    /\ spc = "start"
    /\ \/ s_handlers # <<>> /\ spc' = "epoll"
       \/ (s_handlers = <<>> \/ KernelFails) /\ spc' = "returned"
    /\ i' = 1
    /\ UNCHANGED <<s_port, s_handlers, fv, epollfd, port, sockfd, ev, client,
                   files, clientVars, envVars>>

-----------------------------------------------------------------------------
(* serverFunc.                                                             *)

EpollCreate ==
    /\ spc = "epoll"
    /\ IF NewFd = NoFd THEN ServerReturns
       ELSE /\ epollfd' = NewFd
            /\ files' = [files EXCEPT ![NewFd] = File("epoll")]
            /\ spc' = "socket"
            /\ UNCHANGED <<s_port, s_handlers, fv, i, port, sockfd, ev, client,
                           clientVars, envVars>>

(* Mutant: the next attempt is for the same port.                          *)
SamePortAgain ==
    /\ spc = "socket"
    /\ port' = s_port
    /\ sockfd' = NewFd
    /\ IF NewFd = NoFd THEN UNCHANGED <<files, spc>>
       ELSE files' = [files EXCEPT ![NewFd] = File("socket")] /\ spc' = "bind"
    /\ UNCHANGED <<s_port, s_handlers, fv, epollfd, i, ev, client, clientVars, envVars>>

(* createServerSocket(s_port++), first half: socket.  When there is no     *)
(* descriptor the loop goes on to the next port.                           *)
Socket ==
    /\ spc = "socket"
    /\ port' = s_port
    /\ s_port' = (s_port + 1) % PortRange
    /\ sockfd' = NewFd
    /\ IF NewFd = NoFd THEN UNCHANGED <<files, spc>>
       ELSE files' = [files EXCEPT ![NewFd] = File("socket")] /\ spc' = "bind"
    /\ UNCHANGED <<s_handlers, fv, epollfd, i, ev, client, clientVars, envVars>>

(* Mutant: a failed attempt leaves its socket open.                        *)
BindLeaks ==
    /\ spc = "bind"
    /\ Bindable(port) = {}
    /\ sockfd' = NoFd
    /\ spc' = "socket"
    /\ UNCHANGED <<s_port, s_handlers, fv, epollfd, i, port, ev, client, files,
                   clientVars, envVars>>

(* Second half: bind and listen.  A failure closes the socket, and the     *)
(* loop goes on to the next port.                                          *)
BindFails ==
    /\ spc = "bind"
    /\ Bindable(port) = {}
    /\ files' = Close({sockfd})
    /\ sockfd' = NoFd
    /\ spc' = "socket"
    /\ UNCHANGED <<s_port, s_handlers, fv, epollfd, i, port, ev, client,
                   clientVars, envVars>>

BindListen ==
    /\ spc = "bind"
    /\ \E p \in Bindable(port) :
          files' = [files EXCEPT ![sockfd] = [File("listen") EXCEPT !.port = p]]
    /\ spc' = "add"
    /\ UNCHANGED <<s_port, s_handlers, fv, epollfd, i, port, sockfd, ev, client,
                   clientVars, envVars>>

(* Mutant: the socket is not kept in fv, and is closed on the next turn.   *)
AddUnowned ==
    /\ spc = "add"
    /\ s_handlers' = [s_handlers EXCEPT ![i].fd = sockfd, ![i].port = port]
    /\ files' = Close({sockfd})
    /\ sockfd' = NoFd
    /\ i' = i + 1
    /\ spc' = IF i = Len(s_handlers) THEN "wait" ELSE "socket"
    /\ UNCHANGED <<s_port, fv, epollfd, port, ev, client, clientVars, envVars>>

(* The socket is added to the epoll set, recorded, and moved into fv.      *)
Add ==
    /\ spc = "add"
    /\ s_handlers' = [s_handlers EXCEPT ![i].fd = sockfd, ![i].port = port]
    /\ fv' = Append(fv, sockfd)
    /\ sockfd' = NoFd
    /\ i' = i + 1
    /\ spc' = IF i = Len(s_handlers) THEN "wait" ELSE "socket"
    /\ UNCHANGED <<s_port, epollfd, port, ev, client, files, clientVars, envVars>>

AddFails == spc = "add" /\ KernelFails /\ ServerReturns

EpollWait(fd) ==
    /\ spc = "wait"
    /\ fd \in FdSet(fv) /\ files[fd].queue # <<>>
    /\ ev' = fd
    /\ spc' = "accept"
    /\ UNCHANGED <<s_port, s_handlers, fv, epollfd, i, port, sockfd, client, files,
                   clientVars, envVars>>

EpollWaitFails == spc = "wait" /\ KernelFails /\ ServerReturns

Accept ==
    /\ spc = "accept"
    /\ NewFd # NoFd
    /\ files' = [files EXCEPT ![ev].queue = Tail(@), ![NewFd] = File("client")]
    /\ client' = Head(files[ev].queue)
    /\ sockfd' = NewFd
    /\ spc' = "find"
    /\ UNCHANGED <<s_port, s_handlers, fv, epollfd, i, port, ev, clientVars, envVars>>

AcceptFails ==
    /\ spc = "accept"
    /\ NewFd = NoFd \/ KernelFails
    /\ ServerReturns

Found == {n \in DOMAIN s_handlers : s_handlers[n].fd = ev}

(* Mutant: the comparison is the wrong way round.                          *)
FindOther ==
    /\ spc = "find"
    /\ Found # {}
    /\ i' = CHOOSE n \in DOMAIN s_handlers : n \notin Found
    /\ spc' = "handle"
    /\ UNCHANGED <<s_port, s_handlers, fv, epollfd, port, sockfd, ev, client, files,
                   clientVars, envVars>>

(* The branch in which none is found is the one the code calls impossible. *)
Find ==
    /\ spc = "find"
    /\ IF Found # {}
       THEN /\ i' = CHOOSE n \in Found : \A m \in Found : n <= m
            /\ spc' = "handle"
            /\ UNCHANGED <<s_port, s_handlers, fv, epollfd, port, sockfd, ev, client,
                           files, clientVars, envVars>>
       ELSE ServerReturns

(* handleClient, under the ledger's lock; then the client's socket closes. *)
Handle ==
    /\ spc = "handle"
    /\ state' = [state EXCEPT ![client] = "served"]
    /\ files' = Close({sockfd})
    /\ sockfd' = NoFd
    /\ client' = NoClient
    /\ spc' = "wait"
    /\ UNCHANGED <<s_port, s_handlers, fv, epollfd, i, port, ev, via, envVars>>

-----------------------------------------------------------------------------
(* The environment: clients, other processes, and the application.         *)

Connect(c) ==
    /\ state[c] \in {"idle", "served"}
    /\ \E fd \in Listening :
          /\ Len(files[fd].queue) < Backlog
          /\ files' = [files EXCEPT ![fd].queue = Append(@, c)]
          /\ via' = [via EXCEPT ![c] = files[fd].port]
    /\ state' = [state EXCEPT ![c] = "queued"]
    /\ UNCHANGED <<serverVars, envVars>>

Change ==
    /\ changes < MaxChanges
    /\ changes' = changes + 1
    /\ UNCHANGED <<serverVars, clientVars>>

TakePort == Change /\ UNCHANGED files /\ \E p \in BusyPorts : ~Bound(p) /\ taken' = taken \cup {p}

FreePort == Change /\ UNCHANGED files /\ \E p \in taken : taken' = taken \ {p}

AppOpens ==
    /\ Change
    /\ NewFd # NoFd
    /\ files' = [files EXCEPT ![NewFd] = File("app")]
    /\ UNCHANGED taken

AppCloses ==
    /\ Change
    /\ \E fd \in Fds : files[fd].kind = "app" /\ files' = Close({fd})
    /\ UNCHANGED taken

-----------------------------------------------------------------------------
Init ==
    /\ s_port = FirstPort /\ s_handlers = <<>>
    /\ files = [fd \in Fds |-> IF fd = 0 THEN File("app") ELSE Closed]
    /\ fv = <<>> /\ epollfd = NoFd /\ sockfd = NoFd /\ ev = NoFd
    /\ spc = "register" /\ i = 1 /\ port = 0
    /\ client = NoClient
    /\ state = [c \in Clients |-> "idle"] /\ via = [c \in Clients |-> 0]
    /\ taken \in SUBSET BusyPorts /\ changes = 0

ServerStep ==
    \/ Register \/ startServer
    \/ EpollCreate \/ Socket \/ BindFails \/ BindListen \/ Add \/ AddFails
    \/ EpollWaitFails \/ Accept \/ AcceptFails \/ Find \/ Handle

Next ==
    \/ ServerStep
    \/ \E fd \in Fds : EpollWait(fd)
    \/ \E c \in Clients : Connect(c)
    \/ TakePort \/ FreePort \/ AppOpens \/ AppCloses

Spec == Init /\ [][Next]_vars

(* The thread runs, and epoll rotates its ready list: a socket that stays  *)
(* ready is reported.                                                      *)
FairSpec ==
    Spec /\ WF_vars(ServerStep) /\ \A fd \in Fds : SF_vars(EpollWait(fd))

-----------------------------------------------------------------------------
(* Properties.                                                             *)

FileType(f) ==
    /\ f.kind \in {"closed", "app", "epoll", "socket", "listen", "client"}
    /\ f.port \in 0 .. PortRange - 1
    /\ FdSet(f.queue) \subseteq Clients /\ Len(f.queue) <= Backlog

(* Types; the two fixed arrays are never written past their ends, however  *)
(* many handlers are registered.                                           *)
TypeOK ==
    /\ s_port \in 0 .. PortRange - 1 /\ port \in 0 .. PortRange - 1
    /\ Len(s_handlers) <= MAX_HANDLER_COUNT /\ Len(fv) <= max_owners
    /\ \A fd \in Fds : FileType(files[fd])
    /\ FdSet(fv) \cup {epollfd, sockfd, ev} \subseteq Fds \cup {NoFd}
    /\ client \in Clients \cup {NoClient}

(* No descriptor leaks: between steps, on every path out of the loops, the *)
(* thread's open files are those its owners still hold.                    *)
NoFdLeak ==
    {fd \in Fds : files[fd].kind \notin {"closed", "app"}}
        = (FdSet(fv) \cup {epollfd, sockfd}) \cap Fds

Serving == spc \in {"wait", "accept", "find", "handle"}

(* While the server serves, each slot's descriptor is a listening socket   *)
(* still open, on the port recorded and logged for it, and no other        *)
(* slot's: descriptor numbers are reused, so this holds only because fv    *)
(* keeps every socket.  A port recorded as 0 is the one the kernel picked  *)
(* after s_port had wrapped.                                               *)
HandlersListen ==
    Serving =>
        /\ \A n \in DOMAIN s_handlers :
              /\ s_handlers[n].fd \in Listening
              /\ s_handlers[n].port # 0 => files[s_handlers[n].fd].port = s_handlers[n].port
        /\ \A n, m \in DOMAIN s_handlers : s_handlers[n].fd = s_handlers[m].fd => n = m

(* A client is served by the handler whose port it connected to: the       *)
(* socket epoll reported belongs to a handler, and to the right one.       *)
ServedByOwner ==
    /\ spc = "find" => Found # {}
    /\ spc = "handle" => files[s_handlers[i].fd].port = via[client]

(* The thread looks for a descriptor for a listening socket and there is   *)
(* none: its loop neither ends nor returns while that is so.               *)
SocketStarves == <>[](spc = "socket" /\ FreeFds = {})

(* The server gets a port for every handler, whatever ports others hold    *)
(* and although s_port wraps, unless a call of the kernel makes the thread *)
(* return, or the process never again has a descriptor to give it.         *)
PortsFound == SocketStarves \/ (spc = "register" ~> Serving \/ spc = "returned")

(* A client in a socket's queue is served, however often clients of the    *)
(* other socket connect; or it is reset, never left waiting on a socket    *)
(* nobody accepts from, unless the thread still looks for a descriptor for *)
(* the other socket.                                                       *)
ClientsAnswered ==
    SocketStarves \/ \A c \in Clients : state[c] = "queued" ~> state[c] \in {"served", "reset"}
=============================================================================
