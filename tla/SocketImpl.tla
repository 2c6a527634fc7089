----------------------------- MODULE SocketImpl -----------------------------
(***************************************************************************)
(* The socket objects of a process (src/net/socket_impl.h, with the public *)
(* facade of src/net/socket_base.cpp) over one kernel descriptor table.    *)
(*                                                                         *)
(* A socket object caches what it believes of a kernel socket: the         *)
(* descriptor, a state, the directions it shut down.  Each public call is  *)
(* one action: the library starts no thread, so what interleaves is the    *)
(* calls on different objects and the kernel's own progress on connections *)
(* in the background.                                                      *)
(***************************************************************************)
EXTENDS PosixSocket

CONSTANTS
    Servers,         \* slots that hold ServerSocket objects
    Streams,         \* slots that hold StreamSocket objects
    Datagrams,       \* slots that hold DatagramSocket objects
    FD,              \* descriptors the process may have open at once
    INVALID_SOCKET,  \* the descriptor of an object that has none (-1)
    Nobody,          \* the holder of a descriptor that is not open
    Domains,         \* address families passed to create
    Hosts,           \* address texts passed to bind and connect
    MaxBacklog,      \* connections that may wait on a listening socket
    CloseErr,        \* how close() may fail on an open descriptor
    Receivers,       \* slots the application moves a SocketImpl to
    Uses             \* calls the application makes beyond the usual ones

Obj == Servers \cup Streams \cup Datagrams

(***************************************************************************)
(* CloseErr: POSIX leaves open whether a failed close() releases the       *)
(* descriptor; "released" is Linux, "kept" the other reading.              *)
(* Receivers: the facade classes move none; a SocketImpl used by itself    *)
(* may be moved, from any stream slot.                                     *)
(* Uses: "acceptOpen" accepts into a StreamSocket that is already open.    *)
(***************************************************************************)
ASSUME KindsAssumption ==
    /\ Servers \cap Streams = {}
    /\ Servers \cap Datagrams = {}
    /\ Streams \cap Datagrams = {}

ASSUME NamesAssumption ==
    /\ INVALID_SOCKET \notin FD
    /\ Nobody \notin Obj

ASSUME EnvironmentAssumption ==
    /\ Domains \subseteq {"AF_INET", "AF_INET6", "AF_UNIX"}
    /\ Hosts \subseteq {"valid", "invalid"}
    /\ MaxBacklog \in Nat \ {0}
    /\ CloseErr \subseteq {"kept", "released"}
    /\ Receivers \subseteq Streams
    /\ Uses \subseteq {"acceptOpen"}

VARIABLES
    m_fd,        \* descriptor of each object
    m_state,     \* EnumSocketState of each object
    m_shutdown,  \* directions each object has asked to shut down
    m_domain,    \* address family of each object, AF_UNSPEC when unset
    ret,         \* value and RuntimeError of the last call
    sock,        \* the kernel socket each descriptor refers to
    family,      \* the family that socket was made with
    holder       \* the object the kernel gave each open descriptor to

vars == <<m_fd, m_state, m_shutdown, m_domain, ret, sock, family, holder>>

(***************************************************************************)
(* Queries of the facade.                                                  *)
(***************************************************************************)
is_closed(o)     == m_state[o] = "CLOSED"
is_connected(o)  == m_state[o] = "OPEN"
is_connecting(o) == m_state[o] = "OPENING"

HasFd(o) == m_fd[o] # INVALID_SOCKET

(***************************************************************************)
(* The kernel socket a call on o reaches: none when o has no descriptor.   *)
(***************************************************************************)
Target(o) == IF HasFd(o) THEN sock[m_fd[o]] ELSE FreeSock

FreeFds == {fd \in FD : sock[fd].stat = "free"}

(***************************************************************************)
(* What a call returns, or that it throws; the caller passes a clean       *)
(* RuntimeError, and err is whether it holds an error afterwards.          *)
(***************************************************************************)
Results == [value : {"true", "false", "throw"}, err : BOOLEAN]

Return(value, err) == ret' = [value |-> value, err |-> err]

\* The socket o refers to becomes s; without a descriptor nothing changes.
SetTarget(o, s) ==
    sock' = IF HasFd(o) THEN [sock EXCEPT ![m_fd[o]] = s] ELSE sock

\* The families whose addresses the library knows.
Known == {"AF_INET", "AF_INET6"}

Families == Domains \cup {"AF_UNSPEC"}

TypeOK ==
    /\ m_fd \in [Obj -> FD \cup {INVALID_SOCKET}]
    /\ m_state \in [Obj -> {"CLOSED", "CREATED", "OPEN", "OPENING"}]
    /\ m_shutdown \in [Obj -> SUBSET Directions]
    /\ m_domain \in [Obj -> Families]
    /\ ret \in Results
    /\ sock \in [FD -> KSock(MaxBacklog)] /\ family \in [FD -> Families]
    /\ holder \in [FD -> Obj \cup {Nobody}]

Init ==
    /\ m_fd = [o \in Obj |-> INVALID_SOCKET]
    /\ m_state = [o \in Obj |-> "CLOSED"]
    /\ m_shutdown = [o \in Obj |-> {}]
    /\ m_domain = [o \in Obj |-> "AF_UNSPEC"]
    /\ ret = [value |-> "true", err |-> FALSE]
    /\ sock = [fd \in FD |-> FreeSock]
    /\ family = [fd \in FD |-> "AF_UNSPEC"]
    /\ holder = [fd \in FD |-> Nobody]

-----------------------------------------------------------------------------
(***************************************************************************)
(* Creating and closing.                                                   *)
(***************************************************************************)

\* Create without its first line, the test that the object has no descriptor.
CanCreate_Always(o) == TRUE

CanCreate(o) == ~HasFd(o)

\* Create that keeps the family of the first socket.
DomainAfterCreate_First(o, af) ==
    IF m_domain[o] = "AF_UNSPEC" THEN af ELSE m_domain[o]

DomainAfterCreate(o, af) == af

\* ::socket may fail, for want of descriptors or for the family.
Create(o, af) ==
    /\ \/ /\ ~CanCreate(o)
          /\ Return("throw", FALSE)
          /\ UNCHANGED <<m_fd, m_state, m_domain, sock, family, holder>>
       \/ /\ CanCreate(o)
          /\ Return("false", TRUE)
          /\ UNCHANGED <<m_fd, m_state, m_domain, sock, family, holder>>
       \/ /\ CanCreate(o)
          /\ \E fd \in FreeFds :
                /\ m_fd' = [m_fd EXCEPT ![o] = fd]
                /\ sock' = [sock EXCEPT ![fd] = NewSock("idle")]
                /\ family' = [family EXCEPT ![fd] = af]
                /\ holder' = [holder EXCEPT ![fd] = o]
          /\ m_state' = [m_state EXCEPT ![o] = "CREATED"]
          /\ m_domain' = [m_domain EXCEPT ![o] = DomainAfterCreate(o, af)]
          /\ Return("true", FALSE)
    /\ UNCHANGED m_shutdown

(***************************************************************************)
(* ::close.  Only a call that fails with "kept" or EBADF releases nothing. *)
(***************************************************************************)
CloseOutcomes(fd) ==
    IF sock[fd].stat = "free" THEN {"EBADF"} ELSE {"0"} \cup CloseErr

KernelClose(fd, r) ==
    IF r \in {"0", "released"}
    THEN /\ sock' = [sock EXCEPT ![fd] = FreeSock]
         /\ family' = [family EXCEPT ![fd] = "AF_UNSPEC"]
         /\ holder' = [holder EXCEPT ![fd] = Nobody]
    ELSE UNCHANGED <<sock, family, holder>>

\* Close without its last assignment.
FdAfterClose_Stale(o, r) == m_fd[o]

\* Close that resets the descriptor to 0 instead of -1.
FdAfterClose_Zero(o, r) == IF r = "0" THEN 0 ELSE m_fd[o]

FdAfterClose(o, r) == IF r = "0" THEN INVALID_SOCKET ELSE m_fd[o]

Close(o) ==
    /\ \/ /\ ~HasFd(o)
          /\ Return("true", FALSE)
          /\ UNCHANGED <<m_fd, m_state, sock, family, holder>>
       \/ /\ HasFd(o)
          /\ m_state' = [m_state EXCEPT ![o] = "CLOSED"]
          /\ \E r \in CloseOutcomes(m_fd[o]) :
                /\ KernelClose(m_fd[o], r)
                /\ m_fd' = [m_fd EXCEPT ![o] = FdAfterClose(o, r)]
                /\ IF r = "0" THEN Return("true", FALSE)
                              ELSE Return("false", TRUE)
    /\ UNCHANGED <<m_shutdown, m_domain>>

(***************************************************************************)
(* The destructor closes and drops the error.  The slot then holds a newly *)
(* constructed object.                                                     *)
(***************************************************************************)
Destroy(o) ==
    /\ IF HasFd(o)
       THEN \E r \in CloseOutcomes(m_fd[o]) : KernelClose(m_fd[o], r)
       ELSE UNCHANGED <<sock, family, holder>>
    /\ m_fd' = [m_fd EXCEPT ![o] = INVALID_SOCKET]
    /\ m_state' = [m_state EXCEPT ![o] = "CLOSED"]
    /\ m_shutdown' = [m_shutdown EXCEPT ![o] = {}]
    /\ m_domain' = [m_domain EXCEPT ![o] = "AF_UNSPEC"]
    /\ UNCHANGED ret

-----------------------------------------------------------------------------
(***************************************************************************)
(* Binding, connecting, listening, accepting.                              *)
(***************************************************************************)

(***************************************************************************)
(* NewInetAddress gives no address only for a family it does not know.     *)
(* For a text that is not an address it records the error and still gives  *)
(* an address object, so that the call goes on with it.                    *)
(***************************************************************************)
HasAddress(o)   == m_domain[o] \in Known
TextError(host) == host = "invalid"

Bind(o, host) ==
    /\ \/ /\ Return("false", TRUE)
       \/ /\ HasAddress(o)
          /\ Target(o).stat = "idle"
          /\ Return("true", TextError(host))
    /\ UNCHANGED <<m_fd, m_state, m_shutdown, m_domain, sock, family, holder>>

\* Connect that takes every failed ::connect for one in progress.
StateAfterConnect_Opening(errno) == IF errno = "0" THEN "OPEN" ELSE "OPENING"

\* Connect that takes a connect in progress for one that completed.
StateAfterConnect_Open(errno) ==
    IF errno \in {"0", "EINPROGRESS"} THEN "OPEN" ELSE "CREATED"

StateAfterConnect(errno) ==
    CASE errno = "0"           -> "OPEN"
      [] errno = "EINPROGRESS" -> "OPENING"
      [] OTHER                 -> "CREATED"

Connect(o, host) ==
    /\ \/ /\ ~HasAddress(o)
          /\ Return("false", TRUE)
          /\ UNCHANGED <<m_state, sock>>
       \/ /\ HasAddress(o)
          /\ \E step \in ConnectSteps(Target(o).block) :
                /\ step[1] = Target(o).stat
                /\ m_state' = [m_state EXCEPT ![o] = StateAfterConnect(step[2])]
                /\ SetTarget(o, [Target(o) EXCEPT !.stat = step[3]])
                /\ IF step[2] = "0" THEN Return("true", TextError(host))
                                    ELSE Return("false", TRUE)
    /\ UNCHANGED <<m_fd, m_shutdown, m_domain, family, holder>>

Listen(o) ==
    /\ \E step \in ListenSteps :
          /\ step[1] = Target(o).stat
          /\ SetTarget(o, [Target(o) EXCEPT !.stat = step[3]])
          /\ m_state' = IF step[2] = "0" THEN [m_state EXCEPT ![o] = "OPEN"]
                                         ELSE m_state
          /\ IF step[2] = "0" THEN Return("true", FALSE)
                              ELSE Return("false", TRUE)
    /\ UNCHANGED <<m_fd, m_shutdown, m_domain, family, holder>>

(***************************************************************************)
(* p may hold a descriptor only if the application uses "acceptOpen"; the  *)
(* other accept of ServerSocket always passes a new StreamSocket.          *)
(***************************************************************************)
accept(o, p) ==
    /\ HasFd(p) => "acceptOpen" \in Uses
    /\ \/ /\ Return("false", TRUE)
          /\ UNCHANGED <<m_fd, m_state, m_domain, sock, family, holder>>
       \/ /\ Target(o).stat = "listen"
          /\ Target(o).queue > 0
          /\ \E nfd \in FreeFds :
                /\ m_fd' = [m_fd EXCEPT ![p] = nfd]
                /\ sock' = [sock EXCEPT ![nfd] = NewSock("estab"),
                                        ![m_fd[o]].queue = @ - 1]
                /\ family' = [family EXCEPT ![nfd] = family[m_fd[o]]]
                /\ holder' = [holder EXCEPT ![nfd] = p]
          /\ m_state' = [m_state EXCEPT ![p] = "OPEN"]
          /\ m_domain' = [m_domain EXCEPT ![p] = m_domain[o]]
          /\ Return("true", FALSE)
    /\ UNCHANGED m_shutdown

-----------------------------------------------------------------------------
(***************************************************************************)
(* Shutting down, blocking mode, moving.                                   *)
(***************************************************************************)

\* Shutdown that notes the direction only when ::shutdown fails.
Noted_OnError(errno, how) == IF errno = "0" THEN {} ELSE {how}

Noted(errno, how) == {how}

Shutdown(o, how) ==
    /\ \/ /\ ~HasFd(o)
          /\ Return("true", FALSE)
          /\ UNCHANGED <<m_shutdown, sock>>
       \/ /\ HasFd(o)
          /\ \E step \in ShutdownSteps :
                /\ step[1] = Target(o).stat
                /\ m_shutdown' = [m_shutdown EXCEPT ![o] =
                                     @ \cup Noted(step[2], how)]
                /\ SetTarget(o, [Target(o) EXCEPT
                                   !.stat = step[3],
                                   !.shut = IF step[2] = "0" /\ step[3] = "estab"
                                            THEN @ \cup {how} ELSE @])
                /\ IF step[2] = "0" THEN Return("true", FALSE)
                                    ELSE Return("false", TRUE)
    /\ UNCHANGED <<m_fd, m_state, m_domain, family, holder>>

set_block_mode(o, blocked) ==
    /\ IF Target(o).stat = "free"
       THEN /\ Return("false", TRUE)
            /\ UNCHANGED sock
       ELSE /\ Return("true", FALSE)
            /\ SetTarget(o, [Target(o) EXCEPT !.block = blocked])
    /\ UNCHANGED <<m_fd, m_state, m_shutdown, m_domain, family, holder>>

\* A move that leaves the descriptor in the object it moves from.
TakeFrom_Copy(o, p) ==
    /\ m_fd' = [m_fd EXCEPT ![o] = m_fd[p]]
    /\ m_state' = [m_state EXCEPT ![o] = m_state[p], ![p] = "CLOSED"]
    /\ m_domain' = [m_domain EXCEPT ![o] = m_domain[p]]
    /\ holder' = [fd \in FD |-> IF fd = m_fd[p] /\ holder[fd] = p
                                THEN o ELSE holder[fd]]

(***************************************************************************)
(* What both moves do: o takes the descriptor, state and family of p; p    *)
(* keeps its family and its m_shutdown.                                    *)
(***************************************************************************)
TakeFrom(o, p) ==
    /\ m_fd' = [m_fd EXCEPT ![o] = m_fd[p], ![p] = INVALID_SOCKET]
    /\ m_state' = [m_state EXCEPT ![o] = m_state[p], ![p] = "CLOSED"]
    /\ m_domain' = [m_domain EXCEPT ![o] = m_domain[p]]
    /\ holder' = [fd \in FD |-> IF fd = m_fd[p] /\ holder[fd] = p
                                THEN o ELSE holder[fd]]

MoveAssign(o, p) ==
    /\ IF HasFd(o)
       THEN /\ Return("throw", FALSE)
            /\ UNCHANGED <<m_fd, m_state, m_domain, holder>>
       ELSE /\ TakeFrom(o, p)
            /\ UNCHANGED ret
    /\ UNCHANGED <<m_shutdown, sock, family>>

(***************************************************************************)
(* The move constructor does not initialise m_shutdown.  The slot it       *)
(* constructs in held an object without a descriptor.                      *)
(***************************************************************************)
MoveConstruct(o, p) ==
    /\ o # p
    /\ ~HasFd(o)
    /\ TakeFrom(o, p)
    /\ \E garbage \in SUBSET Directions :
          m_shutdown' = [m_shutdown EXCEPT ![o] = garbage]
    /\ UNCHANGED <<ret, sock, family>>

-----------------------------------------------------------------------------
(***************************************************************************)
(* Addresses.  These calls change nothing; each is the set of what it may  *)
(* answer: the family as whose address the kernel's answer is read, or an  *)
(* "error".  Only the endpoints go by the family the kernel reports, and   *)
(* throw if they do not know it; addresses and ports go by m_domain.       *)
(***************************************************************************)
SockName(o) == IF Target(o).stat = "free" THEN {"EBADF"} ELSE {"0"}

\* A connection that the peer has reset has no peer any more.
PeerName(o) ==
    CASE Target(o).stat = "free"               -> {"EBADF"}
      [] Target(o).stat \in {"estab", "ready"} -> {"0", "ENOTCONN"}
      [] OTHER                                 -> {"ENOTCONN"}

KernelFamily(o) == IF HasFd(o) THEN family[m_fd[o]] ELSE "AF_UNSPEC"

Endpoint(o, errno) ==
    IF errno # "0" THEN "error"
    ELSE IF KernelFamily(o) \in Known THEN KernelFamily(o) ELSE "throw"

ByFamily(o, errno) ==
    IF errno # "0" \/ m_domain[o] \notin Known THEN "error" ELSE m_domain[o]

GetLocalEndpoint(o)  == {Endpoint(o, errno) : errno \in SockName(o)}
GetRemoteEndpoint(o) == {Endpoint(o, errno) : errno \in PeerName(o)}
GetLocalAddress(o)   == {ByFamily(o, errno) : errno \in SockName(o)}
GetLocalPort(o)      == {ByFamily(o, errno) : errno \in SockName(o)}
GetRemotePort(o)     == {ByFamily(o, errno) : errno \in PeerName(o)}
GetRemoteAddress(o)  == {ByFamily(o, errno) : errno \in PeerName(o)}

-----------------------------------------------------------------------------
(***************************************************************************)
(* The kernel: a connect in progress ends, a peer connects.                *)
(***************************************************************************)
ConnectEnds(fd) ==
    /\ sock[fd].stat = "pending"
    /\ \E stat \in {"ready", "failed"} : sock' = [sock EXCEPT ![fd].stat = stat]
    /\ UNCHANGED <<m_fd, m_state, m_shutdown, m_domain, ret, family, holder>>

PeerConnects(fd) ==
    /\ sock[fd].stat = "listen"
    /\ sock[fd].queue < MaxBacklog
    /\ sock' = [sock EXCEPT ![fd].queue = @ + 1]
    /\ UNCHANGED <<m_fd, m_state, m_shutdown, m_domain, ret, family, holder>>

Next ==
    \/ \E o \in Obj, af \in Domains : Create(o, af)
    \/ \E o \in Obj : Close(o)
    \/ \E o \in Obj : Destroy(o)
    \/ \E o \in Obj, host \in Hosts : Bind(o, host)
    \/ \E o \in Obj, blocked \in BOOLEAN : set_block_mode(o, blocked)
    \/ \E o \in Streams, host \in Hosts : Connect(o, host)
    \/ \E o \in Streams, how \in Directions : Shutdown(o, how)
    \/ \E o \in Servers : Listen(o)
    \/ \E o \in Servers, p \in Streams : accept(o, p)
    \/ \E o \in Receivers, p \in Streams : MoveAssign(o, p)
    \/ \E o \in Receivers, p \in Streams : MoveConstruct(o, p)
    \/ \E fd \in FD : ConnectEnds(fd)
    \/ \E fd \in FD : PeerConnects(fd)

Spec == Init /\ [][Next]_vars

-----------------------------------------------------------------------------
(***************************************************************************)
(* Properties.                                                             *)
(***************************************************************************)

(***************************************************************************)
(* The descriptor an object holds is open and was given to that object:    *)
(* so no two objects hold the same one, and no Close, Shutdown or move,    *)
(* however often repeated, reaches another object's socket.                *)
(***************************************************************************)
OwnsFd == \A o \in Obj : HasFd(o) => holder[m_fd[o]] = o

(***************************************************************************)
(* The socket classes keep the promise of DescriptorOwnership: Create and  *)
(* accept acquire, Close and the destructor release, a move transfers, and *)
(* no other call touches who owns what.  Needs a close() that does not     *)
(* fail and no accept into an object that is open.                         *)
(***************************************************************************)
Ownership == INSTANCE DescriptorOwnership
                 WITH own  <- m_fd,
                      open <- {fd \in FD : sock[fd].stat # "free"},
                      None <- INVALID_SOCKET

KeepsOwnership == Ownership!Spec

(***************************************************************************)
(* Every open descriptor is still held by the object it was given to, so   *)
(* that destroying the objects releases them all.                          *)
(***************************************************************************)
NoDescriptorLost ==
    \A fd \in FD : holder[fd] # Nobody => m_fd[holder[fd]] = fd

(***************************************************************************)
(* An object in state OPEN has a descriptor whose kernel socket listens    *)
(* (server) or is connected (stream).                                      *)
(***************************************************************************)
OpenIsReal ==
    /\ \A o \in Streams : is_connected(o) =>
          HasFd(o) /\ sock[m_fd[o]].stat = "estab"
    /\ \A o \in Servers : m_state[o] = "OPEN" =>
          HasFd(o) /\ sock[m_fd[o]].stat = "listen"

(***************************************************************************)
(* While a stream reports it is connecting, and has not been asked to shut *)
(* down, the kernel has a connect for it that is in progress or whose      *)
(* outcome is yet to be reported.  (A move leaves behind what was asked,   *)
(* so this and the next are about the objects nothing is moved to.)        *)
(***************************************************************************)
ConnectingIsReal ==
    \A o \in Streams \ Receivers : is_connecting(o) /\ m_shutdown[o] = {} =>
        HasFd(o) /\ sock[m_fd[o]].stat \in {"pending", "ready", "failed"}

(***************************************************************************)
(* A direction that is shut down in the kernel is reported as shut down by *)
(* the object (is_input_shutdown, is_output_shutdown).                     *)
(***************************************************************************)
ShutdownReported ==
    \A o \in Obj \ Receivers : HasFd(o) => sock[m_fd[o]].shut \subseteq m_shutdown[o]

(***************************************************************************)
(* A closed object has no descriptor (the comment on SOCK_STATE_CLOSED).   *)
(***************************************************************************)
ClosedHasNoFd == \A o \in Obj : is_closed(o) => ~HasFd(o)

(***************************************************************************)
(* The address and the port of an object can be had exactly when its       *)
(* endpoint can, and are read as addresses of the same family, the one the *)
(* kernel's socket is of: however the object came by its descriptor, and   *)
(* whatever families it had before (GetLocalAddress and the other getters; *)
(* where the library knows the family).                                    *)
(***************************************************************************)
EndpointsAgree ==
    \A o \in Obj : KernelFamily(o) \in Known =>
        /\ GetLocalAddress(o) = GetLocalEndpoint(o)
        /\ GetLocalPort(o) = GetLocalEndpoint(o)
        /\ GetRemoteAddress(o) = GetRemoteEndpoint(o)
        /\ GetRemotePort(o) = GetRemoteEndpoint(o)

(***************************************************************************)
(* An object that obtains a kernel socket, by Create or accept, reports    *)
(* nothing of it as shut down (is_input_shutdown, is_output_shutdown).     *)
(***************************************************************************)
NewSocketNotShut ==
    [][\A o \in Streams : ~HasFd(o) /\ HasFd(o)' => m_shutdown'[o] = {}]_vars

=============================================================================
