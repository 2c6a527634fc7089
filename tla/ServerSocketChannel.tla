------------------------ MODULE ServerSocketChannel ------------------------
(***************************************************************************)
(* Channels (src/nio/server_socket_channel.cpp), each of which owns the    *)
(* ServerSocket of one slot of SocketImpl, among the socket objects of the *)
(* other slots, which take descriptors from the same table and give them   *)
(* back.  A channel offers no access to its socket but create and close.   *)
(***************************************************************************)
EXTENDS SocketImpl

CONSTANT Channels   \* slots whose ServerSocket belongs to a channel

ASSUME ChannelAssumption == Channels \subseteq Servers

VARIABLES
    m_pSockImpl,   \* whether each channel has made its ServerSocket
    aborted        \* the assert() of create failed

channelVars == <<m_pSockImpl, aborted>>

allVars == <<vars, channelVars>>

ChannelInit ==
    /\ Init
    /\ m_pSockImpl = [c \in Channels |-> FALSE]
    /\ aborted = FALSE

(***************************************************************************)
(* create makes the ServerSocket on the first call, and asserts on every   *)
(* call that it is closed.                                                 *)
(***************************************************************************)
channel_create(c, af) ==
    /\ m_pSockImpl' = [m_pSockImpl EXCEPT ![c] = TRUE]
    /\ \/ ~is_closed(c) /\ aborted' = TRUE /\ UNCHANGED vars
       \/ is_closed(c) /\ Create(c, af) /\ UNCHANGED aborted

\* close that takes a socket that is not listening for a closed one.
MayClose_Listening(c) == m_pSockImpl[c] /\ m_state[c] = "OPEN"

MayClose(c) == m_pSockImpl[c] /\ ~is_closed(c)

channel_close(c) ==
    /\ \/ MayClose(c) /\ Close(c)
       \/ /\ ~MayClose(c)
          /\ Return("true", FALSE)
          /\ UNCHANGED <<m_fd, m_state, m_shutdown, m_domain, sock, family,
                          holder>>
    /\ UNCHANGED channelVars

\* A destructor that does not delete the ServerSocket.
channel_delete_Leak(c) ==
    /\ m_pSockImpl[c]
    /\ m_pSockImpl' = [m_pSockImpl EXCEPT ![c] = FALSE]
    /\ UNCHANGED <<vars, aborted>>

(***************************************************************************)
(* The destructor deletes the ServerSocket, and a new channel takes the    *)
(* slot.                                                                   *)
(***************************************************************************)
channel_delete(c) ==
    /\ m_pSockImpl[c]
    /\ Destroy(c)
    /\ m_pSockImpl' = [m_pSockImpl EXCEPT ![c] = FALSE]
    /\ UNCHANGED aborted

(***************************************************************************)
(* The calls on the sockets of the other slots that obtain, release or     *)
(* hand on a descriptor, and the connections that accept needs.            *)
(***************************************************************************)
Plain == Obj \ Channels

SocketStep ==
    \/ \E o \in Plain, af \in Domains : Create(o, af)
    \/ \E o \in Plain : Close(o)
    \/ \E o \in Plain : Destroy(o)
    \/ \E o \in Servers \ Channels : Listen(o)
    \/ \E o \in Servers \ Channels, p \in Streams : accept(o, p)
    \/ \E o \in Receivers, p \in Streams : MoveAssign(o, p)
    \/ \E o \in Receivers, p \in Streams : MoveConstruct(o, p)
    \/ \E fd \in FD : PeerConnects(fd)

ChannelNext ==
    /\ ~aborted
    /\ \/ \E c \in Channels, af \in Domains : channel_create(c, af)
       \/ \E c \in Channels : channel_close(c)
       \/ \E c \in Channels : channel_delete(c)
       \/ SocketStep /\ UNCHANGED channelVars

ChannelSpec == ChannelInit /\ [][ChannelNext]_allVars

-----------------------------------------------------------------------------
(***************************************************************************)
(* Properties.                                                             *)
(***************************************************************************)

(***************************************************************************)
(* After a close that returns true the channel holds no descriptor,        *)
(* however many calls of close it took.                                    *)
(***************************************************************************)
ChannelCloseCloses ==
    [][\A c \in Channels :
          channel_close(c) /\ ret'.value = "true" => ~HasFd(c)']_allVars

(***************************************************************************)
(* A create that passes its assertion does not throw: where the socket     *)
(* says it is closed it has no descriptor, and Create goes through.        *)
(***************************************************************************)
CreateReturns ==
    [][\A c \in Channels, af \in Domains :
          channel_create(c, af) /\ ~aborted' => ret'.value # "throw"]_allVars

(***************************************************************************)
(* A channel without a ServerSocket holds no descriptor and none is held   *)
(* for it, so that deleting a channel releases what it had.                *)
(***************************************************************************)
DeletedHoldsNothing ==
    \A c \in Channels : ~m_pSockImpl[c] =>
        ~HasFd(c) /\ \A fd \in FD : holder[fd] # c

=============================================================================
