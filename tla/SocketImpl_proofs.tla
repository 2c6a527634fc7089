------------------------- MODULE SocketImpl_proofs -------------------------
(***************************************************************************)
(* Theorems about SocketImpl, for any number of objects and descriptors,   *)
(* and about the channels over it.  Spec is that of the sockets alone,     *)
(* ChannelSpec that of the channels among them.                            *)
(***************************************************************************)
EXTENDS ServerSocketChannel, TLAPS

(***************************************************************************)
(* What the tables of PosixSocket say of a call: statuses are statuses, a  *)
(* call neither opens nor closes a descriptor, and what each outcome means *)
(* for the socket.                                                         *)
(***************************************************************************)
LEMMA ConnectFacts ==
    ASSUME NEW block, NEW step \in ConnectSteps(block)
    PROVE  /\ step[1] \in KStat /\ step[3] \in KStat
           /\ step[1] = "free" <=> step[3] = "free"
           /\ step[2] = "0" => step[3] = "estab"
           /\ step[2] = "EINPROGRESS" => step[3] = "pending"
  BY DEF ConnectSteps, KStat

LEMMA ListenFacts ==
    ASSUME NEW step \in ListenSteps
    PROVE  /\ step[1] \in KStat /\ step[3] \in KStat
           /\ step[1] = "free" <=> step[3] = "free"
           /\ step[2] = "0" => step[3] = "listen"
           /\ step[2] # "0" => step[3] = step[1]
           /\ step[1] = "listen" => step[2] = "0"
  BY DEF ListenSteps, KStat

LEMMA ShutdownFacts ==
    ASSUME NEW step \in ShutdownSteps
    PROVE  /\ step[1] \in KStat /\ step[3] \in KStat
           /\ step[1] = "free" <=> step[3] = "free"
           /\ step[1] = "estab" => step[3] = "estab"
  BY DEF ShutdownSteps, KStat

(***************************************************************************)
(* SetTarget changes the socket of o and no other.                         *)
(***************************************************************************)
LEMMA SetTargetFacts ==
    ASSUME TypeOK, NEW o \in Obj, NEW s \in KSock(MaxBacklog), SetTarget(o, s)
    PROVE  /\ sock' \in [FD -> KSock(MaxBacklog)]
           /\ HasFd(o) => m_fd[o] \in FD /\ sock'[m_fd[o]] = s
           /\ \A fd \in FD : fd # m_fd[o] => sock'[fd] = sock[fd]
  BY DEF TypeOK, SetTarget, HasFd

LEMMA ReceiversAreObjects == Receivers \subseteq Streams /\ Receivers \subseteq Obj
  BY EnvironmentAssumption DEF Obj

LEMMA NewSockFacts ==
    ASSUME NEW stat \in KStat
    PROVE  /\ NewSock(stat) \in KSock(MaxBacklog)
           /\ NewSock(stat).stat = stat
           /\ NewSock(stat).shut = {}
  BY EnvironmentAssumption DEF NewSock, KSock

LEMMA TargetFacts ==
    ASSUME TypeOK, NEW o \in Obj
    PROVE  /\ Target(o) \in KSock(MaxBacklog)
           /\ HasFd(o) => m_fd[o] \in FD /\ Target(o) = sock[m_fd[o]]
           /\ ~HasFd(o) => Target(o).stat = "free"
  <1>1. FreeSock \in KSock(MaxBacklog) /\ FreeSock.stat = "free"
    BY NewSockFacts DEF FreeSock, KStat
  <1>2. QED
    BY <1>1 DEF TypeOK, Target, HasFd

LEMMA ReturnFacts ==
    ASSUME NEW v \in {"true", "false", "throw"}, NEW e \in BOOLEAN, Return(v, e)
    PROVE  ret' \in Results
  BY DEF Return, Results

(***************************************************************************)
(* A socket with another status, other directions shut down or another     *)
(* blocking mode is a socket.                                              *)
(***************************************************************************)
LEMMA KSockFacts ==
    ASSUME NEW s \in KSock(MaxBacklog)
    PROVE  /\ s.stat \in KStat /\ s.shut \in SUBSET Directions
           /\ s.block \in BOOLEAN /\ s.queue \in 0..MaxBacklog
           /\ \A stat \in KStat, shut \in SUBSET Directions :
                 [s EXCEPT !.stat = stat, !.shut = shut] \in KSock(MaxBacklog)
           /\ \A stat \in KStat : [s EXCEPT !.stat = stat] \in KSock(MaxBacklog)
           /\ \A b \in BOOLEAN : [s EXCEPT !.block = b] \in KSock(MaxBacklog)
           /\ \A q \in 0..MaxBacklog : [s EXCEPT !.queue = q] \in KSock(MaxBacklog)
  BY DEF KSock

LEMMA TwoFields ==
    ASSUME NEW s \in KSock(MaxBacklog), NEW stat, NEW shut
    PROVE  [s EXCEPT !.stat = stat, !.shut = shut] =
               [stat |-> stat, shut |-> shut, block |-> s.block, queue |-> s.queue]
  <1>. DEFINE t == [s EXCEPT !.stat = stat]
  <1>1. t = [stat |-> stat, shut |-> s.shut, block |-> s.block, queue |-> s.queue]
    BY DEF KSock
  <1>2. [s EXCEPT !.stat = stat, !.shut = shut] = [t EXCEPT !.shut = shut]
    OBVIOUS
  <1>. HIDE DEF t
  <1>3. [t EXCEPT !.shut = shut] =
            [stat |-> stat, shut |-> shut, block |-> s.block, queue |-> s.queue]
    BY <1>1
  <1>. QED
    BY <1>2, <1>3 DEF t

LEMMA TakeFromType ==
    ASSUME TypeOK, NEW o \in Obj, NEW p \in Obj, TakeFrom(o, p)
    PROVE  /\ m_fd' \in [Obj -> FD \cup {INVALID_SOCKET}]
           /\ m_state' \in [Obj -> {"CLOSED", "CREATED", "OPEN", "OPENING"}]
           /\ m_domain' \in [Obj -> Families]
           /\ holder' \in [FD -> Obj \cup {Nobody}]
  <1>1. m_fd' \in [Obj -> FD \cup {INVALID_SOCKET}]
    BY DEF TakeFrom, TypeOK
  <1>2. m_state' \in [Obj -> {"CLOSED", "CREATED", "OPEN", "OPENING"}]
    BY DEF TakeFrom, TypeOK
  <1>3. m_domain' \in [Obj -> Families]
    BY DEF TakeFrom, TypeOK
  <1>4. holder' \in [FD -> Obj \cup {Nobody}]
    BY DEF TakeFrom, TypeOK
  <1>. QED
    BY <1>1, <1>2, <1>3, <1>4

-----------------------------------------------------------------------------
LEMMA InitType == Init => TypeOK
  <1>1. FreeSock \in KSock(MaxBacklog)
    BY NewSockFacts DEF FreeSock, KStat
  <1>2. [value |-> "true", err |-> FALSE] \in Results
    BY DEF Results
  <1>. QED
    BY <1>1, <1>2 DEF Init, TypeOK, Families

LEMMA NextType == TypeOK /\ [Next]_vars => TypeOK'
  <1>. SUFFICES ASSUME TypeOK, [Next]_vars PROVE TypeOK'
    OBVIOUS
  <1>1. ASSUME NEW o \in Obj, NEW af \in Domains, Create(o, af) PROVE TypeOK'
    <2>1. ret' \in Results
      BY <1>1, ReturnFacts DEF Create
    <2>2. NewSock("idle") \in KSock(MaxBacklog)
      BY NewSockFacts DEF KStat
    <2>3. CASE UNCHANGED <<m_fd, m_state, m_domain, sock, family, holder>>
      BY <1>1, <2>1, <2>3 DEF Create, TypeOK
    <2>4. CASE ~UNCHANGED <<m_fd, m_state, m_domain, sock, family, holder>>
      <3>1. PICK fd \in FD : /\ m_fd' = [m_fd EXCEPT ![o] = fd]
                             /\ sock' = [sock EXCEPT ![fd] = NewSock("idle")]
                             /\ family' = [family EXCEPT ![fd] = af]
                             /\ holder' = [holder EXCEPT ![fd] = o]
        BY <1>1, <2>4 DEF Create, FreeFds
      <3>2. /\ m_state' = [m_state EXCEPT ![o] = "CREATED"]
            /\ m_domain' = [m_domain EXCEPT ![o] = af]
            /\ UNCHANGED m_shutdown
        BY <1>1, <2>4 DEF Create, DomainAfterCreate
      <3>3. af \in Families
        BY DEF Families
      <3>. QED
        BY <2>1, <2>2, <3>1, <3>2, <3>3 DEF TypeOK
    <2>. QED
      BY <2>3, <2>4
  <1>2. ASSUME NEW o \in Obj, Close(o) PROVE TypeOK'
    <2>1. FreeSock \in KSock(MaxBacklog)
      BY NewSockFacts DEF FreeSock, KStat
    <2>2. ret' \in Results
      BY <1>2, ReturnFacts DEF Close
    <2>3. CASE ~HasFd(o)
      BY <1>2, <2>2, <2>3 DEF Close, TypeOK
    <2>4. CASE HasFd(o)
      <3>1. PICK r : /\ KernelClose(m_fd[o], r)
                     /\ m_fd' = [m_fd EXCEPT ![o] = FdAfterClose(o, r)]
        BY <1>2, <2>4 DEF Close
      <3>2. m_fd' \in [Obj -> FD \cup {INVALID_SOCKET}]
        BY <3>1 DEF FdAfterClose, TypeOK
      <3>3. /\ sock' \in [FD -> KSock(MaxBacklog)]
            /\ family' \in [FD -> Families]
            /\ holder' \in [FD -> Obj \cup {Nobody}]
        BY <2>1, <3>1 DEF KernelClose, TypeOK, Families
      <3>4. m_state' = [m_state EXCEPT ![o] = "CLOSED"]
            /\ UNCHANGED <<m_shutdown, m_domain>>
        BY <1>2, <2>4 DEF Close
      <3>. QED
        BY <2>2, <3>2, <3>3, <3>4 DEF TypeOK
    <2>. QED
      BY <2>3, <2>4
  <1>3. ASSUME NEW o \in Obj, Destroy(o) PROVE TypeOK'
    BY <1>3, NewSockFacts
    DEF Destroy, TypeOK, KernelClose, FreeSock, KStat, Families
  <1>4. ASSUME NEW o \in Obj, NEW host \in Hosts, Bind(o, host) PROVE TypeOK'
    BY <1>4, ReturnFacts DEF Bind, TypeOK, TextError
  <1>5. ASSUME NEW o \in Obj, NEW blocked \in BOOLEAN, set_block_mode(o, blocked)
        PROVE TypeOK'
    BY <1>5, ReturnFacts, TargetFacts, KSockFacts, SetTargetFacts
    DEF set_block_mode, TypeOK
  <1>6. ASSUME NEW o \in Streams, NEW host \in Hosts, Connect(o, host)
        PROVE TypeOK'
    <2>1. CASE ~HasAddress(o)
      BY <1>6, ReturnFacts, <2>1 DEF Connect, TypeOK
    <2>2. CASE HasAddress(o)
      <3>1. o \in Obj
        BY DEF Obj
      <3>2. PICK step \in ConnectSteps(Target(o).block) :
              /\ m_state' = [m_state EXCEPT ![o] = StateAfterConnect(step[2])]
              /\ SetTarget(o, [Target(o) EXCEPT !.stat = step[3]])
        BY <1>6, ReturnFacts, <2>2 DEF Connect
      <3>3. sock' \in [FD -> KSock(MaxBacklog)]
        BY <3>1, <3>2, ConnectFacts, TargetFacts, KSockFacts, SetTargetFacts
      <3>4. StateAfterConnect(step[2]) \in {"CREATED", "OPEN", "OPENING"}
        BY DEF StateAfterConnect
      <3>5. ret' \in Results
        BY <1>6, ReturnFacts, <2>2 DEF Connect, TextError
      <3>. QED
        BY <1>6, ReturnFacts, <3>2, <3>3, <3>4, <3>5 DEF Connect, TypeOK
    <2>. QED
      BY <2>1, <2>2
  <1>7. ASSUME NEW o \in Streams, NEW how \in Directions, Shutdown(o, how)
        PROVE TypeOK'
    <2>1. CASE ~HasFd(o)
      BY <1>7, ReturnFacts, <2>1 DEF Shutdown, TypeOK
    <2>2. CASE HasFd(o)
      <3>1. o \in Obj
        BY DEF Obj
      <3>2. PICK step \in ShutdownSteps :
              /\ m_shutdown' = [m_shutdown EXCEPT ![o] = @ \cup Noted(step[2], how)]
              /\ SetTarget(o, [Target(o) EXCEPT
                                 !.stat = step[3],
                                 !.shut = IF step[2] = "0" /\ step[3] = "estab"
                                          THEN @ \cup {how} ELSE @])
        BY <1>7, ReturnFacts, <2>2 DEF Shutdown
      <3>3. sock' \in [FD -> KSock(MaxBacklog)]
        BY <3>1, <3>2, ShutdownFacts, TargetFacts, KSockFacts, SetTargetFacts
      <3>4. ret' \in Results
        BY <1>7, ReturnFacts, <2>2 DEF Shutdown
      <3>. QED
        BY <1>7, ReturnFacts, <3>1, <3>2, <3>3, <3>4 DEF Shutdown, TypeOK, Noted
    <2>. QED
      BY <2>1, <2>2
  <1>8. ASSUME NEW o \in Servers, Listen(o) PROVE TypeOK'
    <2>1. o \in Obj
      BY DEF Obj
    <2>2. PICK step \in ListenSteps :
            SetTarget(o, [Target(o) EXCEPT !.stat = step[3]])
      BY <1>8 DEF Listen
    <2>3. sock' \in [FD -> KSock(MaxBacklog)]
      BY <2>1, <2>2, ListenFacts, TargetFacts, KSockFacts, SetTargetFacts
    <2>. QED
      BY <1>8, ReturnFacts, <2>3 DEF Listen, TypeOK
  <1>9. ASSUME NEW o \in Servers, NEW p \in Streams, accept(o, p) PROVE TypeOK'
    <2>1. o \in Obj /\ p \in Obj
      BY DEF Obj
    <2>2. ret' \in Results
      BY <1>9, ReturnFacts DEF accept
    <2>3. CASE UNCHANGED <<m_fd, m_state, m_domain, sock, family, holder>>
      BY <1>9, <2>2, <2>3 DEF accept, TypeOK
    <2>4. CASE /\ Target(o).stat = "listen"
               /\ Target(o).queue > 0
               /\ \E nfd \in FreeFds :
                     /\ m_fd' = [m_fd EXCEPT ![p] = nfd]
                     /\ sock' = [sock EXCEPT ![nfd] = NewSock("estab"),
                                             ![m_fd[o]].queue = @ - 1]
                     /\ family' = [family EXCEPT ![nfd] = family[m_fd[o]]]
                     /\ holder' = [holder EXCEPT ![nfd] = p]
               /\ m_state' = [m_state EXCEPT ![p] = "OPEN"]
               /\ m_domain' = [m_domain EXCEPT ![p] = m_domain[o]]
      <3>1. PICK nfd \in FD :
              /\ m_fd' = [m_fd EXCEPT ![p] = nfd]
              /\ sock[nfd].stat = "free"
              /\ sock' = [sock EXCEPT ![nfd] = NewSock("estab"),
                                      ![m_fd[o]].queue = @ - 1]
              /\ family' = [family EXCEPT ![nfd] = family[m_fd[o]]]
              /\ holder' = [holder EXCEPT ![nfd] = p]
        BY <2>4 DEF FreeFds
      <3>2. m_fd[o] \in FD /\ sock[m_fd[o]].stat = "listen" /\ m_fd[o] # nfd
        BY <2>1, <2>4, <3>1, TargetFacts
      <3>3. sock[m_fd[o]].queue - 1 \in 0..MaxBacklog
        <4>1. Target(o).queue = sock[m_fd[o]].queue
          BY <3>2, NamesAssumption DEF Target, HasFd
        <4>2. Target(o).queue \in 0..MaxBacklog
          BY <2>1, TargetFacts, KSockFacts
        <4>. QED
          BY <2>4, <4>1, <4>2, EnvironmentAssumption
      <3>4. [sock[m_fd[o]] EXCEPT !.queue = @ - 1] \in KSock(MaxBacklog)
        BY <3>2, <3>3, KSockFacts DEF TypeOK
      <3>5. NewSock("estab") \in KSock(MaxBacklog)
        BY NewSockFacts DEF KStat
      <3>6. sock' \in [FD -> KSock(MaxBacklog)]
        BY <3>1, <3>2, <3>4, <3>5 DEF TypeOK
      <3>7. m_state' \in [Obj -> {"CLOSED", "CREATED", "OPEN", "OPENING"}]
        BY <2>1, <2>4 DEF TypeOK
      <3>8. m_domain' \in [Obj -> Families]
        BY <2>1, <2>4 DEF TypeOK
      <3>9. family' \in [FD -> Families]
        BY <3>1, <3>2 DEF TypeOK
      <3>10. m_fd' \in [Obj -> FD \cup {INVALID_SOCKET}]
             /\ holder' \in [FD -> Obj \cup {Nobody}] /\ UNCHANGED m_shutdown
        BY <1>9, <2>1, <3>1 DEF accept, TypeOK
      <3>. QED
        BY <2>2, <3>6, <3>7, <3>8, <3>9, <3>10 DEF TypeOK
    <2>. QED
      BY <1>9, <2>3, <2>4 DEF accept
  <1>10. ASSUME NEW o \in Receivers, NEW p \in Streams, MoveAssign(o, p)
         PROVE TypeOK'
    <2>1. o \in Obj /\ p \in Obj
      BY ReceiversAreObjects DEF Obj
    <2>2. ret' \in Results
      BY <1>10, ReturnFacts DEF MoveAssign, TypeOK
    <2>3. CASE HasFd(o)
      BY <1>10, <2>2, <2>3 DEF MoveAssign, TypeOK
    <2>4. CASE ~HasFd(o)
      BY <1>10, <2>1, <2>2, <2>4, TakeFromType DEF MoveAssign, TypeOK
    <2>. QED
      BY <2>3, <2>4
  <1>11. ASSUME NEW o \in Receivers, NEW p \in Streams, MoveConstruct(o, p)
         PROVE TypeOK'
    <2>1. o \in Obj /\ p \in Obj
      BY ReceiversAreObjects DEF Obj
    <2>. QED
      BY <1>11, <2>1, TakeFromType DEF MoveConstruct, TypeOK
  <1>12. ASSUME NEW fd \in FD, ConnectEnds(fd) PROVE TypeOK'
    <2>1. PICK stat \in KStat : sock' = [sock EXCEPT ![fd].stat = stat]
      BY <1>12 DEF ConnectEnds, KStat
    <2>2. [sock[fd] EXCEPT !.stat = stat] \in KSock(MaxBacklog)
      BY KSockFacts DEF TypeOK
    <2>. QED
      BY <1>12, <2>1, <2>2 DEF ConnectEnds, TypeOK
  <1>13. ASSUME NEW fd \in FD, PeerConnects(fd) PROVE TypeOK'
    <2>1. sock[fd].queue + 1 \in 0..MaxBacklog
      <3>1. sock[fd].queue \in 0..MaxBacklog
        BY KSockFacts DEF TypeOK
      <3>. QED
        BY <1>13, <3>1, EnvironmentAssumption DEF PeerConnects
    <2>2. [sock[fd] EXCEPT !.queue = @ + 1] \in KSock(MaxBacklog)
      BY <2>1, KSockFacts DEF TypeOK
    <2>. QED
      BY <1>13, <2>2 DEF PeerConnects, TypeOK
  <1>14. CASE UNCHANGED vars
    BY <1>14 DEF vars, TypeOK
  <1>. QED
    BY <1>1, <1>2, <1>3, <1>4, <1>5, <1>6, <1>7, <1>8, <1>9, <1>10, <1>11,
       <1>12, <1>13, <1>14 DEF Next

(***************************************************************************)
(* Every state reached is of the right type; in particular a listening     *)
(* socket never holds more than its backlog.                               *)
(***************************************************************************)
THEOREM TypeCorrect == Spec => []TypeOK
  BY InitType, NextType, PTL DEF Spec

-----------------------------------------------------------------------------
(***************************************************************************)
(* What the calls that use a descriptor do to it: they change the socket   *)
(* of their own object along a step of their table, and no other.          *)
(***************************************************************************)
OnlyTarget(o) ==
    /\ UNCHANGED <<m_fd, holder>>
    /\ \A fd \in FD : fd # m_fd[o] => sock'[fd] = sock[fd]
    /\ \A q \in Obj : q # o => m_state'[q] = m_state[q]
                               /\ m_shutdown'[q] = m_shutdown[q]

Follows(o, before, after) ==
    /\ Target(o).stat = before
    /\ HasFd(o) => sock[m_fd[o]].stat = before /\ sock'[m_fd[o]].stat = after

LEMMA ConnectEffect ==
    ASSUME TypeOK, NEW o \in Streams, NEW host, Connect(o, host)
    PROVE  /\ OnlyTarget(o) /\ UNCHANGED m_shutdown
           /\ HasFd(o) => sock'[m_fd[o]].shut = sock[m_fd[o]].shut
           /\ \/ UNCHANGED <<m_state, sock>>
              \/ \E step \in ConnectSteps(Target(o).block) :
                    /\ Follows(o, step[1], step[3])
                    /\ m_state'[o] = StateAfterConnect(step[2])
  <1>1. o \in Obj
    BY DEF Obj
  <1>2. CASE UNCHANGED <<m_state, sock>>
    BY <1>2 DEF Connect, OnlyTarget
  <1>3. CASE HasAddress(o)
    <2>1. PICK step \in ConnectSteps(Target(o).block) :
            /\ step[1] = Target(o).stat
            /\ m_state' = [m_state EXCEPT ![o] = StateAfterConnect(step[2])]
            /\ SetTarget(o, [Target(o) EXCEPT !.stat = step[3]])
      BY <1>3 DEF Connect
    <2>2. [Target(o) EXCEPT !.stat = step[3]] \in KSock(MaxBacklog)
      BY <1>1, ConnectFacts, TargetFacts, KSockFacts
    <2>3. [Target(o) EXCEPT !.stat = step[3]].stat = step[3]
          /\ [Target(o) EXCEPT !.stat = step[3]].shut = Target(o).shut
      BY <1>1, TargetFacts DEF KSock
    <2>4. UNCHANGED <<m_fd, m_shutdown, holder>>
      BY DEF Connect
    <2>5. OnlyTarget(o)
      BY <1>1, <2>1, <2>2, <2>4, SetTargetFacts DEF OnlyTarget, TypeOK
    <2>6. Follows(o, step[1], step[3])
      BY <1>1, <2>1, <2>2, <2>3, SetTargetFacts, TargetFacts DEF Follows
    <2>7. HasFd(o) => sock'[m_fd[o]].shut = sock[m_fd[o]].shut
      BY <1>1, <2>1, <2>2, <2>3, SetTargetFacts, TargetFacts
    <2>8. m_state'[o] = StateAfterConnect(step[2])
      BY <1>1, <2>1 DEF TypeOK
    <2>. QED
      BY <2>4, <2>5, <2>6, <2>7, <2>8
  <1>. QED
    BY <1>2, <1>3 DEF Connect

LEMMA ListenEffect ==
    ASSUME TypeOK, NEW o \in Servers, Listen(o)
    PROVE  /\ OnlyTarget(o) /\ UNCHANGED m_shutdown
           /\ HasFd(o) => sock'[m_fd[o]].shut = sock[m_fd[o]].shut
           /\ \E step \in ListenSteps :
                 /\ Follows(o, step[1], step[3])
                 /\ m_state'[o] = IF step[2] = "0" THEN "OPEN" ELSE m_state[o]
  <1>1. o \in Obj
    BY DEF Obj
  <1>2. PICK step \in ListenSteps :
          /\ step[1] = Target(o).stat
          /\ SetTarget(o, [Target(o) EXCEPT !.stat = step[3]])
          /\ m_state' = IF step[2] = "0" THEN [m_state EXCEPT ![o] = "OPEN"]
                                         ELSE m_state
    BY DEF Listen
  <1>3. [Target(o) EXCEPT !.stat = step[3]] \in KSock(MaxBacklog)
    BY <1>1, ListenFacts, TargetFacts, KSockFacts
  <1>4. [Target(o) EXCEPT !.stat = step[3]].stat = step[3]
        /\ [Target(o) EXCEPT !.stat = step[3]].shut = Target(o).shut
    BY <1>1, TargetFacts DEF KSock
  <1>5. UNCHANGED <<m_fd, m_shutdown, holder>>
    BY DEF Listen
  <1>6. OnlyTarget(o)
    BY <1>1, <1>2, <1>3, <1>5, SetTargetFacts DEF OnlyTarget, TypeOK
  <1>7. Follows(o, step[1], step[3])
    BY <1>1, <1>2, <1>3, <1>4, SetTargetFacts, TargetFacts DEF Follows
  <1>8. HasFd(o) => sock'[m_fd[o]].shut = sock[m_fd[o]].shut
    BY <1>1, <1>2, <1>3, <1>4, SetTargetFacts, TargetFacts
  <1>9. m_state'[o] = IF step[2] = "0" THEN "OPEN" ELSE m_state[o]
    BY <1>1, <1>2 DEF TypeOK
  <1>. QED
    BY <1>5, <1>6, <1>7, <1>8, <1>9

LEMMA ShutdownEffect ==
    ASSUME TypeOK, NEW o \in Streams, NEW how \in Directions, Shutdown(o, how)
    PROVE  /\ OnlyTarget(o) /\ UNCHANGED m_state
           /\ \/ ~HasFd(o) /\ UNCHANGED <<m_shutdown, sock>>
              \/ /\ HasFd(o)
                 /\ m_shutdown'[o] = m_shutdown[o] \cup {how}
                 /\ sock'[m_fd[o]].shut \subseteq sock[m_fd[o]].shut \cup {how}
                 /\ \E step \in ShutdownSteps : Follows(o, step[1], step[3])
  <1>1. o \in Obj
    BY DEF Obj
  <1>2. CASE ~HasFd(o)
    BY <1>2 DEF Shutdown, OnlyTarget
  <1>3. CASE HasFd(o)
    <2>1. PICK step \in ShutdownSteps :
            /\ step[1] = Target(o).stat
            /\ m_shutdown' = [m_shutdown EXCEPT ![o] = @ \cup {how}]
            /\ SetTarget(o, [Target(o) EXCEPT
                               !.stat = step[3],
                               !.shut = IF step[2] = "0" /\ step[3] = "estab"
                                        THEN @ \cup {how} ELSE @])
      BY <1>3 DEF Shutdown, Noted
    <2> DEFINE shut == IF step[2] = "0" /\ step[3] = "estab"
                       THEN Target(o).shut \cup {how} ELSE Target(o).shut
               s == [Target(o) EXCEPT !.stat = step[3], !.shut = shut]
    <2>2. s = [stat |-> step[3], shut |-> shut,
               block |-> Target(o).block, queue |-> Target(o).queue]
      <3>1. Target(o) \in KSock(MaxBacklog)
        BY <1>1, TargetFacts
      <3>. HIDE DEF shut
      <3>. QED
        BY <3>1, TwoFields
    <2>3. /\ s \in KSock(MaxBacklog) /\ s.stat = step[3]
          /\ s.shut \subseteq Target(o).shut \cup {how}
      <3>1. shut \in SUBSET Directions
        BY <1>1, TargetFacts, KSockFacts
      <3>. QED
        BY <1>1, <2>2, <3>1, ShutdownFacts, TargetFacts, KSockFacts DEF KSock
    <2>4. SetTarget(o, s)
      BY <2>1
    <2>. HIDE DEF s, shut
    <2>5. UNCHANGED <<m_fd, m_state, holder>>
      BY DEF Shutdown
    <2>6. OnlyTarget(o)
      BY <1>1, <2>1, <2>3, <2>4, <2>5, SetTargetFacts DEF OnlyTarget, TypeOK
    <2>7. Follows(o, step[1], step[3])
      BY <1>1, <2>1, <2>3, <2>4, SetTargetFacts, TargetFacts DEF Follows
    <2>8. sock'[m_fd[o]].shut \subseteq sock[m_fd[o]].shut \cup {how}
      BY <1>1, <1>3, <2>3, <2>4, SetTargetFacts, TargetFacts
    <2>9. m_shutdown'[o] = m_shutdown[o] \cup {how}
      BY <1>1, <2>1 DEF TypeOK
    <2>. QED
      BY <1>3, <2>5, <2>6, <2>7, <2>8, <2>9
  <1>. QED
    BY <1>2, <1>3

(***************************************************************************)
(* An accept that succeeds gives p the new descriptor nfd.                 *)
(***************************************************************************)
AcceptedAs(o, p, nfd) ==
    /\ sock[nfd].stat = "free"
    /\ sock'[nfd].stat = "estab" /\ sock'[nfd].shut = {}
    /\ \A fd \in FD : fd # nfd => /\ sock'[fd].stat = sock[fd].stat
                                 /\ sock'[fd].shut = sock[fd].shut
    /\ m_fd' = [m_fd EXCEPT ![p] = nfd]
    /\ holder' = [holder EXCEPT ![nfd] = p]
    /\ m_state' = [m_state EXCEPT ![p] = "OPEN"]

LEMMA AcceptEffect ==
    ASSUME TypeOK, NEW o \in Servers, NEW p \in Streams, accept(o, p)
    PROVE  \/ UNCHANGED <<m_fd, m_state, m_domain, sock, family, holder>>
           \/ \E nfd \in FD : AcceptedAs(o, p, nfd)
  <1>1. CASE /\ Target(o).stat = "listen"
             /\ \E nfd \in FreeFds :
                   /\ m_fd' = [m_fd EXCEPT ![p] = nfd]
                   /\ sock' = [sock EXCEPT ![nfd] = NewSock("estab"),
                                           ![m_fd[o]].queue = @ - 1]
                   /\ holder' = [holder EXCEPT ![nfd] = p]
             /\ m_state' = [m_state EXCEPT ![p] = "OPEN"]
    <2>1. PICK nfd \in FD :
            /\ sock[nfd].stat = "free"
            /\ m_fd' = [m_fd EXCEPT ![p] = nfd]
            /\ sock' = [sock EXCEPT ![nfd] = NewSock("estab"),
                                    ![m_fd[o]].queue = @ - 1]
            /\ holder' = [holder EXCEPT ![nfd] = p]
      BY <1>1 DEF FreeFds
    <2>2. m_fd[o] \in FD /\ sock[m_fd[o]].stat = "listen" /\ m_fd[o] # nfd
      BY <1>1, <2>1, TargetFacts DEF Obj
    <2>3. NewSock("estab").stat = "estab" /\ NewSock("estab").shut = {}
      BY NewSockFacts DEF KStat
    <2>4. /\ sock'[nfd] = NewSock("estab")
          /\ sock'[m_fd[o]] = [sock[m_fd[o]] EXCEPT !.queue = @ - 1]
          /\ \A fd \in FD : fd # nfd /\ fd # m_fd[o] => sock'[fd] = sock[fd]
      BY <2>1, <2>2 DEF TypeOK
    <2>5. /\ sock'[m_fd[o]].stat = sock[m_fd[o]].stat
          /\ sock'[m_fd[o]].shut = sock[m_fd[o]].shut
      BY <2>2, <2>4 DEF TypeOK, KSock
    <2>6. ASSUME NEW fd \in FD, fd # nfd
          PROVE sock'[fd].stat = sock[fd].stat /\ sock'[fd].shut = sock[fd].shut
      BY <2>4, <2>5, <2>6
    <2>7. sock'[nfd].stat = "estab" /\ sock'[nfd].shut = {}
      BY <2>3, <2>4
    <2>. QED
      BY <1>1, <2>1, <2>6, <2>7 DEF AcceptedAs
  <1>. QED
    BY <1>1 DEF accept

LEMMA BlockModeEffect ==
    ASSUME TypeOK, NEW o \in Obj, NEW blocked \in BOOLEAN, set_block_mode(o, blocked)
    PROVE  /\ UNCHANGED <<m_fd, m_state, m_shutdown, holder>>
           /\ \A fd \in FD : /\ sock'[fd].stat = sock[fd].stat
                             /\ sock'[fd].shut = sock[fd].shut
  <1>1. CASE UNCHANGED sock
    BY <1>1 DEF set_block_mode
  <1>2. CASE SetTarget(o, [Target(o) EXCEPT !.block = blocked])
    <2>1. [Target(o) EXCEPT !.block = blocked] \in KSock(MaxBacklog)
      BY TargetFacts, KSockFacts
    <2>2. /\ [Target(o) EXCEPT !.block = blocked].stat = Target(o).stat
          /\ [Target(o) EXCEPT !.block = blocked].shut = Target(o).shut
      BY TargetFacts DEF KSock
    <2>3. CASE ~HasFd(o)
      BY <1>2, <2>3 DEF set_block_mode, SetTarget
    <2>4. CASE HasFd(o)
      <3>1. /\ m_fd[o] \in FD /\ Target(o) = sock[m_fd[o]]
            /\ sock'[m_fd[o]] = [Target(o) EXCEPT !.block = blocked]
            /\ \A fd \in FD : fd # m_fd[o] => sock'[fd] = sock[fd]
        BY <1>2, <2>1, <2>4, SetTargetFacts, TargetFacts
      <3>2. /\ sock'[m_fd[o]].stat = sock[m_fd[o]].stat
            /\ sock'[m_fd[o]].shut = sock[m_fd[o]].shut
        BY <2>2, <3>1
      <3>. QED
        BY <3>1, <3>2 DEF set_block_mode
    <2>. QED
      BY <2>3, <2>4
  <1>. QED
    BY <1>1, <1>2 DEF set_block_mode

LEMMA KernelEffect ==
    ASSUME TypeOK, NEW fd \in FD, ConnectEnds(fd) \/ PeerConnects(fd)
    PROVE  /\ UNCHANGED <<m_fd, m_state, m_shutdown, holder>>
           /\ \A f \in FD : sock'[f].shut = sock[f].shut
           /\ \A f \in FD : sock'[f].stat # sock[f].stat =>
                 sock[f].stat = "pending" /\ sock'[f].stat \in {"ready", "failed"}
  <1>1. sock[fd] \in KSock(MaxBacklog)
    BY DEF TypeOK
  <1>2. CASE ConnectEnds(fd)
    <2>1. PICK stat \in {"ready", "failed"} : sock' = [sock EXCEPT ![fd].stat = stat]
      BY <1>2 DEF ConnectEnds
    <2>2. /\ sock'[fd].stat = stat /\ sock'[fd].shut = sock[fd].shut
          /\ \A f \in FD : f # fd => sock'[f] = sock[f]
      BY <1>1, <2>1 DEF TypeOK, KSock
    <2>. QED
      BY <1>2, <2>2 DEF ConnectEnds
  <1>3. CASE PeerConnects(fd)
    <2>1. /\ sock'[fd].stat = sock[fd].stat /\ sock'[fd].shut = sock[fd].shut
          /\ \A f \in FD : f # fd => sock'[f] = sock[f]
      BY <1>1, <1>3 DEF PeerConnects, TypeOK, KSock
    <2>. QED
      BY <1>3, <2>1 DEF PeerConnects
  <1>. QED
    BY <1>2, <1>3

-----------------------------------------------------------------------------
(***************************************************************************)
(* Who holds which descriptor.  On its own OwnsFd is not inductive: a new  *)
(* descriptor must be known to have no holder, which HolderOpen adds.      *)
(***************************************************************************)
HolderOpen == \A fd \in FD : holder[fd] = Nobody <=> sock[fd].stat = "free"

OwnInv == TypeOK /\ OwnsFd /\ HolderOpen

\* A step that changes no descriptor, holder, or set of open descriptors.
SameOwners ==
    /\ UNCHANGED <<m_fd, holder>>
    /\ \A fd \in FD : sock'[fd].stat = "free" <=> sock[fd].stat = "free"

UsesOnly ==
    \/ \E o \in Obj, host \in Hosts : Bind(o, host)
    \/ \E o \in Obj, blocked \in BOOLEAN : set_block_mode(o, blocked)
    \/ \E o \in Streams, host \in Hosts : Connect(o, host)
    \/ \E o \in Streams, how \in Directions : Shutdown(o, how)
    \/ \E o \in Servers : Listen(o)
    \/ \E fd \in FD : ConnectEnds(fd)
    \/ \E fd \in FD : PeerConnects(fd)
    \/ UNCHANGED vars

LEMMA UseKeepsOwners ==
    ASSUME TypeOK, UsesOnly
    PROVE  SameOwners
  <1>1. ASSUME NEW o \in Obj, NEW host, Bind(o, host) PROVE SameOwners
    BY <1>1 DEF Bind, SameOwners
  <1>2. ASSUME NEW o \in Obj, NEW blocked \in BOOLEAN, set_block_mode(o, blocked)
        PROVE SameOwners
    BY <1>2, BlockModeEffect DEF SameOwners
  <1>3. ASSUME NEW o \in Streams, NEW host \in Hosts, Connect(o, host)
        PROVE SameOwners
    BY <1>3, ConnectEffect, ConnectFacts, NamesAssumption
    DEF SameOwners, OnlyTarget, Follows, HasFd
  <1>4. ASSUME NEW o \in Streams, NEW how \in Directions, Shutdown(o, how)
        PROVE SameOwners
    BY <1>4, ShutdownEffect, ShutdownFacts DEF SameOwners, OnlyTarget, Follows
  <1>5. ASSUME NEW o \in Servers, Listen(o) PROVE SameOwners
    BY <1>5, ListenEffect, ListenFacts, NamesAssumption
    DEF SameOwners, OnlyTarget, Follows, HasFd
  <1>6. ASSUME NEW fd \in FD, ConnectEnds(fd) \/ PeerConnects(fd) PROVE SameOwners
    BY <1>6, KernelEffect DEF SameOwners
  <1>7. CASE UNCHANGED vars
    BY <1>7 DEF vars, SameOwners
  <1>. QED
    BY <1>1, <1>2, <1>3, <1>4, <1>5, <1>6, <1>7 DEF UsesOnly

(***************************************************************************)
(* A descriptor that an object holds is open, and held by it alone.        *)
(***************************************************************************)
LEMMA OwnFacts ==
    ASSUME OwnInv, NEW o \in Obj, HasFd(o)
    PROVE  /\ m_fd[o] \in FD /\ sock[m_fd[o]].stat # "free"
           /\ \A q \in Obj : m_fd[q] = m_fd[o] => q = o
  BY NamesAssumption DEF OwnInv, TypeOK, OwnsFd, HolderOpen, HasFd

LEMMA FreeFdFacts ==
    ASSUME OwnInv, NEW fd \in FD, sock[fd].stat = "free"
    PROVE  \A q \in Obj : m_fd[q] # fd
  BY NamesAssumption DEF OwnInv, OwnsFd, HolderOpen, HasFd

LEMMA OwnInit == Init => OwnInv
  <1>. SUFFICES ASSUME Init PROVE OwnInv
    OBVIOUS
  <1>1. FreeSock.stat = "free"
    BY NewSockFacts DEF FreeSock, KStat
  <1>. QED
    BY <1>1, InitType DEF Init, OwnInv, OwnsFd, HolderOpen, HasFd

LEMMA OwnStep ==
    ASSUME "released" \notin CloseErr, OwnInv, [Next]_vars
    PROVE  OwnInv'
  <1>1. TypeOK /\ TypeOK'
    BY NextType DEF OwnInv
  <1>2. CASE UsesOnly
    <2>1. SameOwners
      BY <1>1, <1>2, UseKeepsOwners
    <2>. QED
      BY <1>1, <2>1 DEF SameOwners, OwnInv, OwnsFd, HolderOpen, HasFd
  <1>3. ASSUME NEW o \in Obj, NEW af \in Domains, Create(o, af) PROVE OwnInv'
    <2>1. CASE UNCHANGED <<m_fd, m_state, m_domain, sock, family, holder>>
      BY <1>1, <2>1 DEF OwnInv, OwnsFd, HolderOpen, HasFd
    <2>2. CASE \E fd \in FreeFds :
                 /\ m_fd' = [m_fd EXCEPT ![o] = fd]
                 /\ sock' = [sock EXCEPT ![fd] = NewSock("idle")]
                 /\ holder' = [holder EXCEPT ![fd] = o]
      <3>1. PICK fd \in FD : /\ sock[fd].stat = "free"
                             /\ m_fd' = [m_fd EXCEPT ![o] = fd]
                             /\ sock' = [sock EXCEPT ![fd] = NewSock("idle")]
                             /\ holder' = [holder EXCEPT ![fd] = o]
        BY <2>2 DEF FreeFds
      <3>2. NewSock("idle").stat = "idle"
        BY NewSockFacts DEF KStat
      <3>. QED
        BY <1>1, <3>1, <3>2, FreeFdFacts, NamesAssumption
        DEF OwnInv, TypeOK, OwnsFd, HolderOpen, HasFd
    <2>. QED
      BY <1>3, <2>1, <2>2 DEF Create
  <1>4. ASSUME NEW o \in Obj, HasFd(o), NEW r \in CloseOutcomes(m_fd[o]),
               KernelClose(m_fd[o], r),
               m_fd' = [m_fd EXCEPT ![o] = INVALID_SOCKET] \/ (r # "0" /\ UNCHANGED m_fd)
        PROVE OwnInv'
    <2>1. r # "released" /\ r # "EBADF"
      BY <1>4, OwnFacts, EnvironmentAssumption DEF CloseOutcomes
    <2>2. FreeSock.stat = "free"
      BY NewSockFacts DEF FreeSock, KStat
    <2>3. CASE r = "0"
      <3>1. /\ m_fd' = [m_fd EXCEPT ![o] = INVALID_SOCKET]
            /\ sock' = [sock EXCEPT ![m_fd[o]] = FreeSock]
            /\ holder' = [holder EXCEPT ![m_fd[o]] = Nobody]
        BY <1>4, <2>3 DEF KernelClose
      <3>. QED
        BY <1>1, <1>4, <2>2, <3>1, OwnFacts, NamesAssumption
        DEF OwnInv, TypeOK, OwnsFd, HolderOpen, HasFd
    <2>4. CASE r # "0"
      <3>1. UNCHANGED <<sock, holder>>
        BY <1>4, <2>1, <2>4 DEF KernelClose
      <3>. QED
        BY <1>1, <1>4, <3>1 DEF OwnInv, TypeOK, OwnsFd, HolderOpen, HasFd
    <2>. QED
      BY <2>3, <2>4
  <1>5. ASSUME NEW o \in Obj, Close(o) PROVE OwnInv'
    <2>1. CASE ~HasFd(o)
      BY <1>1, <1>5, <2>1 DEF Close, OwnInv, OwnsFd, HolderOpen, HasFd
    <2>2. CASE HasFd(o)
      <3>1. PICK r \in CloseOutcomes(m_fd[o]) :
              /\ KernelClose(m_fd[o], r)
              /\ m_fd' = [m_fd EXCEPT ![o] = FdAfterClose(o, r)]
        BY <1>5, <2>2 DEF Close
      <3>2. m_fd' = [m_fd EXCEPT ![o] = INVALID_SOCKET] \/ (r # "0" /\ UNCHANGED m_fd)
        BY <1>1, <3>1 DEF FdAfterClose, TypeOK
      <3>. QED
        BY <1>4, <2>2, <3>1, <3>2
    <2>. QED
      BY <2>1, <2>2
  <1>6. ASSUME NEW o \in Obj, Destroy(o) PROVE OwnInv'
    <2>1. m_fd' = [m_fd EXCEPT ![o] = INVALID_SOCKET]
      BY <1>6 DEF Destroy
    <2>2. CASE ~HasFd(o)
      BY <1>1, <1>6, <2>1, <2>2 DEF Destroy, OwnInv, TypeOK, OwnsFd, HolderOpen, HasFd
    <2>3. CASE HasFd(o)
      BY <1>4, <1>6, <2>1, <2>3 DEF Destroy
    <2>. QED
      BY <2>2, <2>3
  <1>7. ASSUME NEW o \in Servers, NEW p \in Streams, accept(o, p) PROVE OwnInv'
    <2>1. CASE UNCHANGED <<m_fd, m_state, m_domain, sock, family, holder>>
      BY <1>1, <2>1 DEF OwnInv, OwnsFd, HolderOpen, HasFd
    <2>2. CASE ~UNCHANGED <<m_fd, m_state, m_domain, sock, family, holder>>
      <3>1. PICK nfd \in FD : AcceptedAs(o, p, nfd)
        BY <1>1, <1>7, <2>2, AcceptEffect
      <3>. QED
        BY <1>1, <3>1, FreeFdFacts, NamesAssumption
        DEF AcceptedAs, OwnInv, TypeOK, OwnsFd, HolderOpen, HasFd, Obj
    <2>. QED
      BY <2>1, <2>2
  <1>8. ASSUME NEW o \in Obj, NEW p \in Obj, ~HasFd(o), TakeFrom(o, p), UNCHANGED sock
        PROVE OwnInv'
    <2>1. ASSUME NEW q \in Obj, HasFd(q)' PROVE holder'[m_fd'[q]] = q
      BY <1>1, <1>8, <2>1, OwnFacts, NamesAssumption
      DEF TakeFrom, OwnInv, TypeOK, OwnsFd, HasFd
    <2>2. HolderOpen'
      BY <1>1, <1>8, NamesAssumption DEF TakeFrom, OwnInv, TypeOK, HolderOpen
    <2>. QED
      BY <1>1, <2>1, <2>2 DEF OwnInv, OwnsFd
  <1>9. ASSUME NEW o \in Receivers, NEW p \in Streams,
               MoveAssign(o, p) \/ MoveConstruct(o, p)
        PROVE OwnInv'
    <2>1. o \in Obj /\ p \in Obj
      BY ReceiversAreObjects DEF Obj
    <2>2. CASE UNCHANGED <<m_fd, sock, holder>>
      BY <1>1, <2>2 DEF OwnInv, OwnsFd, HolderOpen, HasFd
    <2>. QED
      BY <1>8, <1>9, <2>1, <2>2 DEF MoveAssign, MoveConstruct
  <1>. QED
    BY <1>2, <1>3, <1>5, <1>6, <1>7, <1>9 DEF Next, UsesOnly

(***************************************************************************)
(* If close() never releases a descriptor it reports an error for, no two  *)
(* objects ever hold the same descriptor and none holds one that is closed *)
(* or another's, whatever else fails or is accepted into.                  *)
(***************************************************************************)
THEOREM OwnershipHolds ==
    ASSUME "released" \notin CloseErr
    PROVE  Spec => []OwnsFd
  <1>1. Init => OwnInv
    BY OwnInit
  <1>2. OwnInv /\ [Next]_vars => OwnInv'
    BY OwnStep
  <1>3. OwnInv => OwnsFd
    BY DEF OwnInv
  <1>. QED
    BY <1>1, <1>2, <1>3, PTL DEF Spec

-----------------------------------------------------------------------------
(***************************************************************************)
(* A step changes the view of one object, or the kernel makes progress: by *)
(* OwnsFd the socket a call reaches is no other object's.                  *)
(***************************************************************************)
SameView(q) ==
    /\ m_fd'[q] = m_fd[q]
    /\ m_state'[q] = m_state[q]
    /\ m_shutdown'[q] = m_shutdown[q]
    /\ HasFd(q) => /\ sock'[m_fd[q]].stat = sock[m_fd[q]].stat
                   /\ sock'[m_fd[q]].shut = sock[m_fd[q]].shut

Moves(o, p) == /\ o \in Receivers
               /\ ~HasFd(o)
               /\ TakeFrom(o, p)
               /\ UNCHANGED sock

ActsOn(q) ==
    \/ \E af \in Domains : Create(q, af)
    \/ Close(q)
    \/ Destroy(q)
    \/ q \in Streams /\ \E host \in Hosts : Connect(q, host)
    \/ q \in Streams /\ \E how \in Directions : Shutdown(q, how)
    \/ q \in Servers /\ Listen(q)
    \/ q \in Streams /\ \E o \in Servers : accept(o, q)
    \/ q \in Streams /\ \E p \in Streams : Moves(q, p) \/ Moves(p, q)
    \/ \E fd \in FD : ConnectEnds(fd) \/ PeerConnects(fd)

LEMMA Frame ==
    ASSUME "released" \notin CloseErr, OwnInv, [Next]_vars,
           NEW q \in Obj, ~ActsOn(q)
    PROVE  SameView(q)
  <1>1. TypeOK /\ TypeOK'
    BY NextType DEF OwnInv
  <1>2. ASSUME NEW o \in Obj, NEW af \in Domains, Create(o, af) PROVE SameView(q)
    <2>1. o # q
      BY <1>2 DEF ActsOn
    <2>2. CASE UNCHANGED <<m_fd, m_state, m_domain, sock, family, holder>>
      BY <1>2, <2>2 DEF Create, SameView
    <2>3. CASE ~UNCHANGED <<m_fd, m_state, m_domain, sock, family, holder>>
      <3>1. PICK fd \in FD : /\ sock[fd].stat = "free"
                             /\ m_fd' = [m_fd EXCEPT ![o] = fd]
                             /\ sock' = [sock EXCEPT ![fd] = NewSock("idle")]
        BY <1>2, <2>3 DEF Create, FreeFds
      <3>2. m_state' = [m_state EXCEPT ![o] = "CREATED"] /\ UNCHANGED m_shutdown
        BY <1>2, <2>3 DEF Create
      <3>. QED
        BY <1>1, <2>1, <3>1, <3>2, FreeFdFacts, OwnFacts DEF TypeOK, SameView, HasFd
    <2>. QED
      BY <2>2, <2>3
  <1>3. ASSUME NEW o \in Obj, HasFd(o), o # q, NEW r, KernelClose(m_fd[o], r)
        PROVE HasFd(q) => sock'[m_fd[q]] = sock[m_fd[q]]
    BY <1>1, <1>3, OwnFacts DEF KernelClose, TypeOK
  <1>4. ASSUME NEW o \in Obj, Close(o) PROVE SameView(q)
    <2>1. o # q
      BY <1>4 DEF ActsOn
    <2>2. /\ m_fd'[q] = m_fd[q] /\ m_state'[q] = m_state[q] /\ UNCHANGED m_shutdown
      BY <1>1, <1>4, <2>1 DEF Close, TypeOK
    <2>3. CASE ~HasFd(o)
      BY <1>4, <2>2, <2>3 DEF Close, SameView
    <2>4. CASE HasFd(o)
      <3>1. PICK r : KernelClose(m_fd[o], r)
        BY <1>4, <2>4 DEF Close
      <3>. QED
        BY <1>3, <2>1, <2>2, <2>4, <3>1 DEF SameView
    <2>. QED
      BY <2>3, <2>4
  <1>5. ASSUME NEW o \in Obj, Destroy(o) PROVE SameView(q)
    <2>1. o # q
      BY <1>5 DEF ActsOn
    <2>2. /\ m_fd'[q] = m_fd[q] /\ m_state'[q] = m_state[q]
          /\ m_shutdown'[q] = m_shutdown[q]
      BY <1>1, <1>5, <2>1 DEF Destroy, TypeOK
    <2>3. CASE ~HasFd(o)
      BY <1>5, <2>2, <2>3 DEF Destroy, SameView
    <2>4. CASE HasFd(o)
      BY <1>3, <1>5, <2>1, <2>2, <2>4 DEF Destroy, SameView
    <2>. QED
      BY <2>3, <2>4
  <1>6. ASSUME NEW o \in Obj, o # q, OnlyTarget(o) PROVE SameView(q)
    BY <1>6, OwnFacts DEF OnlyTarget, SameView
  <1>7. ASSUME NEW o \in Streams, NEW host \in Hosts, Connect(o, host)
        PROVE SameView(q)
    BY <1>1, <1>6, <1>7, ConnectEffect DEF ActsOn, Obj
  <1>8. ASSUME NEW o \in Streams, NEW how \in Directions, Shutdown(o, how)
        PROVE SameView(q)
    BY <1>1, <1>6, <1>8, ShutdownEffect DEF ActsOn, Obj
  <1>9. ASSUME NEW o \in Servers, Listen(o) PROVE SameView(q)
    BY <1>1, <1>6, <1>9, ListenEffect DEF ActsOn, Obj
  <1>10. ASSUME NEW o \in Servers, NEW p \in Streams, accept(o, p) PROVE SameView(q)
    <2>1. p # q
      BY <1>10 DEF ActsOn
    <2>2. UNCHANGED m_shutdown
      BY <1>10 DEF accept
    <2>3. CASE UNCHANGED <<m_fd, m_state, m_domain, sock, family, holder>>
      BY <2>2, <2>3 DEF SameView
    <2>4. ASSUME NEW nfd \in FD, AcceptedAs(o, p, nfd) PROVE SameView(q)
      BY <1>1, <2>1, <2>2, <2>4, FreeFdFacts, OwnFacts
      DEF AcceptedAs, SameView, TypeOK
    <2>. QED
      BY <1>1, <1>10, <2>3, <2>4, AcceptEffect
  <1>11. ASSUME NEW o \in Obj, NEW p \in Obj, o # q, p # q, TakeFrom(o, p),
                UNCHANGED sock, m_shutdown'[q] = m_shutdown[q]
         PROVE SameView(q)
    BY <1>1, <1>11 DEF TakeFrom, SameView, TypeOK
  <1>12. ASSUME NEW o \in Receivers, NEW p \in Streams, MoveAssign(o, p)
         PROVE SameView(q)
    <2>1. CASE HasFd(o)
      BY <1>12, <2>1 DEF MoveAssign, SameView
    <2>2. CASE ~HasFd(o)
      <3>1. Moves(o, p)
        BY <1>12, <2>2 DEF MoveAssign, Moves
      <3>2. o # q /\ p # q
        BY <3>1, ReceiversAreObjects DEF ActsOn
      <3>. QED
        BY <1>11, <1>12, <3>1, <3>2, ReceiversAreObjects DEF MoveAssign, Moves, Obj
    <2>. QED
      BY <2>1, <2>2
  <1>13. ASSUME NEW o \in Receivers, NEW p \in Streams, MoveConstruct(o, p)
         PROVE SameView(q)
    <2>1. Moves(o, p)
      BY <1>13 DEF MoveConstruct, Moves
    <2>2. o # q /\ p # q
      BY <2>1, ReceiversAreObjects DEF ActsOn
    <2>3. m_shutdown'[q] = m_shutdown[q]
      BY <1>1, <1>13, <2>2 DEF MoveConstruct, TypeOK
    <2>. QED
      BY <1>11, <2>1, <2>2, <2>3, ReceiversAreObjects DEF Moves, Obj
  <1>14. ASSUME NEW o \in Obj, NEW host, Bind(o, host) PROVE SameView(q)
    BY <1>14 DEF Bind, SameView
  <1>15. ASSUME NEW o \in Obj, NEW blocked \in BOOLEAN, set_block_mode(o, blocked)
         PROVE SameView(q)
    BY <1>1, <1>15, BlockModeEffect, OwnFacts DEF SameView
  <1>16. CASE UNCHANGED vars
    BY <1>16 DEF vars, SameView
  <1>. QED
    BY <1>2, <1>4, <1>5, <1>7, <1>8, <1>9, <1>10, <1>12, <1>13, <1>14, <1>15,
       <1>16 DEF Next, ActsOn

-----------------------------------------------------------------------------
(***************************************************************************)
(* What an object in state OPEN claims, one object at a time.              *)
(***************************************************************************)
Real(q) ==
    /\ q \in Streams /\ m_state[q] = "OPEN" =>
          HasFd(q) /\ sock[m_fd[q]].stat = "estab"
    /\ q \in Servers /\ m_state[q] = "OPEN" =>
          HasFd(q) /\ sock[m_fd[q]].stat = "listen"

LEMMA OpenIsRealForAll == OpenIsReal <=> \A q \in Obj : Real(q)
  BY DEF OpenIsReal, Real, is_connected, Obj

LEMMA OpenStep ==
    ASSUME "released" \notin CloseErr, OwnInv, OwnInv', \A q \in Obj : Real(q),
           [Next]_vars, NEW q \in Obj
    PROVE  Real(q)'
  <1>1. TypeOK /\ TypeOK' /\ Real(q)
    BY DEF OwnInv
  <1>2. CASE ~ActsOn(q)
    BY <1>1, <1>2, Frame DEF SameView, Real, HasFd
  <1>3. CASE \E af \in Domains : Create(q, af)
    <2>1. CASE UNCHANGED <<m_fd, m_state, m_domain, sock, family, holder>>
      BY <1>1, <2>1 DEF Real, HasFd
    <2>2. CASE m_state' = [m_state EXCEPT ![q] = "CREATED"]
      BY <1>1, <2>2 DEF Real, TypeOK
    <2>. QED
      BY <1>3, <2>1, <2>2 DEF Create
  <1>4. CASE Close(q)
    <2>1. CASE UNCHANGED <<m_fd, m_state, sock, family, holder>>
      BY <1>1, <2>1 DEF Real, HasFd
    <2>2. CASE m_state' = [m_state EXCEPT ![q] = "CLOSED"]
      BY <1>1, <2>2 DEF Real, TypeOK
    <2>. QED
      BY <1>4, <2>1, <2>2 DEF Close
  <1>5. CASE Destroy(q)
    BY <1>1, <1>5 DEF Destroy, Real, TypeOK
  <1>6. ASSUME NEW host \in Hosts, q \in Streams, Connect(q, host) PROVE Real(q)'
    <2>1. UNCHANGED m_fd /\ q \notin Servers
      BY <1>6, KindsAssumption DEF Connect
    <2>2. CASE UNCHANGED <<m_state, sock>>
      BY <1>1, <2>1, <2>2 DEF Real, HasFd
    <2>3. ASSUME NEW step \in ConnectSteps(Target(q).block),
                 Follows(q, step[1], step[3]), m_state'[q] = StateAfterConnect(step[2])
          PROVE Real(q)'
      <3>1. CASE step[2] = "0"
        <4>1. step[3] = "estab" /\ step[1] # "free"
          BY <3>1, ConnectFacts
        <4>2. HasFd(q)
          BY <1>1, <2>3, <4>1, TargetFacts DEF Follows
        <4>. QED
          BY <2>1, <2>3, <4>1, <4>2 DEF Follows, Real, HasFd
      <3>2. CASE step[2] # "0"
        BY <2>3, <3>2 DEF StateAfterConnect, Real
      <3>. QED
        BY <3>1, <3>2
    <2>. QED
      BY <1>1, <1>6, <2>2, <2>3, ConnectEffect
  <1>7. ASSUME NEW how \in Directions, q \in Streams, Shutdown(q, how) PROVE Real(q)'
    <2>1. UNCHANGED <<m_fd, m_state>> /\ q \notin Servers
      BY <1>7, KindsAssumption DEF Shutdown
    <2>2. CASE UNCHANGED sock
      BY <1>1, <2>1, <2>2 DEF Real, HasFd
    <2>3. ASSUME NEW step \in ShutdownSteps, Follows(q, step[1], step[3])
          PROVE Real(q)'
      BY <1>1, <2>1, <2>3, ShutdownFacts DEF Follows, Real, HasFd
    <2>. QED
      BY <1>1, <1>7, <2>2, <2>3, ShutdownEffect
  <1>8. ASSUME q \in Servers, Listen(q) PROVE Real(q)'
    <2>1. UNCHANGED m_fd /\ q \notin Streams
      BY <1>8, KindsAssumption DEF Listen
    <2>2. PICK step \in ListenSteps :
            /\ Follows(q, step[1], step[3])
            /\ m_state'[q] = IF step[2] = "0" THEN "OPEN" ELSE m_state[q]
      BY <1>1, <1>8, ListenEffect
    <2>3. CASE step[2] = "0"
      <3>1. step[3] = "listen" /\ step[1] # "free"
        BY <2>3, ListenFacts
      <3>2. HasFd(q)
        BY <1>1, <2>2, <3>1, TargetFacts DEF Follows
      <3>. QED
        BY <2>1, <2>2, <3>1, <3>2 DEF Follows, Real, HasFd
    <2>4. CASE step[2] # "0"
      BY <1>1, <2>1, <2>2, <2>4, ListenFacts DEF Follows, Real, HasFd
    <2>. QED
      BY <2>3, <2>4
  <1>9. ASSUME NEW o \in Servers, q \in Streams, accept(o, q) PROVE Real(q)'
    <2>1. q \notin Servers
      BY <1>9, KindsAssumption
    <2>2. CASE UNCHANGED <<m_fd, m_state, m_domain, sock, family, holder>>
      BY <1>1, <2>2 DEF Real, HasFd
    <2>3. ASSUME NEW nfd \in FD, AcceptedAs(o, q, nfd) PROVE Real(q)'
      BY <1>1, <2>1, <2>3, NamesAssumption DEF AcceptedAs, Real, HasFd, TypeOK
    <2>. QED
      BY <1>1, <1>9, <2>2, <2>3, AcceptEffect
  <1>10. ASSUME NEW o \in Streams, NEW p \in Streams, Moves(o, p), q \in {o, p}
         PROVE Real(q)'
    <2>1. q \notin Servers /\ o \in Obj /\ p \in Obj
      BY <1>10, KindsAssumption DEF Obj
    <2>2. CASE q = p
      BY <1>1, <1>10, <2>1, <2>2 DEF Moves, TakeFrom, Real, TypeOK
    <2>3. CASE q # p
      <3>1. m_fd'[q] = m_fd[p] /\ m_state'[q] = m_state[p] /\ UNCHANGED sock
        BY <1>1, <1>10, <2>1, <2>3 DEF Moves, TakeFrom, TypeOK
      <3>2. Real(p)
        BY <2>1
      <3>. QED
        BY <2>1, <3>1, <3>2 DEF Real, HasFd
    <2>. QED
      BY <2>2, <2>3
  <1>11. ASSUME NEW fd \in FD, ConnectEnds(fd) \/ PeerConnects(fd) PROVE Real(q)'
    BY <1>1, <1>11, KernelEffect DEF Real, HasFd, TypeOK
  <1>. QED
    BY <1>2, <1>3, <1>4, <1>5, <1>6, <1>7, <1>8, <1>9, <1>10, <1>11 DEF ActsOn

(***************************************************************************)
(* Under the same assumption an object in state OPEN has an open           *)
(* descriptor, connected for a stream and listening for a server, whatever *)
(* the other objects do.                                                   *)
(***************************************************************************)
THEOREM OpenHolds ==
    ASSUME "released" \notin CloseErr
    PROVE  Spec => []OpenIsReal
  <1>1. Init => OwnInv /\ OpenIsReal
    <2>1. Init => OpenIsReal
      BY DEF Init, OpenIsReal, is_connected, Obj
    <2>. QED
      BY <2>1, OwnInit
  <1>2. OwnInv /\ OpenIsReal /\ [Next]_vars => (OwnInv /\ OpenIsReal)'
    <2>. SUFFICES ASSUME OwnInv, OpenIsReal, [Next]_vars
                  PROVE  OwnInv' /\ OpenIsReal'
      OBVIOUS
    <2>1. OwnInv'
      BY OwnStep
    <2>2. \A q \in Obj : Real(q)
      BY OpenIsRealForAll
    <2>3. \A q \in Obj : Real(q)'
      BY <2>1, <2>2, OpenStep
    <2>4. OpenIsReal'
      BY <2>3 DEF OpenIsReal, Real, is_connected, Obj
    <2>. QED
      BY <2>1, <2>4
  <1>. QED
    BY <1>1, <1>2, PTL DEF Spec

-----------------------------------------------------------------------------
(***************************************************************************)
(* What an object claims of its shutdown and of its connect in progress.   *)
(* A move breaks both for the object it moves to, which does not get       *)
(* m_shutdown; an object that is only moved from claims nothing any more.  *)
(***************************************************************************)
Told(q) ==
    /\ HasFd(q) => sock[m_fd[q]].shut \subseteq m_shutdown[q]
    /\ q \in Streams /\ m_state[q] = "OPENING" /\ m_shutdown[q] = {} =>
          HasFd(q) /\ sock[m_fd[q]].stat \in {"pending", "ready", "failed"}

LEMMA ToldForAll ==
    (ShutdownReported /\ ConnectingIsReal)
        <=> \A q \in Obj \ Receivers : Told(q)
  BY DEF ShutdownReported, ConnectingIsReal, Told, is_connecting, Obj

LEMMA ToldStep ==
    ASSUME "released" \notin CloseErr, OwnInv, OwnInv', [Next]_vars,
           NEW q \in Obj \ Receivers, Told(q)
    PROVE  Told(q)'
  <1>1. TypeOK /\ TypeOK'
    BY DEF OwnInv
  <1>2. CASE ~ActsOn(q)
    BY <1>1, <1>2, Frame DEF SameView, Told, HasFd
  <1>3. CASE \E af \in Domains : Create(q, af)
    <2>1. UNCHANGED m_shutdown
      BY <1>3 DEF Create
    <2>2. CASE UNCHANGED <<m_fd, m_state, m_domain, sock, family, holder>>
      BY <1>1, <2>1, <2>2 DEF Told, HasFd
    <2>3. CASE ~UNCHANGED <<m_fd, m_state, m_domain, sock, family, holder>>
      <3>1. PICK fd \in FD : /\ m_fd' = [m_fd EXCEPT ![q] = fd]
                             /\ sock' = [sock EXCEPT ![fd] = NewSock("idle")]
        BY <1>3, <2>3 DEF Create, FreeFds
      <3>2. m_state' = [m_state EXCEPT ![q] = "CREATED"]
        BY <1>3, <2>3 DEF Create
      <3>3. NewSock("idle").shut = {}
        BY NewSockFacts DEF KStat
      <3>. QED
        BY <1>1, <2>1, <3>1, <3>2, <3>3 DEF Told, HasFd, TypeOK
    <2>. QED
      BY <2>2, <2>3
  <1>4. CASE Close(q)
    <2>1. UNCHANGED m_shutdown
      BY <1>4 DEF Close
    <2>2. CASE UNCHANGED <<m_fd, m_state, sock, family, holder>>
      BY <1>1, <2>1, <2>2 DEF Told, HasFd
    <2>3. CASE HasFd(q)
      <3>1. m_state'[q] = "CLOSED"
        BY <1>1, <1>4, <2>3 DEF Close, TypeOK
      <3>2. PICK r \in CloseOutcomes(m_fd[q]) :
              /\ KernelClose(m_fd[q], r)
              /\ m_fd' = [m_fd EXCEPT ![q] = FdAfterClose(q, r)]
        BY <1>4, <2>3 DEF Close
      <3>3. CASE r = "0"
        BY <1>1, <3>1, <3>2, <3>3 DEF FdAfterClose, Told, HasFd, TypeOK
      <3>4. CASE r # "0"
        <4>1. r # "released"
          BY <3>2, <3>4, EnvironmentAssumption DEF CloseOutcomes
        <4>. QED
          BY <1>1, <2>1, <3>1, <3>2, <3>4, <4>1
          DEF FdAfterClose, KernelClose, Told, HasFd, TypeOK
      <3>. QED
        BY <3>3, <3>4
    <2>. QED
      BY <1>4, <2>2, <2>3 DEF Close
  <1>5. CASE Destroy(q)
    BY <1>1, <1>5 DEF Destroy, Told, HasFd, TypeOK
  <1>6. ASSUME NEW host \in Hosts, q \in Streams, Connect(q, host) PROVE Told(q)'
    <2>1. UNCHANGED <<m_fd, m_shutdown>>
      BY <1>6 DEF Connect
    <2>2. HasFd(q) => sock'[m_fd[q]].shut = sock[m_fd[q]].shut
      BY <1>1, <1>6, ConnectEffect
    <2>3. CASE UNCHANGED <<m_state, sock>>
      BY <1>1, <2>1, <2>3 DEF Told, HasFd
    <2>4. ASSUME NEW step \in ConnectSteps(Target(q).block),
                 Follows(q, step[1], step[3]), m_state'[q] = StateAfterConnect(step[2])
          PROVE Told(q)'
      <3>1. CASE step[2] = "EINPROGRESS"
        <4>1. step[3] = "pending" /\ step[1] # "free"
          BY <3>1, ConnectFacts
        <4>2. HasFd(q)
          BY <1>1, <2>4, <4>1, TargetFacts DEF Follows
        <4>. QED
          BY <2>1, <2>2, <2>4, <4>1, <4>2 DEF Follows, Told, HasFd
      <3>2. CASE step[2] # "EINPROGRESS"
        BY <2>1, <2>2, <2>4, <3>2 DEF StateAfterConnect, Told, HasFd
      <3>. QED
        BY <3>1, <3>2
    <2>. QED
      BY <1>1, <1>6, <2>3, <2>4, ConnectEffect
  <1>7. ASSUME NEW how \in Directions, q \in Streams, Shutdown(q, how) PROVE Told(q)'
    BY <1>1, <1>7, ShutdownEffect DEF OnlyTarget, Told, HasFd
  <1>8. ASSUME q \in Servers, Listen(q) PROVE Told(q)'
    <2>1. q \notin Streams
      BY <1>8, KindsAssumption
    <2>. QED
      BY <1>1, <1>8, <2>1, ListenEffect DEF OnlyTarget, Told, HasFd
  <1>9. ASSUME NEW o \in Servers, q \in Streams, accept(o, q) PROVE Told(q)'
    <2>1. UNCHANGED m_shutdown
      BY <1>9 DEF accept
    <2>2. CASE UNCHANGED <<m_fd, m_state, m_domain, sock, family, holder>>
      BY <2>1, <2>2 DEF Told, HasFd
    <2>3. ASSUME NEW nfd \in FD, AcceptedAs(o, q, nfd) PROVE Told(q)'
      BY <1>1, <2>1, <2>3 DEF AcceptedAs, Told, HasFd, TypeOK
    <2>. QED
      BY <1>1, <1>9, <2>2, <2>3, AcceptEffect
  <1>10. ASSUME NEW fd \in FD, ConnectEnds(fd) \/ PeerConnects(fd) PROVE Told(q)'
    BY <1>1, <1>10, KernelEffect DEF Told, HasFd, TypeOK
  <1>11. ASSUME NEW o \in Streams, NEW p \in Streams, Moves(o, p), q \in {o, p}
         PROVE Told(q)'
    <2>1. q # o /\ q = p
      BY <1>11 DEF Moves
    <2>2. m_fd'[q] = INVALID_SOCKET /\ m_state'[q] = "CLOSED"
      BY <1>1, <1>11, <2>1 DEF Moves, TakeFrom, TypeOK, Obj
    <2>. QED
      BY <2>2 DEF Told, HasFd
  <1>. QED
    BY <1>2, <1>3, <1>4, <1>5, <1>6, <1>7, <1>8, <1>9, <1>10, <1>11 DEF ActsOn

(***************************************************************************)
(* What every object that nothing is moved to keeps: all, under the        *)
(* facade classes, which move none.                                        *)
(***************************************************************************)
LEMMA ReportsStep ==
    ASSUME "released" \notin CloseErr
    PROVE  /\ Init => OwnInv /\ ShutdownReported /\ ConnectingIsReal
           /\ OwnInv /\ ShutdownReported /\ ConnectingIsReal /\ [Next]_vars
                 => (OwnInv /\ ShutdownReported /\ ConnectingIsReal)'
  <1>1. Init => OwnInv /\ ShutdownReported /\ ConnectingIsReal
    <2>1. Init => ShutdownReported /\ ConnectingIsReal
      BY DEF Init, ShutdownReported, ConnectingIsReal, is_connecting, HasFd, Obj
    <2>. QED
      BY <2>1, OwnInit
  <1>2. OwnInv /\ ShutdownReported /\ ConnectingIsReal /\ [Next]_vars
           => (OwnInv /\ ShutdownReported /\ ConnectingIsReal)'
    <2>. SUFFICES ASSUME OwnInv, ShutdownReported, ConnectingIsReal, [Next]_vars
                  PROVE  OwnInv' /\ ShutdownReported' /\ ConnectingIsReal'
      OBVIOUS
    <2>1. OwnInv'
      BY OwnStep
    <2>2. \A q \in Obj \ Receivers : Told(q)'
      BY <2>1, ToldForAll, ToldStep
    <2>3. ShutdownReported' /\ ConnectingIsReal'
      BY <2>2 DEF ShutdownReported, ConnectingIsReal, Told, is_connecting, Obj
    <2>. QED
      BY <2>1, <2>3
  <1>. QED
    BY <1>1, <1>2

(***************************************************************************)
(* A direction that is shut down in the kernel is reported as shut down by *)
(* an object nothing is moved to.                                          *)
(***************************************************************************)
THEOREM ReportsHold ==
    ASSUME "released" \notin CloseErr
    PROVE  Spec => []ShutdownReported
  BY ReportsStep, PTL DEF Spec

(***************************************************************************)
(* A stream that says it is connecting, and was not asked to shut down,    *)
(* has a kernel socket with a connect in progress or one whose outcome is  *)
(* yet to be reported, unless a SocketImpl is moved to it.                 *)
(***************************************************************************)
THEOREM ConnectingHolds ==
    ASSUME "released" \notin CloseErr
    PROVE  Spec => []ConnectingIsReal
  BY ReportsStep, PTL DEF Spec

-----------------------------------------------------------------------------
(***************************************************************************)
(* That SocketImpl implements DescriptorOwnership, and loses no            *)
(* descriptor, when close() does not fail and nothing is accepted into a   *)
(* stream that is open.  Rests on OwnInv and the effect lemmas above.      *)
(***************************************************************************)
OpenFds == {fd \in FD : sock[fd].stat # "free"}

GoodUse == CloseErr = {} /\ "acceptOpen" \notin Uses

(***************************************************************************)
(* The changes of descriptors that remain under GoodUse.                   *)
(***************************************************************************)
Gains(o, fd) ==
    /\ ~HasFd(o) /\ sock[fd].stat = "free"
    /\ m_fd' = [m_fd EXCEPT ![o] = fd]
    /\ holder' = [holder EXCEPT ![fd] = o]
    /\ sock'[fd].stat # "free"
    /\ \A f \in FD : f # fd => (sock'[f].stat = "free" <=> sock[f].stat = "free")

Loses(o) ==
    /\ HasFd(o)
    /\ m_fd' = [m_fd EXCEPT ![o] = INVALID_SOCKET]
    /\ holder' = [holder EXCEPT ![m_fd[o]] = Nobody]
    /\ sock'[m_fd[o]].stat = "free"
    /\ \A f \in FD : f # m_fd[o] => sock'[f] = sock[f]

LEMMA Cases ==
    ASSUME GoodUse, OwnInv, [Next]_vars
    PROVE  \/ SameOwners
           \/ \E o \in Obj, fd \in FD : Gains(o, fd)
           \/ \E o \in Obj : Loses(o)
           \/ \E o, p \in Obj : Moves(o, p) /\ HasFd(p)
  <1>. DEFINE Goal == \/ SameOwners
                      \/ \E o \in Obj, fd \in FD : Gains(o, fd)
                      \/ \E o \in Obj : Loses(o)
                      \/ \E o, p \in Obj : Moves(o, p) /\ HasFd(p)
  <1>1. TypeOK /\ TypeOK'
    BY NextType DEF OwnInv
  <1>2. CASE UsesOnly
    BY <1>1, <1>2, UseKeepsOwners
  <1>3. ASSUME UNCHANGED <<m_fd, sock, holder>> PROVE Goal
    BY <1>3 DEF SameOwners
  <1>4. ASSUME NEW o \in Obj, NEW af \in Domains, Create(o, af) PROVE Goal
    <2>1. CASE UNCHANGED <<m_fd, m_state, m_domain, sock, family, holder>>
      BY <1>3, <2>1
    <2>2. CASE ~UNCHANGED <<m_fd, m_state, m_domain, sock, family, holder>>
      <3>1. PICK fd \in FD : /\ sock[fd].stat = "free"
                             /\ m_fd' = [m_fd EXCEPT ![o] = fd]
                             /\ sock' = [sock EXCEPT ![fd] = NewSock("idle")]
                             /\ holder' = [holder EXCEPT ![fd] = o]
        BY <1>4, <2>2 DEF Create, FreeFds
      <3>2. m_state' = [m_state EXCEPT ![o] = "CREATED"] /\ ~HasFd(o)
        BY <1>4, <2>2 DEF Create, CanCreate
      <3>3. NewSock("idle").stat = "idle"
        BY NewSockFacts DEF KStat
      <3>4. Gains(o, fd)
        BY <1>1, <3>1, <3>2, <3>3 DEF Gains, TypeOK
      <3>. QED
        BY <3>4
    <2>. QED
      BY <2>1, <2>2
  <1>5. ASSUME NEW o \in Obj, HasFd(o), NEW r \in CloseOutcomes(m_fd[o]),
               KernelClose(m_fd[o], r)
        PROVE /\ r = "0"
              /\ m_fd' = [m_fd EXCEPT ![o] = INVALID_SOCKET] => Loses(o)
    <2>1. r = "0"
      BY <1>5, OwnFacts DEF CloseOutcomes, GoodUse
    <2>2. FreeSock.stat = "free"
      BY NewSockFacts DEF FreeSock, KStat
    <2>. QED
      BY <1>1, <1>5, <2>1, <2>2, OwnFacts DEF KernelClose, Loses, TypeOK
  <1>6. ASSUME NEW o \in Obj, Close(o) PROVE Goal
    <2>1. CASE ~HasFd(o)
      BY <1>3, <1>6, <2>1 DEF Close
    <2>2. CASE HasFd(o)
      <3>1. PICK r \in CloseOutcomes(m_fd[o]) :
              /\ KernelClose(m_fd[o], r)
              /\ m_fd' = [m_fd EXCEPT ![o] = FdAfterClose(o, r)]
        BY <1>6, <2>2 DEF Close
      <3>. QED
        BY <1>5, <2>2, <3>1 DEF FdAfterClose
    <2>. QED
      BY <2>1, <2>2
  <1>7. ASSUME NEW o \in Obj, Destroy(o) PROVE Goal
    <2>1. m_fd' = [m_fd EXCEPT ![o] = INVALID_SOCKET]
      BY <1>7 DEF Destroy
    <2>2. CASE ~HasFd(o)
      <3>1. UNCHANGED m_fd
        BY <1>1, <2>1, <2>2 DEF TypeOK, HasFd
      <3>. QED
        BY <1>3, <1>7, <2>2, <3>1 DEF Destroy
    <2>3. CASE HasFd(o)
      BY <1>5, <1>7, <2>1, <2>3 DEF Destroy
    <2>. QED
      BY <2>2, <2>3
  <1>8. ASSUME NEW o \in Servers, NEW p \in Streams, accept(o, p) PROVE Goal
    <2>1. p \in Obj /\ ~HasFd(p)
      BY <1>8 DEF accept, GoodUse, Obj
    <2>2. CASE UNCHANGED <<m_fd, m_state, m_domain, sock, family, holder>>
      BY <1>3, <2>2
    <2>3. ASSUME NEW nfd \in FD, AcceptedAs(o, p, nfd) PROVE Gains(p, nfd)
      BY <1>1, <2>1, <2>3 DEF AcceptedAs, Gains, TypeOK
    <2>. QED
      BY <1>1, <1>8, <2>1, <2>2, <2>3, AcceptEffect
  <1>9. ASSUME NEW o \in Receivers, NEW p \in Streams,
               MoveAssign(o, p) \/ MoveConstruct(o, p)
        PROVE Goal
    <2>1. o \in Obj /\ p \in Obj
      BY ReceiversAreObjects DEF Obj
    <2>2. CASE UNCHANGED <<m_fd, sock, holder>>
      BY <1>3, <2>2
    <2>3. CASE Moves(o, p) /\ ~HasFd(p)
      <3>1. UNCHANGED m_fd
        BY <1>1, <2>1, <2>3 DEF Moves, TakeFrom, TypeOK, HasFd
      <3>2. UNCHANGED holder
        BY <1>1, <2>1, <2>3, NamesAssumption DEF Moves, TakeFrom, TypeOK, HasFd
      <3>. QED
        BY <1>3, <2>3, <3>1, <3>2 DEF Moves
    <2>4. CASE Moves(o, p) /\ HasFd(p)
      BY <2>1, <2>4
    <2>. QED
      BY <1>9, <2>2, <2>3, <2>4 DEF MoveAssign, MoveConstruct, Moves
  <1>. QED
    BY <1>2, <1>4, <1>6, <1>7, <1>8, <1>9 DEF Next, UsesOnly

-----------------------------------------------------------------------------
(***************************************************************************)
(* No operation of the socket classes takes, gives away or closes a        *)
(* descriptor except as DescriptorOwnership allows.                        *)
(***************************************************************************)
THEOREM Implements == ASSUME GoodUse PROVE Spec => KeepsOwnership
  <1>1. Init => Ownership!Init
    <2>1. FreeSock.stat = "free"
      BY NewSockFacts DEF FreeSock, KStat
    <2>. QED
      BY <2>1 DEF Init, Ownership!Init
  <1>2. OwnInv /\ [Next]_vars => [Ownership!Next]_<<m_fd, OpenFds>>
    <2>. SUFFICES ASSUME OwnInv, [Next]_vars
                  PROVE  [Ownership!Next]_<<m_fd, OpenFds>>
      OBVIOUS
    <2>1. CASE SameOwners
      BY <2>1 DEF SameOwners, OpenFds
    <2>2. ASSUME NEW o \in Obj, NEW fd \in FD, Gains(o, fd)
          PROVE Ownership!Acquire(o, fd)
      BY <2>2 DEF Gains, Ownership!Acquire, HasFd
    <2>3. ASSUME NEW o \in Obj, Loses(o) PROVE Ownership!Release(o)
      BY <2>3, OwnFacts DEF Loses, Ownership!Release
    <2>4. ASSUME NEW o \in Obj, NEW p \in Obj, Moves(o, p), HasFd(p)
          PROVE Ownership!Transfer(o, p)
      BY <2>4, OwnFacts DEF Moves, TakeFrom, Ownership!Transfer, HasFd
    <2>. QED
      BY <2>1, <2>2, <2>3, <2>4, Cases DEF Ownership!Next
  <1>3. OwnInv /\ [Next]_vars => OwnInv'
    BY OwnStep DEF GoodUse
  <1>. QED
    BY <1>1, <1>2, <1>3, OwnInit, PTL
    DEF Spec, KeepsOwnership, Ownership!Spec, OpenFds

LEMMA LostStep ==
    ASSUME GoodUse, OwnInv, NoDescriptorLost, [Next]_vars
    PROVE  NoDescriptorLost'
  <1>1. TypeOK
    BY DEF OwnInv
  <1>2. CASE SameOwners
    BY <1>2 DEF SameOwners, NoDescriptorLost
  <1>3. ASSUME NEW o \in Obj, NEW fd \in FD, Gains(o, fd) PROVE NoDescriptorLost'
    BY <1>1, <1>3, NamesAssumption DEF Gains, NoDescriptorLost, TypeOK, HasFd
  <1>4. ASSUME NEW o \in Obj, Loses(o) PROVE NoDescriptorLost'
    BY <1>1, <1>4, NamesAssumption DEF Loses, NoDescriptorLost, TypeOK, HasFd
  <1>5. ASSUME NEW o \in Obj, NEW p \in Obj, Moves(o, p), HasFd(p)
        PROVE NoDescriptorLost'
    BY <1>1, <1>5, NamesAssumption
    DEF Moves, TakeFrom, NoDescriptorLost, TypeOK, HasFd
  <1>. QED
    BY <1>2, <1>3, <1>4, <1>5, Cases

(***************************************************************************)
(* Every open descriptor is still held by the object it was given to.      *)
(***************************************************************************)
THEOREM NothingLost == ASSUME GoodUse PROVE Spec => []NoDescriptorLost
  <1>1. Init => NoDescriptorLost
    BY DEF Init, NoDescriptorLost
  <1>2. OwnInv /\ NoDescriptorLost /\ [Next]_vars => NoDescriptorLost'
    BY LostStep
  <1>3. OwnInv /\ [Next]_vars => OwnInv'
    BY OwnStep DEF GoodUse
  <1>. QED
    BY <1>1, <1>2, <1>3, OwnInit, PTL DEF Spec

\* ClosedHasNoFd of one object.
Closed(q) == m_state[q] = "CLOSED" => ~HasFd(q)

LEMMA ClosedStep ==
    ASSUME CloseErr = {}, OwnInv, \A q \in Obj : Closed(q), [Next]_vars, NEW q \in Obj
    PROVE  Closed(q)'
  <1>1. TypeOK /\ TypeOK' /\ Closed(q)
    BY NextType DEF OwnInv
  <1>2. CASE ~ActsOn(q)
    BY <1>1, <1>2, Frame DEF SameView, Closed, HasFd
  <1>3. ASSUME UNCHANGED <<m_fd, m_state>> PROVE Closed(q)'
    BY <1>1, <1>3 DEF Closed, HasFd
  <1>4. ASSUME m_state'[q] # "CLOSED" PROVE Closed(q)'
    BY <1>4 DEF Closed
  <1>5. CASE \E af \in Domains : Create(q, af)
    BY <1>1, <1>3, <1>4, <1>5 DEF Create, TypeOK
  <1>6. CASE Close(q)
    <2>1. CASE ~HasFd(q)
      BY <1>3, <1>6, <2>1 DEF Close
    <2>2. CASE HasFd(q)
      <3>1. CloseOutcomes(m_fd[q]) = {"0"}
        BY <2>2, OwnFacts DEF CloseOutcomes
      <3>2. m_fd' = [m_fd EXCEPT ![q] = INVALID_SOCKET]
        BY <1>6, <2>2, <3>1 DEF Close, FdAfterClose
      <3>. QED
        BY <1>1, <3>2 DEF Closed, HasFd, TypeOK
    <2>. QED
      BY <2>1, <2>2
  <1>7. CASE Destroy(q)
    BY <1>1, <1>7 DEF Destroy, Closed, HasFd, TypeOK
  <1>8. ASSUME NEW host \in Hosts, q \in Streams, Connect(q, host) PROVE Closed(q)'
    <2>1. UNCHANGED m_fd
      BY <1>8 DEF Connect
    <2>. QED
      BY <1>1, <1>3, <1>4, <1>8, <2>1, ConnectEffect DEF StateAfterConnect
  <1>9. ASSUME NEW how \in Directions, q \in Streams, Shutdown(q, how) PROVE Closed(q)'
    BY <1>3, <1>9 DEF Shutdown
  <1>10. CASE q \in Servers /\ Listen(q)
    BY <1>1, <1>3, <1>4, <1>10 DEF Listen, TypeOK
  <1>11. ASSUME NEW o \in Servers, q \in Streams, accept(o, q) PROVE Closed(q)'
    BY <1>1, <1>3, <1>4, <1>11, AcceptEffect DEF AcceptedAs, TypeOK
  <1>12. ASSUME NEW o \in Streams, NEW p \in Streams, Moves(o, p), q \in {o, p}
         PROVE Closed(q)'
    <2>1. o \in Obj /\ p \in Obj
      BY DEF Obj
    <2>2. CASE q = p
      BY <1>1, <1>12, <2>1, <2>2 DEF Moves, TakeFrom, Closed, HasFd, TypeOK
    <2>3. CASE q # p
      <3>1. m_fd'[q] = m_fd[p] /\ m_state'[q] = m_state[p]
        BY <1>1, <1>12, <2>1, <2>3 DEF Moves, TakeFrom, TypeOK
      <3>. QED
        BY <2>1, <3>1 DEF Closed, HasFd
    <2>. QED
      BY <2>2, <2>3
  <1>13. ASSUME NEW fd \in FD, ConnectEnds(fd) \/ PeerConnects(fd) PROVE Closed(q)'
    BY <1>1, <1>3, <1>13, KernelEffect
  <1>. QED
    BY <1>2, <1>5, <1>6, <1>7, <1>8, <1>9, <1>10, <1>11, <1>12, <1>13 DEF ActsOn

(***************************************************************************)
(* Unless close() fails, an object that says it is closed has no           *)
(* descriptor.                                                             *)
(***************************************************************************)
THEOREM ClosedHolds == ASSUME CloseErr = {} PROVE Spec => []ClosedHasNoFd
  <1>1. Init => OwnInv /\ ClosedHasNoFd
    <2>1. Init => ClosedHasNoFd
      BY DEF Init, ClosedHasNoFd, HasFd
    <2>. QED
      BY <2>1, OwnInit
  <1>2. OwnInv /\ ClosedHasNoFd /\ [Next]_vars => (OwnInv /\ ClosedHasNoFd)'
    <2>. SUFFICES ASSUME OwnInv, ClosedHasNoFd, [Next]_vars
                  PROVE  OwnInv' /\ ClosedHasNoFd'
      OBVIOUS
    <2>1. OwnInv'
      BY OwnStep
    <2>2. \A q \in Obj : Closed(q)'
      BY ClosedStep DEF ClosedHasNoFd, Closed, is_closed
    <2>. QED
      BY <2>1, <2>2 DEF ClosedHasNoFd, Closed, is_closed
  <1>. QED
    BY <1>1, <1>2, PTL DEF Spec

-----------------------------------------------------------------------------
(***************************************************************************)
(* The family an object remembers is that of the kernel socket it holds.   *)
(* Rests on OwnInv: an object left with the number of a descriptor that    *)
(* was closed would see the family of whatever opens there next.           *)
(***************************************************************************)
Knows(q) == HasFd(q) => m_domain[q] = family[m_fd[q]]

FamilyInv == OwnInv /\ \A q \in Obj : Knows(q)

\* A call that leaves alone the descriptor of q, its socket and its family.
LEMMA KnowsKept ==
    ASSUME NEW q \in Obj, Knows(q), m_fd'[q] = m_fd[q], m_domain'[q] = m_domain[q],
           HasFd(q) => family'[m_fd[q]] = family[m_fd[q]]
    PROVE  Knows(q)'
  BY DEF Knows, HasFd

LEMMA TakeKnows ==
    ASSUME TypeOK, NEW o \in Obj, NEW p \in Obj, TakeFrom(o, p), UNCHANGED family,
           NEW q \in Obj, Knows(p), Knows(q)
    PROVE  Knows(q)'
  <1>1. CASE q = p
    BY <1>1 DEF TakeFrom, TypeOK, Knows, HasFd
  <1>2. CASE q # p /\ q = o
    <2>1. m_fd'[q] = m_fd[p] /\ m_domain'[q] = m_domain[p]
      BY <1>2 DEF TakeFrom, TypeOK
    <2>. QED
      BY <2>1 DEF Knows, HasFd
  <1>3. CASE q # p /\ q # o
    BY <1>3, KnowsKept DEF TakeFrom, TypeOK
  <1>. QED
    BY <1>1, <1>2, <1>3

\* Another object obtains the free descriptor fd.
LEMMA OtherGets ==
    ASSUME OwnInv, NEW o \in Obj, NEW fd \in FD, sock[fd].stat = "free",
           m_fd' = [m_fd EXCEPT ![o] = fd],
           NEW af, m_domain' = [m_domain EXCEPT ![o] = af],
           family' = [family EXCEPT ![fd] = af],
           NEW q \in Obj, Knows(q)
    PROVE  Knows(q)'
  <1>1. TypeOK
    BY DEF OwnInv
  <1>2. CASE q = o
    <2>1. m_fd'[q] = fd /\ m_domain'[q] = af /\ family'[fd] = af
      BY <1>1, <1>2 DEF TypeOK
    <2>. QED
      BY <2>1 DEF Knows
  <1>3. CASE q # o
    <2>1. m_fd[q] # fd
      BY FreeFdFacts
    <2>. QED
      BY <1>1, <1>3, <2>1, KnowsKept DEF TypeOK
  <1>. QED
    BY <1>2, <1>3

LEMMA KnowsStep ==
    ASSUME "released" \notin CloseErr, OwnInv, \A q \in Obj : Knows(q), [Next]_vars,
           NEW q \in Obj
    PROVE  Knows(q)'
  <1>0. TypeOK
    BY DEF OwnInv
  <1>1. ASSUME UNCHANGED <<m_fd, m_domain, family>> PROVE Knows(q)'
    BY <1>1, KnowsKept
  <1>2. ASSUME NEW o \in Obj, NEW af \in Domains, Create(o, af) PROVE Knows(q)'
    <2>1. CASE UNCHANGED <<m_fd, m_state, m_domain, sock, family, holder>>
      BY <1>1, <2>1
    <2>2. CASE ~UNCHANGED <<m_fd, m_state, m_domain, sock, family, holder>>
      <3>1. PICK fd \in FD : /\ sock[fd].stat = "free"
                             /\ m_fd' = [m_fd EXCEPT ![o] = fd]
                             /\ family' = [family EXCEPT ![fd] = af]
        BY <1>2, <2>2 DEF Create, FreeFds
      <3>2. m_domain' = [m_domain EXCEPT ![o] = af]
        BY <1>2, <2>2 DEF Create, DomainAfterCreate
      <3>. QED
        BY <3>1, <3>2, OtherGets
    <2>. QED
      BY <2>1, <2>2
  <1>3. ASSUME NEW o \in Obj, HasFd(o), NEW r, KernelClose(m_fd[o], r), q # o
        PROVE  HasFd(q) => family'[m_fd[q]] = family[m_fd[q]]
    BY <1>0, <1>3, OwnFacts DEF KernelClose, TypeOK
  <1>4. ASSUME NEW o \in Obj, Close(o) PROVE Knows(q)'
    <2>1. UNCHANGED m_domain
      BY <1>4 DEF Close
    <2>2. CASE ~HasFd(o)
      BY <1>1, <1>4, <2>2 DEF Close
    <2>3. CASE HasFd(o)
      <3>1. PICK r \in CloseOutcomes(m_fd[o]) :
              /\ KernelClose(m_fd[o], r)
              /\ m_fd' = [m_fd EXCEPT ![o] = FdAfterClose(o, r)]
        BY <1>4, <2>3 DEF Close
      <3>2. CASE q # o
        BY <1>0, <1>3, <2>1, <2>3, <3>1, <3>2, KnowsKept DEF TypeOK
      <3>3. CASE q = o /\ r = "0"
        BY <1>0, <3>1, <3>3 DEF FdAfterClose, Knows, HasFd, TypeOK
      <3>4. CASE q = o /\ r # "0"
        <4>1. r # "released"
          BY <3>1, <3>4, EnvironmentAssumption DEF CloseOutcomes
        <4>2. UNCHANGED family
          BY <3>1, <3>4, <4>1 DEF KernelClose
        <4>3. m_fd'[q] = m_fd[q]
          BY <1>0, <3>1, <3>4 DEF FdAfterClose, TypeOK
        <4>. QED
          BY <2>1, <4>2, <4>3, KnowsKept
      <3>. QED
        BY <3>2, <3>3, <3>4
    <2>. QED
      BY <2>2, <2>3
  <1>5. ASSUME NEW o \in Obj, Destroy(o) PROVE Knows(q)'
    <2>1. CASE q = o
      BY <1>0, <1>5, <2>1 DEF Destroy, Knows, HasFd, TypeOK
    <2>2. CASE q # o
      <3>1. m_fd'[q] = m_fd[q] /\ m_domain'[q] = m_domain[q]
        BY <1>0, <1>5, <2>2 DEF Destroy, TypeOK
      <3>2. HasFd(q) => family'[m_fd[q]] = family[m_fd[q]]
        BY <1>3, <1>5, <2>2 DEF Destroy
      <3>. QED
        BY <3>1, <3>2, KnowsKept
    <2>. QED
      BY <2>1, <2>2
  <1>6. ASSUME NEW o \in Servers, NEW p \in Streams, accept(o, p) PROVE Knows(q)'
    <2>1. CASE UNCHANGED <<m_fd, m_state, m_domain, sock, family, holder>>
      BY <1>1, <2>1
    <2>2. CASE ~UNCHANGED <<m_fd, m_state, m_domain, sock, family, holder>>
      <3>1. PICK nfd \in FD : /\ sock[nfd].stat = "free"
                              /\ m_fd' = [m_fd EXCEPT ![p] = nfd]
                              /\ family' = [family EXCEPT ![nfd] = family[m_fd[o]]]
        BY <1>6, <2>2 DEF accept, FreeFds
      <3>2. /\ m_domain' = [m_domain EXCEPT ![p] = m_domain[o]]
            /\ Target(o).stat = "listen"
        BY <1>6, <2>2 DEF accept
      <3>3. o \in Obj /\ p \in Obj
        BY DEF Obj
      <3>4. m_domain[o] = family[m_fd[o]]
        BY <1>0, <3>2, <3>3, TargetFacts DEF Knows
      <3>. QED
        BY <3>1, <3>2, <3>3, <3>4, OtherGets
    <2>. QED
      BY <2>1, <2>2
  <1>7. ASSUME NEW o \in Receivers, NEW p \in Streams, MoveAssign(o, p) \/ MoveConstruct(o, p)
        PROVE  Knows(q)'
    <2>1. o \in Obj /\ p \in Obj
      BY ReceiversAreObjects DEF Obj
    <2>2. UNCHANGED family /\ (UNCHANGED <<m_fd, m_domain>> \/ TakeFrom(o, p))
      BY <1>7 DEF MoveAssign, MoveConstruct
    <2>. QED
      BY <1>0, <1>1, <2>1, <2>2, TakeKnows
  <1>8. CASE \/ \E o \in Obj, host \in Hosts : Bind(o, host)
             \/ \E o \in Obj, blocked \in BOOLEAN : set_block_mode(o, blocked)
             \/ \E o \in Streams, host \in Hosts : Connect(o, host)
             \/ \E o \in Streams, how \in Directions : Shutdown(o, how)
             \/ \E o \in Servers : Listen(o)
    BY <1>1, <1>8 DEF Bind, set_block_mode, Connect, Shutdown, Listen
  <1>9. ASSUME NEW fd \in FD, ConnectEnds(fd) \/ PeerConnects(fd) PROVE Knows(q)'
    BY <1>1, <1>9 DEF ConnectEnds, PeerConnects
  <1>10. CASE UNCHANGED vars
    BY <1>1, <1>10 DEF vars
  <1>. QED
    BY <1>2, <1>4, <1>5, <1>6, <1>7, <1>8, <1>9, <1>10 DEF Next

\* Two readings of the same answer as addresses of the same family agree.
LEMMA KnowsAgree ==
    ASSUME \A q \in Obj : Knows(q)
    PROVE  EndpointsAgree
  <1>. SUFFICES ASSUME NEW o \in Obj, KernelFamily(o) \in Known
                PROVE  /\ GetLocalAddress(o) = GetLocalEndpoint(o)
                       /\ GetLocalPort(o) = GetLocalEndpoint(o)
                       /\ GetRemoteAddress(o) = GetRemoteEndpoint(o)
                       /\ GetRemotePort(o) = GetRemoteEndpoint(o)
    BY DEF EndpointsAgree
  <1>1. HasFd(o) /\ KernelFamily(o) = family[m_fd[o]]
    BY DEF KernelFamily, Known
  <1>2. m_domain[o] = KernelFamily(o)
    BY <1>1 DEF Knows
  <1>3. \A errno : ByFamily(o, errno) = Endpoint(o, errno)
    BY <1>2 DEF ByFamily, Endpoint
  <1>. QED
    BY <1>3 DEF GetLocalAddress, GetLocalPort, GetRemoteAddress, GetRemotePort,
                GetLocalEndpoint, GetRemoteEndpoint

(***************************************************************************)
(* The address and the port of an object are had whenever its endpoint is, *)
(* and read as addresses of the family of its kernel socket, for every mix *)
(* of families, whatever objects are reused, accepted into or moved, if    *)
(* close() never releases a descriptor it reports an error for.            *)
(***************************************************************************)
THEOREM EndpointsAlwaysAgree ==
    ASSUME "released" \notin CloseErr PROVE Spec => []EndpointsAgree
  <1>1. Init => FamilyInv
    BY OwnInit DEF Init, FamilyInv, Knows, HasFd
  <1>2. FamilyInv /\ [Next]_vars => FamilyInv'
    BY OwnStep, KnowsStep DEF FamilyInv
  <1>3. FamilyInv => EndpointsAgree
    BY KnowsAgree DEF FamilyInv
  <1>. QED
    BY <1>1, <1>2, <1>3, PTL DEF Spec

-----------------------------------------------------------------------------
(***************************************************************************)
(* Channels, under GoodUse: a channel that is closed or deleted holds      *)
(* nothing, and one that is closed can be created again, whatever the      *)
(* other sockets of the process do.                                        *)
(***************************************************************************)

(***************************************************************************)
(* What a channel's calls rest on: that its socket, where it says it is    *)
(* closed, has no descriptor; and that a descriptor given to it is the one *)
(* it has, so that its destructor releases all that it was given.          *)
(***************************************************************************)
ChannelInv ==
    /\ OwnInv /\ ClosedHasNoFd /\ NoDescriptorLost
    /\ m_pSockImpl \in [Channels -> BOOLEAN]
    /\ DeletedHoldsNothing

LEMMA ChannelsAreObjects ==
    /\ Channels \subseteq Obj /\ Plain \subseteq Obj
    /\ Servers \subseteq Obj /\ Streams \subseteq Obj
    /\ Channels \cap Plain = {} /\ Channels \cap Streams = {}
  BY ChannelAssumption, KindsAssumption DEF Obj, Plain

(***************************************************************************)
(* A close that has nothing to do is the Close of a socket that has no     *)
(* descriptor.                                                             *)
(***************************************************************************)
LEMMA CloseIsClose ==
    ASSUME ChannelInv, NEW c \in Channels, channel_close(c)
    PROVE  Close(c)
  <1>1. c \in Obj
    BY ChannelsAreObjects
  <1>2. CASE MayClose(c)
    BY <1>2 DEF channel_close
  <1>3. CASE ~MayClose(c)
    <2>1. ~HasFd(c)
      BY <1>1, <1>3
      DEF MayClose, ChannelInv, ClosedHasNoFd, DeletedHoldsNothing
    <2>. QED
      BY <1>3, <2>1 DEF channel_close, Close
  <1>. QED
    BY <1>2, <1>3

\* A step of the channels and the sockets is one of the sockets.
LEMMA ChannelCalls ==
    ASSUME ChannelInv, [ChannelNext]_allVars
    PROVE  [Next]_vars
  <1>1. ASSUME NEW c \in Channels, NEW af \in Domains, channel_create(c, af)
        PROVE  [Next]_vars
    BY <1>1, ChannelsAreObjects DEF channel_create, Next
  <1>2. ASSUME NEW c \in Channels, channel_close(c) PROVE [Next]_vars
    BY <1>2, ChannelsAreObjects, CloseIsClose DEF Next
  <1>3. ASSUME NEW c \in Channels, channel_delete(c) PROVE [Next]_vars
    BY <1>3, ChannelsAreObjects DEF channel_delete, Next
  <1>4. ASSUME SocketStep PROVE [Next]_vars
    BY <1>4, ChannelsAreObjects DEF SocketStep, Next
  <1>5. CASE UNCHANGED allVars
    BY <1>5 DEF allVars
  <1>. QED
    BY <1>1, <1>2, <1>3, <1>4, <1>5 DEF ChannelNext

LEMMA ChannelStart == ChannelInit => ChannelInv
  <1>. SUFFICES ASSUME ChannelInit PROVE ChannelInv
    OBVIOUS
  <1>1. OwnInv
    BY OwnInit DEF ChannelInit
  <1>2. NoDescriptorLost /\ ClosedHasNoFd
    BY DEF ChannelInit, Init, NoDescriptorLost, ClosedHasNoFd, HasFd
  <1>3. DeletedHoldsNothing
    BY NamesAssumption, ChannelsAreObjects
    DEF ChannelInit, Init, DeletedHoldsNothing, HasFd
  <1>. QED
    BY <1>1, <1>2, <1>3 DEF ChannelInv, ChannelInit

(***************************************************************************)
(* No call on the sockets of the other slots reaches a channel's.          *)
(***************************************************************************)
LEMMA OthersKeepChannel ==
    ASSUME TypeOK, SocketStep, NEW d \in Channels
    PROVE  m_fd'[d] = m_fd[d]
  <1>1. ASSUME NEW o \in Plain, NEW af \in Domains, Create(o, af)
        PROVE  m_fd'[d] = m_fd[d]
    <2>1. d # o
      BY ChannelsAreObjects
    <2>. QED
      BY <1>1, <2>1, ChannelsAreObjects DEF Create, TypeOK
  <1>2. ASSUME NEW o \in Plain, Close(o) \/ Destroy(o) PROVE m_fd'[d] = m_fd[d]
    <2>1. d # o
      BY ChannelsAreObjects
    <2>. QED
      BY <1>2, <2>1, ChannelsAreObjects DEF Close, Destroy, TypeOK
  <1>3. ASSUME NEW o \in Servers, Listen(o) PROVE m_fd'[d] = m_fd[d]
    BY <1>3 DEF Listen
  <1>4. ASSUME NEW o \in Servers, NEW p \in Streams, accept(o, p)
        PROVE  m_fd'[d] = m_fd[d]
    <2>1. d # p
      BY ChannelsAreObjects
    <2>. QED
      BY <1>4, <2>1, ChannelsAreObjects DEF accept, TypeOK
  <1>5. ASSUME NEW o \in Receivers, NEW p \in Streams,
               MoveAssign(o, p) \/ MoveConstruct(o, p)
        PROVE  m_fd'[d] = m_fd[d]
    <2>1. d # o /\ d # p
      BY ChannelsAreObjects, ReceiversAreObjects
    <2>. QED
      BY <1>5, <2>1, ChannelsAreObjects DEF MoveAssign, MoveConstruct, TakeFrom, TypeOK
  <1>6. ASSUME NEW fd \in FD, PeerConnects(fd) PROVE m_fd'[d] = m_fd[d]
    BY <1>6 DEF PeerConnects
  <1>. QED
    BY <1>1, <1>2, <1>3, <1>4, <1>5, <1>6 DEF SocketStep

(***************************************************************************)
(* A channel without a ServerSocket stays without a descriptor whoever     *)
(* calls, and the destructor leaves none.                                  *)
(***************************************************************************)
LEMMA DeletedStep ==
    ASSUME ChannelInv, NoDescriptorLost', [ChannelNext]_allVars
    PROVE  m_pSockImpl' \in [Channels -> BOOLEAN] /\ DeletedHoldsNothing'
  <1>1. TypeOK /\ m_pSockImpl \in [Channels -> BOOLEAN]
    BY DEF ChannelInv, OwnInv
  <1>2. m_pSockImpl' \in [Channels -> BOOLEAN]
    BY <1>1 DEF ChannelNext, channel_create, channel_close, channel_delete,
                channelVars, allVars
  <1>. SUFFICES ASSUME NEW d \in Channels, ~m_pSockImpl'[d]
                PROVE  ~HasFd(d)' /\ \A fd \in FD : holder'[fd] # d
    BY <1>2 DEF DeletedHoldsNothing
  <1>3. d \in Obj /\ d # Nobody
    BY ChannelsAreObjects, NamesAssumption
  <1>4. ~m_pSockImpl[d] => ~HasFd(d)
    BY DEF ChannelInv, DeletedHoldsNothing
  <1>5. ASSUME NEW c \in Channels, NEW af \in Domains, channel_create(c, af)
        PROVE  ~HasFd(d)'
    <2>1. c # d /\ ~m_pSockImpl[d]
      BY <1>1, <1>5 DEF channel_create
    <2>2. m_fd'[d] = m_fd[d]
      BY <1>1, <1>3, <1>5, <2>1, ChannelsAreObjects
      DEF channel_create, Create, vars, TypeOK
    <2>. QED
      BY <1>4, <2>1, <2>2 DEF HasFd
  <1>6. ASSUME NEW c \in Channels, channel_close(c) PROVE ~HasFd(d)'
    <2>1. ~m_pSockImpl[d]
      BY <1>6 DEF channel_close, channelVars
    <2>2. m_fd'[d] = m_fd[d]
      BY <1>1, <1>3, <1>6, <2>1, ChannelsAreObjects
      DEF channel_close, MayClose, Close, TypeOK
    <2>. QED
      BY <1>4, <2>1, <2>2 DEF HasFd
  <1>7. ASSUME NEW c \in Channels, channel_delete(c) PROVE ~HasFd(d)'
    <2>1. m_fd' = [m_fd EXCEPT ![c] = INVALID_SOCKET]
      BY <1>7 DEF channel_delete, Destroy
    <2>2. c # d => ~m_pSockImpl[d]
      BY <1>1, <1>7 DEF channel_delete
    <2>. QED
      BY <1>1, <1>3, <1>4, <2>1, <2>2 DEF HasFd, TypeOK
  <1>8. ASSUME SocketStep, UNCHANGED channelVars PROVE ~HasFd(d)'
    BY <1>1, <1>4, <1>8, OthersKeepChannel DEF channelVars, HasFd
  <1>9. ASSUME UNCHANGED allVars PROVE ~HasFd(d)'
    BY <1>4, <1>9 DEF allVars, vars, channelVars, HasFd
  <1>10. ~HasFd(d)'
    BY <1>5, <1>6, <1>7, <1>8, <1>9 DEF ChannelNext
  <1>. QED
    BY <1>3, <1>10, NamesAssumption DEF NoDescriptorLost, HasFd

LEMMA ChannelStep ==
    ASSUME GoodUse, ChannelInv, [ChannelNext]_allVars
    PROVE  ChannelInv'
  <1>1. [Next]_vars
    BY ChannelCalls
  <1>2. OwnInv /\ ClosedHasNoFd /\ NoDescriptorLost
    BY DEF ChannelInv
  <1>3. OwnInv'
    BY <1>1, <1>2, OwnStep DEF GoodUse
  <1>4. ClosedHasNoFd'
    <2>1. \A q \in Obj : Closed(q)'
      BY <1>1, <1>2, ClosedStep DEF ClosedHasNoFd, Closed, is_closed, GoodUse
    <2>. QED
      BY <2>1 DEF ClosedHasNoFd, Closed, is_closed
  <1>5. NoDescriptorLost'
    BY <1>1, <1>2, LostStep
  <1>. QED
    BY <1>3, <1>4, <1>5, DeletedStep DEF ChannelInv

LEMMA ChannelInvHolds == ASSUME GoodUse PROVE ChannelSpec => []ChannelInv
  <1>1. ChannelInv /\ [ChannelNext]_allVars => ChannelInv'
    BY ChannelStep
  <1>. QED
    BY <1>1, ChannelStart, PTL DEF ChannelSpec

-----------------------------------------------------------------------------
(***************************************************************************)
(* A process of channels and sockets behaves as one of sockets, so that    *)
(* what is proved of Spec holds of it: no descriptor is lost, and a        *)
(* channel's socket owns its descriptor like any other.                    *)
(***************************************************************************)
THEOREM ChannelsAreSockets == ASSUME GoodUse PROVE ChannelSpec => Spec
  <1>1. ChannelInit => Init
    BY DEF ChannelInit
  <1>2. ChannelInv /\ [ChannelNext]_allVars => [Next]_vars
    BY ChannelCalls
  <1>. QED
    BY <1>1, <1>2, ChannelInvHolds, PTL DEF ChannelSpec, Spec

(***************************************************************************)
(* Deleting a channel, whether or not it was closed, releases what it had. *)
(***************************************************************************)
THEOREM DeletedHolds ==
    ASSUME GoodUse PROVE ChannelSpec => []DeletedHoldsNothing
  BY ChannelInvHolds, PTL DEF ChannelInv

(***************************************************************************)
(* A close that returns true leaves the channel without a descriptor.      *)
(***************************************************************************)
THEOREM CloseCloses ==
    ASSUME GoodUse PROVE ChannelSpec => ChannelCloseCloses
  <1>1. ASSUME ChannelInv, NEW c \in Channels, channel_close(c) PROVE ~HasFd(c)'
    <2>1. c \in Obj /\ OwnInv /\ TypeOK
      BY <1>1, ChannelsAreObjects DEF ChannelInv, OwnInv
    <2>2. Close(c)
      BY <1>1, CloseIsClose
    <2>3. CASE ~HasFd(c)
      BY <2>2, <2>3 DEF Close, HasFd
    <2>4. CASE HasFd(c)
      <3>1. CloseOutcomes(m_fd[c]) = {"0"}
        BY <2>1, <2>4, OwnFacts DEF CloseOutcomes, GoodUse
      <3>2. m_fd' = [m_fd EXCEPT ![c] = INVALID_SOCKET]
        BY <2>2, <2>4, <3>1 DEF Close, FdAfterClose
      <3>. QED
        BY <2>1, <3>2 DEF HasFd, TypeOK
    <2>. QED
      BY <2>3, <2>4
  <1>2. ChannelInv =>
            \A c \in Channels :
               channel_close(c) /\ ret'.value = "true" => ~HasFd(c)'
    BY <1>1
  <1>. QED
    BY <1>2, ChannelInvHolds, PTL DEF ChannelCloseCloses

(***************************************************************************)
(* Where the assertion of create passes, it does not throw.                *)
(***************************************************************************)
THEOREM CreateHolds ==
    ASSUME GoodUse PROVE ChannelSpec => CreateReturns
  <1>1. ASSUME ChannelInv, NEW c \in Channels, NEW af \in Domains,
               channel_create(c, af), ~aborted'
        PROVE  ret'.value # "throw"
    <2>1. is_closed(c) /\ Create(c, af)
      BY <1>1 DEF channel_create
    <2>2. CanCreate(c)
      BY <1>1, <2>1, ChannelsAreObjects DEF ChannelInv, ClosedHasNoFd, CanCreate
    <2>. QED
      BY <2>1, <2>2 DEF Create, Return
  <1>2. ChannelInv =>
            \A c \in Channels, af \in Domains :
               channel_create(c, af) /\ ~aborted' => ret'.value # "throw"
    BY <1>1
  <1>. QED
    BY <1>2, ChannelInvHolds, PTL DEF CreateReturns

=============================================================================
