---------------------------- MODULE PosixSocket ----------------------------
(***************************************************************************)
(* The kernel's side of the socket calls that mercury::net makes, seen     *)
(* from src/net/socket_impl.h.  Nothing here is code of the library: it is *)
(* the environment SocketImpl runs in, reduced to what decides the errno a *)
(* call returns and what the socket is afterwards.                         *)
(*                                                                         *)
(* A kernel socket is one of                                               *)
(*   free     the descriptor is not open                                   *)
(*   idle     created; neither connected nor listening                     *)
(*   pending  a connect is in progress                                     *)
(*   ready    the connect completed in the background, not yet reported    *)
(*   failed   the connect failed in the background, not yet reported       *)
(*   estab    connected, and reported so by connect() or accept()          *)
(*   listen   listening                                                    *)
(***************************************************************************)
EXTENDS Naturals

KStat == {"free", "idle", "pending", "ready", "failed", "estab", "listen"}

Directions == {"RD", "WR"}

(***************************************************************************)
(* stat as above; shut: directions shut down; block: O_NONBLOCK is clear;  *)
(* queue: connections waiting to be accepted, at most backlog of them.     *)
(***************************************************************************)
KSock(backlog) == [stat : KStat, shut : SUBSET Directions,
                   block : BOOLEAN, queue : 0..backlog]

NewSock(stat) == [stat |-> stat, shut |-> {}, block |-> TRUE, queue |-> 0]

FreeSock == NewSock("free")

(***************************************************************************)
(* The tables give, for a call on a socket, the triples <<status before,   *)
(* errno, status after>>; errno "0" is success.  A call on a descriptor    *)
(* that is not open returns EBADF.  A blocking connect that a signal       *)
(* interrupts goes on in the background.                                   *)
(***************************************************************************)
ConnectSteps(block) ==
    {<<"free",   "EBADF",        "free">>,
     <<"idle",   "0",            "estab">>,
     <<"idle",   "ECONNREFUSED", "idle">>,
     <<"ready",  "0",            "estab">>,
     <<"failed", "ECONNREFUSED", "idle">>,
     <<"estab",  "EISCONN",      "estab">>,
     <<"listen", "EISCONN",      "listen">>}
    \cup IF block
         THEN {<<"idle",    "EINTR",        "pending">>,
               <<"pending", "0",            "estab">>,
               <<"pending", "ECONNREFUSED", "idle">>,
               <<"pending", "EINTR",        "pending">>}
         ELSE {<<"idle",    "EINPROGRESS",  "pending">>,
               <<"pending", "EALREADY",     "pending">>}

(***************************************************************************)
(* Listening needs a socket that is not connecting or connected.           *)
(***************************************************************************)
ListenSteps ==
    {<<"free",    "EBADF",      "free">>,
     <<"idle",    "0",          "listen">>,
     <<"idle",    "EADDRINUSE", "idle">>,
     <<"listen",  "0",          "listen">>,
     <<"pending", "EINVAL",     "pending">>,
     <<"ready",   "EINVAL",     "ready">>,
     <<"failed",  "EINVAL",     "failed">>,
     <<"estab",   "EINVAL",     "estab">>}

(***************************************************************************)
(* Shutting down half a connection.  Linux abandons a connect in progress, *)
(* and takes a completed one as reported; a connection the peer has reset  *)
(* gives ENOTCONN.                                                         *)
(***************************************************************************)
ShutdownSteps ==
    {<<"free",    "EBADF",    "free">>,
     <<"estab",   "0",        "estab">>,
     <<"estab",   "ENOTCONN", "estab">>,
     <<"ready",   "0",        "estab">>,
     <<"pending", "0",        "idle">>,
     <<"pending", "ENOTCONN", "pending">>,
     <<"idle",    "ENOTCONN", "idle">>,
     <<"failed",  "ENOTCONN", "failed">>,
     <<"listen",  "0",        "idle">>,
     <<"listen",  "0",        "listen">>}

=============================================================================
