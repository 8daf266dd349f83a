------------------------------ MODULE Sockets -------------------------------
(***************************************************************************)
(* Who closes which descriptor (network.c, datagram.c): creating,          *)
(* connecting, accepting, passing on and closing sockets, plain and TLS,   *)
(* by threads that share the process's table of descriptors.  A call is a  *)
(* sequence of system calls any of which may fail; each is a step, and the *)
(* kernel hands out the lowest free descriptor.                            *)
(*                                                                         *)
(* SSL_set_fd fails only when memory runs out, which does not happen here; *)
(* a message that passes a socket on carries a descriptor.  sock is the    *)
(* field of that name, ssock of a server; fd what SSL_get_fd answers.      *)
(***************************************************************************)
EXTENDS Integers, FiniteSetsExt

CONSTANTS NULL, Thread, Obj, MaxFd,
          MaxAddrs       \* addresses a host name has

VARIABLE st
vars == <<st>>

INVALID == -1
FD      == 0..MaxFd

Init == st = [open |-> {0}, obj |-> [o \in Obj |-> NULL], call |-> [t \in Thread |-> NULL],
              passed |-> FALSE]

At(t, pc)  == st.call[t] # NULL /\ st.call[t].pc = pc
Spare      == {o \in Obj : st.obj[o] = NULL}
Fresh      == CHOOSE o \in Spare : TRUE
FreeFds    == FD \ st.open
NewFd      == Min(FreeFds)
Live(o)    == st.obj[o] # NULL /\ st.obj[o].live
IsSSL(o)   == st.obj[o].kind \in {"sslsocket", "sslserver"}
Go(s, t, pc) == [s EXCEPT !.call[t].pc = pc]

Record(kind, sock) == [kind |-> kind, sock |-> sock, session |-> FALSE, fd |-> INVALID, live |-> FALSE]
(* All of a server's record but its functions is zero at first, and only   *)
(* a plain server's ssock is then set to INVALID.                          *)
SocketCreate           == Record("socket", INVALID)
SSLSocketCreate        == Record("sslsocket", INVALID)
ServerSocketRecord     == Record("server", INVALID)
SSLServerSocketRecord  == Record("sslserver", 0)
DGramSocketRecord      == Record("dgram", INVALID)

Begin(t, record, pc, addrs) ==
  /\ st.call[t] = NULL /\ Spare # {}
  /\ st' = [st EXCEPT !.obj[Fresh] = record,
                      !.call[t] = [pc |-> pc, o |-> Fresh, s |-> INVALID, addrs |-> addrs]]

SocketClose(s, o)    == [s EXCEPT !.open = @ \ {s.obj[o].sock}, !.obj[o] = NULL]
SSLSocketClose(s, o) == SocketClose([s EXCEPT !.obj[o].sock = IF s.obj[o].session THEN s.obj[o].fd ELSE @], o)
CloseOf(s, o)        == IF s.obj[o].kind = "sslsocket" THEN SSLSocketClose(s, o) ELSE SocketClose(s, o)

Fails(s, t) == [CloseOf(s, s.call[t].o) EXCEPT !.call[t] = NULL]
Done(s, t)  == [s EXCEPT !.obj[s.call[t].o].live = TRUE, !.call[t] = NULL]

-----------------------------------------------------------------------------
(* Connecting, to each of the addresses of a host in turn.                 *)
SocketConnectInternal(t) == Begin(t, SocketCreate, "resolve", 0)
SocketConnectWithAddr(t) == Begin(t, SocketCreate, "socket", 1)
SSLSocketConnect(t)      == Begin(t, SSLSocketCreate, "context", 0)

(* The context and its files, then the session with its server name.       *)
SSLContext(t) ==
  /\ At(t, "context")
  /\ LET made == [st EXCEPT !.obj[st.call[t].o].session = TRUE]
     IN  st' \in {Fails(st, t), Fails(made, t), Go(made, t, "resolve")}

SocketConnectBase(t) ==
  /\ At(t, "resolve")
  /\ \/ st' = Fails(st, t)
     \/ \E n \in 1..MaxAddrs : st' = [Go(st, t, "socket") EXCEPT !.call[t].addrs = n]

NextAddr(s, t) ==
  IF s.call[t].addrs = 1 THEN Fails(s, t)
  ELSE [Go(s, t, "socket") EXCEPT !.call[t].addrs = @ - 1]
ConnectSocket(t) ==
  /\ At(t, "socket")
  /\ \/ st' = NextAddr(st, t)
     \/ /\ FreeFds # {}
        /\ st' = [Go(st, t, "connect") EXCEPT !.open = @ \cup {NewFd}, !.call[t].s = NewFd]
(* Setting the socket up or connecting it fails or times out, or works.    *)
SocketConnectByIP(t) ==
  /\ At(t, "connect")
  /\ LET s == st.call[t].s
     IN  \/ st' = NextAddr([st EXCEPT !.open = @ \ {s}, !.call[t].s = INVALID], t)
         \/ LET on == [st EXCEPT !.obj[st.call[t].o].sock = s, !.call[t].s = INVALID]
            IN  st' = IF IsSSL(st.call[t].o)
                      THEN [Go(on, t, "handshake") EXCEPT !.obj[st.call[t].o].fd = s]
                      ELSE Done(on, t)
(* SSL_connect of a client, SSL_accept of a server.                        *)
Handshake(t) == At(t, "handshake") /\ st' \in {Fails(st, t), Done(st, t)}

-----------------------------------------------------------------------------
ServerSocketCreate(t)    == Begin(t, ServerSocketRecord, "listener", 0)
SSLServerSocketCreate(t) == Begin(t, SSLServerSocketRecord, "listener", 0)

ServerSocketCreateBase(t) ==
  \/ /\ At(t, "listener")
     /\ \/ st' = Fails(st, t)
        \/ /\ FreeFds # {}
           /\ st' = [Go(st, t, "bind") EXCEPT !.open = @ \cup {NewFd}, !.call[t].s = NewFd]
  \/ /\ At(t, "bind")
     /\ LET s == st.call[t].s
        IN  \/ st' = [Go(st, t, "failed") EXCEPT !.open = @ \ {s}, !.call[t].s = INVALID]
            \/ st' = [Go(st, t, "listening") EXCEPT !.obj[st.call[t].o].sock = s, !.call[t].s = INVALID]
ServerSocketCreateEnds(t) ==
  \/ At(t, "failed") /\ st' = Fails(st, t)
  \/ At(t, "listening") /\ st' = Done(st, t)
  \/ At(t, "listening") /\ IsSSL(st.call[t].o) /\ st' = Fails(st, t)

ServerSocketAccept(t) ==
  \E o \in Obj :
     /\ Live(o)
     /\ \/ st.obj[o].kind = "server" /\ Begin(t, SocketCreate, "accept", 0)
        \/ st.obj[o].kind = "sslserver" /\ Begin(t, SSLSocketCreate, "accept", 0)
ServerSocketAcceptInternal(t) ==
  \/ /\ At(t, "accept")
     /\ \/ st' = Fails(st, t)
        \/ /\ FreeFds # {}
           /\ st' = [Go(st, t, "accepted") EXCEPT !.open = @ \cup {NewFd},
                                                  !.obj[st.call[t].o].sock = NewFd]
  \/ /\ At(t, "accepted")
     /\ \/ st' = Fails(st, t)
        \/ ~IsSSL(st.call[t].o) /\ st' = Done(st, t)
(* SSL_new and SSL_set_fd.                                                 *)
SSLServerSocketAccept(t) ==
  /\ At(t, "accepted") /\ IsSSL(st.call[t].o)
  /\ st' = [Go(st, t, "handshake") EXCEPT !.obj[st.call[t].o].session = TRUE,
                                          !.obj[st.call[t].o].fd = st.obj[st.call[t].o].sock]

-----------------------------------------------------------------------------
(* Both ends of a pair, or neither.                                        *)
SocketPair(t) ==
  /\ st.call[t] = NULL
  /\ Cardinality(Spare) >= 2 /\ Cardinality(FreeFds) >= 2
  /\ LET o == Fresh
         p == CHOOSE q \in Spare \ {o} : TRUE
         s == NewFd
         r == Min(FreeFds \ {s})
     IN  st' = [st EXCEPT !.open = @ \cup {s, r},
                          !.obj[o] = [SocketCreate EXCEPT !.sock = s, !.live = TRUE],
                          !.obj[p] = [SocketCreate EXCEPT !.sock = r, !.live = TRUE]]

(* The kernel keeps a reference of its own to a socket under way.          *)
WriteSocket(o) ==
  /\ Live(o) /\ st.obj[o].kind = "socket" /\ ~st.passed
  /\ st' = [st EXCEPT !.passed = TRUE]
ReadSocket(t) ==
  /\ st.call[t] = NULL /\ st.passed /\ Spare # {} /\ FreeFds # {}
  /\ \/ st' = [st EXCEPT !.passed = FALSE]
     \/ st' = [st EXCEPT !.passed = FALSE, !.open = @ \cup {NewFd},
                         !.obj[Fresh] = [SocketCreate EXCEPT !.sock = NewFd, !.live = TRUE]]

DGramSocketCreate(t) == Begin(t, DGramSocketRecord, "dgram", 0)
DGramSocketCreateInternal(t) ==
  \/ /\ At(t, "dgram")
     /\ \/ st' = Fails(st, t)
        \/ /\ FreeFds # {}
           /\ st' = [Go(st, t, "dbind") EXCEPT !.open = @ \cup {NewFd},
                                               !.obj[st.call[t].o].sock = NewFd]
  \/ At(t, "dbind") /\ st' \in {Fails(st, t), Done(st, t)}

(* The user closes what no call uses.                                      *)
Close(o) == Live(o) /\ st' = CloseOf(st, o)

Next ==
  \/ \E t \in Thread :
       \/ SocketConnectInternal(t) \/ SocketConnectWithAddr(t) \/ SSLSocketConnect(t)
       \/ SSLContext(t) \/ SocketConnectBase(t) \/ ConnectSocket(t) \/ SocketConnectByIP(t)
       \/ Handshake(t) \/ ServerSocketCreate(t) \/ SSLServerSocketCreate(t)
       \/ ServerSocketCreateBase(t) \/ ServerSocketCreateEnds(t)
       \/ ServerSocketAccept(t) \/ ServerSocketAcceptInternal(t) \/ SSLServerSocketAccept(t)
       \/ SocketPair(t) \/ ReadSocket(t) \/ DGramSocketCreate(t) \/ DGramSocketCreateInternal(t)
  \/ \E o \in Obj : WriteSocket(o) \/ Close(o)

Spec == Init /\ [][Next]_vars

-----------------------------------------------------------------------------
Holders(fd) ==
  {o \in Obj : st.obj[o] # NULL /\ st.obj[o].sock = fd} \cup
  {t \in Thread : st.call[t] # NULL /\ st.call[t].s = fd}

(* However calls fail and interleave, a descriptor is open exactly while   *)
(* one socket, or one call that is about to make it a socket's, holds it:  *)
(* nothing leaks, and no call closes a descriptor the kernel has meanwhile *)
(* given to somebody else.  Descriptor 0 is the exception: a TLS server    *)
(* that cannot be created closes it.                                       *)
SocketsSound ==
  /\ \A fd \in FD \ {0} : Cardinality(Holders(fd)) = IF fd \in st.open THEN 1 ELSE 0
  /\ \A o \in Obj : Live(o) => st.obj[o].sock # INVALID
=============================================================================
