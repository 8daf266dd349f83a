------------------------------ MODULE Datagram ------------------------------
(***************************************************************************)
(* CMUTIL_DGramSocket (datagram.c): UDP sockets bound, connected to a      *)
(* peer, dissolved from it again, sending and receiving.  k is the         *)
(* kernel's side of each socket, d the library's record of it.  What was   *)
(* sent arrives in any order, any number of times or never.  A socket's    *)
(* address is the socket itself; Other is an address of another family.    *)
(***************************************************************************)
EXTENDS Integers, Sequences, FiniteSets

CONSTANTS NULL, Sock, Other,
          Sizes,          \* sizes of messages
          Capacity,       \* capacities of buffers
          MaxQueue,       \* datagrams a socket's queue holds
          MaxSent         \* bound on the different datagrams sent

VARIABLE st
vars == <<st>>

Init ==
  st = [k |-> [x \in Sock |-> [port |-> NULL, asked |-> FALSE, peer |-> NULL, queue |-> <<>>]],
        d |-> [x \in Sock |-> [binded |-> FALSE, laddr |-> NULL, connected |-> FALSE, raddr |-> NULL]],
        sent |-> {}, last |-> NULL]

(* An address of NULL asks for any port.                                   *)
Bind(x, saddr) ==
  st' = IF saddr # Other /\ st.k[x].port = NULL
        THEN [st EXCEPT !.k[x].port = x, !.k[x].asked = saddr # NULL, !.d[x].laddr = x, !.d[x].binded = TRUE]
        ELSE st

(* The kernel may take back a port it chose itself.                        *)
Disconnect(s, x) ==
  IF s.d[x].connected
  THEN {[s EXCEPT !.k[x].peer = NULL, !.k[x].port = port, !.d[x].raddr = NULL, !.d[x].connected = FALSE] :
          port \in {x} \cup IF s.k[x].asked THEN {} ELSE {NULL}}
  ELSE {s}

(* The kernel binds a socket that connects or sends and is not bound yet.  *)
Named(s, x) == [s EXCEPT !.k[x].port = x]
Connect(x, saddr) ==
  \E free \in Disconnect(st, x) :
    LET on == [Named(free, x) EXCEPT !.k[x].peer = saddr, !.d[x].raddr = saddr, !.d[x].connected = TRUE]
    IN  st' \in (IF saddr = Other THEN {free} ELSE {free, on})

GetRemoteAddr(x) == IF st.d[x].connected THEN st.d[x].raddr ELSE NULL
GetLocalAddr(x)  == IF st.d[x].connected \/ st.d[x].binded THEN st.d[x].laddr ELSE NULL

Posted(x, to, size) ==
  LET dgram == [from |-> x, to |-> to, size |-> size]
  IN  /\ Cardinality(st.sent \cup {dgram}) <= MaxSent
      /\ st' = [Named(st, x) EXCEPT !.sent = @ \cup {dgram}]
Send(x, size) ==
  /\ st.d[x].connected
  /\ Posted(x, st.k[x].peer, size)
SendTo(x, saddr, size) ==
  /\ saddr # Other
  /\ Posted(x, saddr, size)

(* The kernel takes what is meant for a port, of a connected socket only   *)
(* what comes from its peer.                                               *)
Arrive(dgram) ==
  LET k == st.k[dgram.to]
  IN  /\ k.port # NULL /\ k.peer \in {NULL, dgram.from}
      /\ Len(k.queue) < MaxQueue
      /\ st' = [st EXCEPT !.k[dgram.to].queue = Append(@, dgram)]

(* A receive takes one datagram and as much of it as the buffer holds, and *)
(* sets the buffer's size to it.  Only a connected socket may Recv.        *)
Received(x, cap, saddr) ==
  /\ st.k[x].queue # <<>>
  /\ LET dgram == Head(st.k[x].queue)
     IN  st' = [st EXCEPT !.k[x].queue = Tail(@),
                          !.last = [by |-> x, cap |-> cap, from |-> IF saddr THEN dgram.from ELSE NULL,
                                    size |-> IF dgram.size < cap THEN dgram.size ELSE cap]]
Recv(x, cap)     == st.d[x].connected /\ Received(x, cap, FALSE)
RecvFrom(x, cap) == Received(x, cap, TRUE)

Next ==
  \/ \E x \in Sock :
       \/ \E saddr \in {NULL, x, Other} : Bind(x, saddr)
       \/ \E saddr \in Sock \cup {Other} : Connect(x, saddr)
       \/ st' \in Disconnect(st, x)
       \/ \E size \in Sizes : Send(x, size) \/ \E saddr \in Sock \cup {Other} : SendTo(x, saddr, size)
       \/ \E cap \in Capacity : Recv(x, cap) \/ RecvFrom(x, cap)
  \/ \E dgram \in st.sent : Arrive(dgram)

Spec == Init /\ [][Next]_vars

(* The library's record of a socket agrees with the kernel's whatever      *)
(* failed; GetLocalAddr is right while a socket that was bound has a port; *)
(* a receive returns one datagram that was sent to this socket, whole      *)
(* unless the buffer is too small for it, with the address it came from.   *)
DatagramSound ==
  /\ \A x \in Sock :
        /\ st.d[x].connected <=> st.k[x].peer # NULL
        /\ GetRemoteAddr(x) = st.k[x].peer
        /\ st.d[x].binded /\ st.k[x].port # NULL => GetLocalAddr(x) = st.k[x].port
  /\ st.last # NULL =>
        \E dgram \in st.sent :
           /\ dgram.to = st.last.by /\ st.last.from \in {NULL, dgram.from}
           /\ st.last.size = dgram.size \/ (st.last.size = st.last.cap /\ st.last.cap < dgram.size)
=============================================================================
