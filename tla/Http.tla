-------------------------------- MODULE Http --------------------------------
(***************************************************************************)
(* http.c: clients that send requests and read the answers, and the pools  *)
(* of connections kept open for the next request (CMUTIL_Pool, pool.c).  A *)
(* connection is [id, key, tls, in, late, eof, sound]: in is what arrived  *)
(* and was not read, late what is under way, sound whether every answer on *)
(* it came whole, told its length and had no trailer.  An answer is a      *)
(* sequence of lines and of bytes; a byte is marked with the request it    *)
(* answers.                                                                *)
(***************************************************************************)
EXTENDS Integers, Sequences, SequencesExt, FiniteSetsExt

CONSTANTS NULL,
          Client,           \* threads, with a client each
          KeyOf(_),         \* host and port of a client
          IsHttps(_),
          Answers,          \* what servers answer, see Tokens
          HeaderLists,      \* headers of callers, by their names
          Lower(_),         \* a name in lower case
          Number(_),        \* strtol
          Paths,            \* ends of URLs
          MaxRequests       \* bound on the requests

VARIABLE st
vars == <<st>>

MaxCnt == 5                 \* of PoolCreate
Keys == {KeyOf(c) : c \in Client}

Init == st = [pools |-> [k \in Keys |-> NULL], place |-> [c \in Client |-> NULL], ping |-> NULL,
              keepalive |-> [c \in Client |-> TRUE], requests |-> 0, last |-> NULL]

----------------------------------------------------------------------------
(* An answer [v11, status, connection, length, chunks, trailer, more]: no  *)
(* length and no chunks leaves the end of the data to the end of the       *)
(* connection.                                                             *)
Line(name, value) == [t |-> name, v |-> value]
Bytes(n, len)     == [i \in 1 .. len |-> Line("byte", n)]
Chunk(n, len)     == <<Line("size", len)>> \o Bytes(n, len) \o <<Line("blank", NULL)>>
Optional(name, v) == IF v = NULL THEN <<>> ELSE <<Line(name, v)>>

Tokens(a, n) ==
  <<[t |-> "status", v |-> a.status, v11 |-> a.v11]>>
    \o Optional("connection", a.connection) \o Optional("length", a.length)
    \o (IF a.chunks = NULL THEN <<>> ELSE <<Line("transfer", "chunked")>>)
    \o <<Line("blank", NULL)>>
    \o (IF a.chunks = NULL THEN Bytes(n, IF a.length = NULL THEN a.more ELSE a.length)
        ELSE FlattenSeq([i \in DOMAIN a.chunks |-> Chunk(n, a.chunks[i])]) \o <<Line("size", 0)>>
               \o (IF a.trailer THEN <<Line("trailer", NULL)>> ELSE <<>>) \o <<Line("blank", NULL)>>)

Data(a, n) == SelectSeq(Tokens(a, n), LAMBDA x : x.t = "byte")

(* Whether an answer tells where its data ends, and whether Request reads  *)
(* it to its end.  Of what follows the last chunk it reads a single line:  *)
(* with a trailer the blank line behind it stays, and the connection is    *)
(* kept all the same.                                                      *)
Delimited(a) == a.length # NULL \/ a.more = 0
ReadToEnd(a) == Delimited(a) /\ (a.chunks # NULL => ~a.trailer)

----------------------------------------------------------------------------
(* The line at the front of ts, and the rest.  Bytes before it are taken   *)
(* for a part of it; there may be no end of line before the timeout.       *)
ReadLine(ts) ==
  LET i == SelectInSeq(ts, LAMBDA x : x.t # "byte")
  IN  [line |-> IF i = 0 THEN IF ts = <<>> THEN NULL ELSE Line("part", NULL)
                ELSE IF i = 1 THEN ts[1] ELSE Line("garbage", NULL),
       done |-> i > 0,
       rest |-> IF i = 0 THEN <<>> ELSE SubSeq(ts, i + 1, Len(ts))]
Rest(ts) == ReadLine(ts).rest

(* The headers of an answer, after its status line: nothing read at all    *)
(* within the timeout passes for the blank line.                           *)
RECURSIVE Headers(_, _, _)
Header(h, line, keepalive) ==
  CASE line.t = "connection" -> [h EXCEPT !.keep = IF line.v = "close" THEN FALSE
                                                   ELSE IF line.v = "keep-alive" THEN keepalive ELSE @]
    [] line.t = "length"     -> [h EXCEPT !.len = line.v]
    [] line.t = "transfer"   -> [h EXCEPT !.chunked = TRUE]
    [] OTHER                 -> h
AfterHeader(r, h, keepalive) ==
  IF r.line = NULL THEN [h EXCEPT !.rest = <<>>]
  ELSE IF ~r.done THEN [h EXCEPT !.ok = FALSE]
  ELSE IF r.line.t = "blank" THEN [h EXCEPT !.rest = r.rest]
  ELSE Headers(r.rest, Header(h, r.line, keepalive), keepalive)
Headers(ts, h, keepalive) == AfterHeader(ReadLine(ts), h, keepalive)

Broken == [ok |-> FALSE, body |-> <<>>, rest |-> <<>>]

(* The chunks of a body.  A line that does not come ends it, too.          *)
RECURSIVE Chunks(_, _)
AfterSize(r, n, body) ==
  IF ~r.done \/ r.line.t = "blank" THEN [ok |-> TRUE, body |-> body, rest |-> r.rest]
  ELSE IF r.line.t # "size" THEN Broken
  ELSE IF n = 0 THEN [ok |-> TRUE, body |-> body, rest |-> Rest(r.rest)]
  ELSE IF Len(r.rest) < n THEN Broken
  ELSE Chunks(Rest(SubSeq(r.rest, n + 1, Len(r.rest))), body \o SubSeq(r.rest, 1, n))
Sized(r, body)   == AfterSize(r, r.line.v, body)
Chunks(ts, body) == Sized(ReadLine(ts), body)

(* What Request makes of what it reads: [ok, status, keep, body, rest].    *)
NoLine == {"size", "blank"}          \* no space in it
Failed(status) == [ok |-> FALSE, status |-> status, keep |-> FALSE, body |-> NULL, rest |-> <<>>]
Body(h) ==
  CASE h.len > 0 -> IF Len(h.rest) < h.len THEN Broken
                    ELSE [ok |-> TRUE, body |-> SubSeq(h.rest, 1, h.len),
                          rest |-> SubSeq(h.rest, h.len + 1, Len(h.rest))]
    [] h.len = 0 /\ h.chunked  -> Chunks(h.rest, <<>>)
    [] h.len = 0 /\ ~h.chunked -> [ok |-> TRUE, body |-> <<>>, rest |-> h.rest]
Received(h, status, b) ==
  IF b.ok THEN [ok |-> TRUE, status |-> status, keep |-> h.keep, body |-> b.body, rest |-> b.rest]
  ELSE Failed(status)
ReadBody(h, status) ==
  IF ~h.ok \/ h.len < 0 THEN Failed(status) ELSE Received(h, status, Body(h))
AfterStatus(r, isStatus, keepalive) ==
  IF ~r.done \/ r.line.t \in NoLine THEN Failed(NULL)
  ELSE ReadBody(Headers(r.rest, [ok |-> TRUE, len |-> 0, chunked |-> FALSE, rest |-> <<>>,
                                 keep |-> keepalive /\ isStatus /\ r.line.v11], keepalive),
                IF isStatus THEN r.line.v ELSE 0)
StatusOf(r, keepalive)    == AfterStatus(r, r.done /\ r.line.t = "status", keepalive)
ReadAnswer(ts, keepalive) == StatusOf(ReadLine(ts), keepalive)

----------------------------------------------------------------------------
(* The lines a request sends: those of the caller; Host and Content-Length *)
(* when they are not among them, in any case, and Connection always.       *)
Names(headers) == {Lower(headers[i]) : i \in DOMAIN headers}
RequestLines(method, headers, body) ==
  headers \o (IF "host" \in Names(headers) THEN <<>> ELSE <<"Host">>) \o <<"Connection">>
    \o (IF method \in {"POST", "PUT"} /\ body /\ "content-length" \notin Names(headers)
          THEN <<"Content-Length">> ELSE <<>>)
RestHeaders(headers, body) ==
  headers \o (IF "accept" \in Names(headers) THEN <<>> ELSE <<"Accept">>)
    \o (IF body /\ "content-type" \notin Names(headers) THEN <<"Content-Type">> ELSE <<>>)

(* A URL is a sequence of words, ":" and "/".  A ":" anywhere after the    *)
(* scheme is taken for that of a port.                                     *)
ParseUrl(url) ==
  LET at(s, x) == SelectInSeq(s, LAMBDA y : y = x)
      upTo(s, x) == IF at(s, x) = 0 THEN s ELSE SubSeq(s, 1, at(s, x) - 1)
      p == at(url, ":")
      from == SubSeq(url, p + 3, Len(url))
      host == upTo(from, IF at(from, ":") > 0 THEN ":" ELSE "/")
      port == upTo(SubSeq(from, at(from, ":") + 1, Len(from)), "/")
      https == upTo(url, ":") = <<"https">>
  IN  IF p = 0 \/ SubSeq(url, p, Min({p + 2, Len(url)})) # <<":", "/", "/">> \/ host = <<>> THEN NULL
      ELSE IF at(from, ":") = 0 THEN [host |-> host, https |-> https, port |-> IF https THEN 443 ELSE 80]
      ELSE IF port = <<>> \/ Number(port[1]) \notin 1 .. 65535 THEN NULL
      ELSE [host |-> host, https |-> https, port |-> Number(port[1])]

----------------------------------------------------------------------------
(* The pool of a key is made by the first PutSocket; it has no factory and *)
(* no test on borrow, so a CheckOut is a miss or takes the first one.      *)
NewPool == [avail |-> <<>>, permits |-> MaxCnt]

\* A wrong variant of GetSocket: the connection stays in the pool.
GetSocketCopy(c) ==
  LET pool == st.pools[KeyOf(c)]
      new == [id |-> st.requests, key |-> KeyOf(c), tls |-> IsHttps(c), in |-> <<>>, late |-> <<>>,
              eof |-> FALSE, sound |-> TRUE]
  IN  IF pool = NULL \/ pool.permits = 0 \/ pool.avail = <<>> THEN [sock |-> new, pools |-> st.pools]
      ELSE [sock |-> Head(pool.avail), pools |-> [st.pools EXCEPT ![KeyOf(c)].permits = @ - 1]]

GetSocket(c) ==
  LET pool == st.pools[KeyOf(c)]
      new == [id |-> st.requests, key |-> KeyOf(c), tls |-> IsHttps(c), in |-> <<>>, late |-> <<>>,
              eof |-> FALSE, sound |-> TRUE]
  IN  IF pool = NULL \/ pool.permits = 0 \/ pool.avail = <<>> THEN [sock |-> new, pools |-> st.pools]
      ELSE [sock |-> Head(pool.avail),
            pools |-> [st.pools EXCEPT ![KeyOf(c)] = [avail |-> Tail(pool.avail), permits |-> pool.permits - 1]]]

PutSocket(pools, sock) ==
  LET pool == IF pools[sock.key] = NULL THEN NewPool ELSE pools[sock.key]
  IN  [pools EXCEPT ![sock.key] = [avail |-> Append(pool.avail, sock), permits |-> pool.permits + 1]]

(* A request gets a connection (or cannot connect, which changes nothing)  *)
(* and writes itself; writing fails when the peer has closed, or may.      *)
(* Failed or not, the first part of the answer arrives before the timeout. *)
Arrived(sock, n, a, ts, len) ==
  [sock  |-> [sock EXCEPT !.in = @ \o SubSeq(ts, 1, len), !.late = SubSeq(ts, len + 1, Len(ts)),
                          !.sound = @ /\ len = Len(ts) /\ ReadToEnd(a)],
   n |-> n, a |-> a, sound |-> sock.sound /\ len = Len(ts) /\ Delimited(a)]
Request(c) ==
  LET n == st.requests + 1
  IN  /\ st.place[c] = NULL /\ st.requests < MaxRequests
      /\ \E g \in {GetSocket(c)} :
           \/ /\ g.sock.eof
              /\ st' = [st EXCEPT !.pools = g.pools, !.requests = n, !.last = NULL]
           \/ /\ ~g.sock.eof
              /\ \E a \in Answers : \E ts \in {g.sock.late \o Tokens(a, n)} :
                   \E len \in 0 .. Len(ts) :
                     st' = [st EXCEPT !.pools = g.pools, !.requests = n,
                                      !.place[c] = Arrived(g.sock, n, a, ts, len)]

(* The answer is read; the connection is kept or closed.                   *)
Answer(c) ==
  /\ st.place[c] # NULL
  /\ \E p \in {st.place[c]} : \E r \in {ReadAnswer(p.sock.in, st.keepalive[c])} :
       st' = [st EXCEPT !.place[c] = NULL,
                        !.last = [n |-> p.n, a |-> p.a, sound |-> p.sound, answer |-> r],
                        !.pools = IF r.keep THEN PutSocket(@, [p.sock EXCEPT !.in = r.rest]) ELSE @]

SetKeepAlive(c) == st.place[c] = NULL /\ st' = [st EXCEPT !.keepalive[c] = ~@]

(* What is late arrives at an idle connection, or its peer closes it.      *)
Idle(k, i) == st.pools[k] # NULL /\ i \in DOMAIN st.pools[k].avail
Arrive(k, i) ==
  /\ Idle(k, i) /\ st.pools[k].avail[i].late # <<>>
  /\ st' = [st EXCEPT !.pools[k].avail[i].in = @ \o st.pools[k].avail[i].late,
                      !.pools[k].avail[i].late = <<>>]
PeerCloses(k, i) == Idle(k, i) /\ st' = [st EXCEPT !.pools[k].avail[i].eof = TRUE]

(* The ping of a pool takes its connections one by one; it closes those    *)
(* that have been idle for long, or have something to read.                *)
PingTake(k) ==
  /\ st.ping = NULL /\ Idle(k, 1) /\ st.pools[k].permits > 0
  /\ st' = [st EXCEPT !.ping = Head(st.pools[k].avail), !.pools[k].avail = Tail(@), !.pools[k].permits = @ - 1]
PingGive(k) ==
  /\ st.ping # NULL /\ st.ping.key = k
  /\ \/ /\ st.ping.in = <<>> /\ ~st.ping.eof
        /\ st' = [st EXCEPT !.ping = NULL, !.pools = PutSocket(@, st.ping)]
     \/ st' = [st EXCEPT !.ping = NULL, !.pools[k].permits = @ + 1]

(* HttpClear destroys the pools, and a later HttpInit starts with none.    *)
HttpClear ==
  /\ \A c \in Client : st.place[c] = NULL
  /\ st.ping = NULL
  /\ st' = [st EXCEPT !.pools = [k \in Keys |-> NULL], !.last = NULL]

Next == \/ \E c \in Client : Request(c) \/ Answer(c) \/ SetKeepAlive(c)
        \/ \E k \in Keys : PingTake(k) \/ PingGive(k)
        \/ \E k \in Keys, i \in 1 .. MaxRequests : Arrive(k, i) \/ PeerCloses(k, i)
        \/ HttpClear
Spec == Init /\ [][Next]_vars

----------------------------------------------------------------------------
Pooled == {<<k, i>> \in {k \in Keys : st.pools[k] # NULL} \X (1 .. MaxRequests) : Idle(k, i)}
At(w) == st.pools[w[1]].avail[w[2]]
Places == [c \in Client |-> IF st.place[c] = NULL THEN {} ELSE {st.place[c].sock.id}]

(* Every connection has one owner; one that is kept has nothing left to    *)
(* read, unless an answer on it came in part, did not tell its length or   *)
(* had a trailer behind its chunks (the rest of a trailer is not read, and *)
(* the next request takes it for the head of its own answer); no permit is *)
(* missing for one that waits in a pool; and an answer that came whole and *)
(* told its length, on a connection with nothing left to read, is that of  *)
(* its request, with all its data, also when it has a trailer.             *)
HttpSound ==
  /\ \A k \in Keys : st.pools[k] # NULL => st.pools[k].permits >= MaxCnt + Len(st.pools[k].avail)
  /\ \A w \in Pooled :
       /\ At(w).sound => At(w).in = <<>> /\ At(w).late = <<>>
       /\ \A x \in Pooled : At(w).id = At(x).id => w = x
       /\ \A c \in Client : At(w).id \notin Places[c]
  /\ \A c, d \in Client : c # d => Places[c] \cap Places[d] = {}
  /\ st.last # NULL /\ st.last.sound =>
       LET r == st.last.answer
       IN  /\ r.status = st.last.a.status
           /\ st.last.a.length # -1 => r.ok /\ r.body = Data(st.last.a, st.last.n)
           /\ r.keep => st.last.a.v11 \/ st.last.a.connection = "keep-alive"

(* A request names its host once, its length once when it has a body, and  *)
(* what it accepts once, whatever the caller gave and in which case; a URL *)
(* is read as its scheme, host and port, when it has a port or no ":" in   *)
(* its path.                                                               *)
RequestsSound ==
  /\ \A hs \in HeaderLists, method \in {"GET", "PUT"}, body \in BOOLEAN :
       LET lines == RequestLines(method, RestHeaders(hs, body), body)
           times(name) == Cardinality({i \in DOMAIN lines : Lower(lines[i]) = name})
       IN  /\ times("host") = 1 /\ times("accept") = 1
           /\ "content-length" \notin Names(hs) =>
                times("content-length") = IF method = "PUT" /\ body THEN 1 ELSE 0
           /\ times("content-type") = IF body \/ "content-type" \in Names(hs) THEN 1 ELSE 0
  /\ \A scheme \in {"http", "https"}, port \in {<<>>, <<":", "8080">>, <<":", "65536">>}, path \in Paths :
       port # <<>> \/ ":" \notin ToSet(path) =>
         ParseUrl(<<scheme, ":", "/", "/", "host">> \o port \o path) =
           IF port = <<":", "65536">> THEN NULL
           ELSE [host |-> <<"host">>, https |-> scheme = "https",
                 port |-> IF port # <<>> THEN 8080 ELSE IF scheme = "https" THEN 443 ELSE 80]

(* An answer with a body is the whole body, as the length or the chunks of *)
(* the answer tell it.                                                     *)
AnswerWhole ==
  st.last # NULL /\ st.last.answer.ok /\ st.last.answer.body # <<>> /\ Delimited(st.last.a) =>
    \E n \in 1 .. st.requests : st.last.answer.body = Data(st.last.a, n)
=============================================================================
