----------------------------- MODULE MCLibrary ------------------------------
\* Model checking of the parts of the library that keep to themselves: one run
\* goes through each of them in turn, from an initial state per part.  The
\* containers have st, every other part has lib; while one of these runs, st is
\* an array that nobody uses.
EXTENDS Containers

VARIABLES part, lib
libvars == <<st, part, lib>>
-----------------------------------------------------------------------------
\* Arrays, lists and the map are the module extended, with st of their own.
ContKeyOf(x) == x \div 2
ContHash(k) == IF k = 1 THEN 0 ELSE 1 + 2 * k   \* 0 and 2 collide in 4 buckets
ContUpper(k) == IF k % 2 = 1 THEN k - 1 ELSE k
ContItems == 0 .. 2
ContKeys == 0 .. 2
ContMem == {Plenty, [Plenty EXCEPT !.b = FALSE], [Plenty EXCEPT !.k = FALSE],
            [Plenty EXCEPT !.lack = 0 .. MaxPuts]}
-----------------------------------------------------------------------------
\* Strings and byte buffers.
TextUpper(c) == IF c = "a" THEN "A" ELSE c
TextLower(c) == IF c = "A" THEN "a" ELSE c
TextHex(c) == CASE c = "0" -> 0 [] c = "f" -> 15 [] OTHER -> -1
TextWide(c) == CASE c = "a" -> <<"A">> [] c = "A" -> <<"a", "a">> [] OTHER -> <<c, c, c>>
TextPiece == {<<>>, <<"a">>, <<"A","a">>, <<" ">>}

T == INSTANCE Text WITH st <- lib,
  Char <- {"a", "A", " "}, Spaces <- {" "}, Digit <- {"0", "f", "g"}, UpperOf <- TextUpper,
  LowerOf <- TextLower, HexOf <- TextHex, Wide <- TextWide, Piece <- TextPiece, MaxText <- 3
-----------------------------------------------------------------------------
\* JSON.
JsonCode(a) == CASE a = "0000" -> 0 [] a = "0001" -> 1 [] a = "0041" -> 65 [] a = "d83d" -> 55357
    [] a = "de00" -> 56832 [] OTHER -> -1
JsonChar(n) == CASE n = 0 -> "nul" [] n = 1 -> "ctl" [] n = 65 -> "a" [] OTHER -> "wide"
JsonPoint(a) == a \in {".1", ".11"}
JsonNumber(a) == a \in {"1", ".1"}
JsonExponent(a) == a \in {"e+19", "e+20", "e+21"}
JsonPrinted(d) ==
  LET ones == Len(SelectSeq(d, LAMBDA a : a = "1"))
  IN  IF "e+20" \notin ToSet(d) \/ ones = 1 THEN d
      ELSE IF ones = 0 THEN <<"1", "e+19">> ELSE <<"1", ".11", "e+21">>
JsonKeys == {<<"a">>, <<"quote", "n">>}
JsonData == {<<>>, <<"a">>, <<"bslash", "lf">>, <<"ctl">>, <<" ", "wide">>}
JsonLong == <<"1">>
JsonDoubles == {<<"1", ".1">>, <<"1", "e+20">>, <<"1", ".1", "e+20">>, <<"inf">>}
JsonAtom == {"{", "}", "[", "]", ":", ",", "quote", "bslash", "u", "n", "a", "1", ".1", "true",
    "e+20", "inf", "d83d", "de00", "0000", " ", "/", "*", "lf"}
JsonSeed == { <<"{","quote","a","quote",":"," ","1",",","b",":","[","]","}">>,
  <<"[","quote","bslash","u","d83d","bslash","u","de00","quote",",","null"," ","]">>,
  <<"/","*","a","*","/","[","1",".1",",","/","/","a","lf","true","]">>,
  <<"[","[","[","{","}","]","]","]">>,
  <<"{","quote","bslash","u","0041","a","quote",":","{","a",":","quote","bslash","n","quote","}",
      "}">> }
JsonCP == {0, 65, 127, 128, 2047, 2048, 55295, 65535, 65536, 1114111}

J == INSTANCE JsonDoc WITH st <- lib,
  MaxDepth <- 4, CodeOf <- JsonCode, CharOf <- JsonChar, IsPoint <- JsonPoint,
  IsNumber <- JsonNumber, IsExponent <- JsonExponent, Printed <- JsonPrinted, Keys <- JsonKeys,
  Data <- JsonData, Long <- JsonLong, Doubles <- JsonDoubles, Atom <- JsonAtom, Seed <- JsonSeed, CodePoint <- JsonCP, MaxText <- 11
-----------------------------------------------------------------------------
\* XML.
XmlCode(a) == -1
XmlChar(n) == IF n = 60 THEN "<" ELSE "wide"
XmlPoint(a) == a = ".1"
XmlNumber(a) == a \in {"1", ".1"}
XmlExponent(a) == FALSE
XmlPrinted(d) == d
XmlRef(s) == CASE s = <<"60">> -> 60 [] s = <<"x", "110000">> -> 1114112 [] OTHER -> 0
XmlForward(s) == s \o <<"conv">>
XmlBuf == [header |-> 6, tag |-> 3, value |-> 7, encoding |-> 4]
XmlNames == {<<"a">>, <<"content">>}
XmlTexts == {<<"b">>, <<"<", "quot", " ", "&">>, <<" ">>}
XmlAtoms == {"<", ">", "/", "!", "?", "=", "quot", "apos", " ", "&", ";", "#", "60", "_amp", "a",
    "[CDATA[", "]]", "e", "ncoding"}
XmlHead == <<"<","?","xml"," ","v","ersion","=","quot","1.0","quot","?",">">>
XmlDocs == { XmlHead \o <<"<","!","a",">","<","a"," ","b","=","apos","&","_amp",";","quot","apos",
    " ","a",">","b","&","#","60",";","<","/","a",">">>,
  <<"<","?","xml"," ","e","ncoding","=","quot","E","UC","quot","?",">","<","a",">"," ","<","!",
      "[CDATA[","<","&","]]",">","<","b","/",">","b","<","/","a",">">>,
  XmlHead \o <<"<","a",">","<","a",">","<","a",">","b","<","/","a",">","<","/","a",">","<","/","a",
      ">">> }

X == INSTANCE XmlDoc WITH st <- lib,
  MaxDepth <- 4, CodeOf <- XmlCode, CharOf <- XmlChar, IsPoint <- XmlPoint, IsNumber <- XmlNumber,
  IsExponent <- XmlExponent, Printed <- XmlPrinted, MaxXmlDepth <- 4, MaxEntity <- 4, Buf <- XmlBuf, RefOf <- XmlRef, Forward <- XmlForward,
  Names <- XmlNames, Texts <- XmlTexts, Atoms <- XmlAtoms, Docs <- XmlDocs, MaxNodes <- 5
-----------------------------------------------------------------------------
\* File name patterns.
PatOrd(c) == CASE c = "." -> 46 [] c = "a" -> 97 [] c = "b" -> 98 [] c = "]" -> 93
PatToken == {[k |-> "lit", c |-> "a"], [k |-> "lit", c |-> "b"], [k |-> "quoted", c |-> "."],
    [k |-> "?"], [k |-> "*"], [k |-> "SUB"], [k |-> "!"],
  [k |-> "set", neg |-> FALSE, members |-> << <<"]", "]">>, <<"a", "b">> >>],
  [k |-> "set", neg |-> TRUE, members |-> << <<"a", "a">> >>] }

P == INSTANCE Pattern WITH st <- lib,
  Ord <- PatOrd, Chars <- {"a", "b", "."}, Token <- PatToken, MaxTokens <- 3, MaxName <- 3
-----------------------------------------------------------------------------
\* Config files.
ConfConfKey == {<<"a">>, <<"b", "\\", "=">>}
ConfConfValue == {<<>>, <<"a">>, <<"#">>, <<"a", "\\", "#", "a">>, <<"a", " ", "\\">>}
ConfLine == {<<>>, <<" ", "#", " ", "a", " ">>, <<"a", "=", "a", " ", "#", "a">>,
    <<" ", "a", "\\", " ">>, <<"=", "b", "b", "b", "b", "b", "b", "b", "b", "b", "b">> }

G == INSTANCE Config WITH st <- lib,
  ConfKey <- ConfConfKey, ConfValue <- ConfConfValue, Line <- ConfLine, Numeral <- {"1"},
  MaxLine <- 11, MaxKey <- 4, MaxValue <- 6, MaxItems <- 2
-----------------------------------------------------------------------------
\* Patterns of appenders.
LogPid == <<"4","2">>
LogUpper(c) == c
LogLower(c) == IF c = "I" THEN "i" ELSE c
LogHex(c) == -1
LogEnv(n) == IF n = <<"HOME">> THEN <<"h">> ELSE NULL
LogPiece == { <<" ">>, <<"%","%">>, <<"%","m">>, <<"%","-","3",".","1","m">>,
    <<"%","2",".","1","m">>, <<"%","0","3","L">>, <<"%","c","{","1","}">>,
    <<"%","c","{","1",".","}">>, <<"%","4","c">>,
  <<"%","p","{","TRACE","=","'","x","'",",","length","=","1","}">>,
      <<"%","2","p","{","length","=","1",",","TRACE","=","x",",","TRACE","=","y","}">>,
      <<"%","p","{","lowerCase","=","1",",","length","=","1","}">>,
  <<"%","d">>, <<"%","d","{","UNIX","}">>, <<"%","d","{","BAD","}">>, <<"%","F">>, <<"%","ex">>,
      <<"%","ex","{","2","}">>, <<"%","e","{","HOME","}">>, <<"%","-","3","P">>, <<"%","t">>,
      <<"%","n">>, <<"%","z">> }
LogEvent == { [level |-> <<"TRACE">>, line |-> <<"7">>, path |-> << <<"a","b">>, <<"c">> >>,
    fname |-> <<"/","a","/","x",".","c">>, msg |-> <<"m","s">>, stack |-> << <<"f">> >>,
    millis |-> <<"0","0","1">>, thread |-> <<"w">>],
  [level |-> <<"I","N">>, line |-> <<"1","2">>, path |-> << <<"a">> >>, fname |-> <<"y">>,
      msg |-> <<>>, stack |-> <<>>, millis |-> <<"0","0","1">>, thread |-> <<"w","1">>] }

W == INSTANCE LogPattern WITH st <- lib,
  Spaces <- {" "}, UpperOf <- LogUpper, LowerOf <- LogLower, HexOf <- LogHex, EnvOf <- LogEnv,
  ProcessId <- LogPid, Piece <- LogPiece, LogEvent <- LogEvent, MaxPieces <- 3
-----------------------------------------------------------------------------
\* The log system, and its replacement while threads log.
SysLower(k) == CASE k = "Name" -> "name" [] k = "asyncBufferSize" -> "asyncbuffersize"
    [] k = "useStderr" -> "usestderr" [] OTHER -> k
SysNames == { <<>>, <<"a">>, <<"a","b">>, <<"a",".","b">> }
SysItem(keys, vals) == [k \in ToSet(keys) |-> vals[CHOOSE i \in DOMAIN keys : keys[i] = k]]
SysAppenderItem == { [type |-> "console", Name |-> "A", useStderr |-> TRUE],
    [type |-> "file", name |-> "A", filename |-> "f"], [type |-> "socket", name |-> "B"],
    [type |-> "rollingfile", name |-> "B", filename |-> "f", asyncBufferSize |-> 10],
    [type |-> "console", name |-> "B", asyncBufferSize |-> 9], [name |-> "B"] }
SysLoggerItem == { [type |-> "root", level |-> 2],
    [name |-> <<"a">>, level |-> 1, appenderref |-> << [ref |-> "A", level |-> 2],
    [ref |-> "B", level |-> NULL] >>, additivity |-> FALSE], [level |-> 1],
    [name |-> <<"a",".","b">>, level |-> 2, appenderref |-> << [ref |-> "A", level |-> NULL] >>] }

S == INSTANCE LogSystem WITH st <- lib,
  Names <- SysNames, Appenders <- {"A"}, MaxLevel <- 2, LowerKey <- SysLower,
  AppenderItem <- SysAppenderItem, LoggerItem <- SysLoggerItem, MaxConfs <- 2, MaxLoggers <- 1
N == INSTANCE LogGlobal WITH st <- lib,
  Thread <- {"t1", "t2"}, Address <- {"a1", "a2", "a3"}, MaxSystems <- 3
-----------------------------------------------------------------------------
\* The recycling allocator.
M == INSTANCE MemDebug WITH st <- lib,
  MaxSize <- 3, MEM_BLOCK_SZ <- 2, MaxBlocks <- 9, MaxInits <- 2
-----------------------------------------------------------------------------
\* Processes.
ProcTypes == {<<"p", {"r"}>>, <<"p", {"e"}>>, <<"q", {"w"}>>}
ProcSet(keys, values) == {<<[key |-> j, value |-> u], [key |-> k, value |-> v]>> : j, k \in keys, u,
    v \in values}
ProcEnvirons  == {<<>>} \cup {s \in ProcSet({"PATH", "HOME"}, {"1"}) : s[1].key # s[2].key}
ProcOverrides == {<<>>} \cup {s \in ProcSet({"PATH", "LANG"}, {"2", NULL}) : s[1].key # s[2].key}

Q == INSTANCE Process WITH st <- lib,
  Proc <- {"p", "q"}, Types <- ProcTypes, Environs <- ProcEnvirons, Overrides <- ProcOverrides,
  LineEnd <- {1}, MaxOut <- 2, MaxStarts <- 2
-----------------------------------------------------------------------------
\* The HTTP client.
HttpA(v,c,l,ch,tr,m) == [v11 |-> v, status |-> 200, connection |-> c, length |-> l, chunks |-> ch,
    trailer |-> tr, more |-> m]
HttpAnswers == {HttpA(TRUE,NULL,0,NULL,FALSE,0), HttpA(TRUE,"close",1,NULL,FALSE,0),
    HttpA(FALSE,"keep-alive",2,NULL,FALSE,0), HttpA(FALSE,NULL,1,NULL,FALSE,0),
  HttpA(TRUE,NULL,NULL,<<1,1>>,FALSE,0), HttpA(TRUE,NULL,NULL,<<>>,TRUE,0),
      HttpA(TRUE,NULL,NULL,NULL,FALSE,1)}
HttpKeyOf(c) == "h"
HttpHttps(c) == FALSE
HttpHeaderLists == {<<>>, <<"HOST">>, <<"Content-Length","accept">>, <<"Content-Type", "Host">>}
HttpNumber(x) == CASE x="8080" -> 8080 [] x = "65536" -> 65536 [] OTHER -> 0
HttpPaths == {<<>>, <<"/">>, <<"/","a",":","b">>}
HttpLower(h) == CASE h="HOST" -> "host" [] h = "Host" -> "host" [] h= "Accept" -> "accept"
    [] h = "Content-Length" -> "content-length" [] h = "Connection" -> "connection"
    [] h = "Content-Type" -> "content-type" [] OTHER -> h

H == INSTANCE Http WITH st <- lib,
  Client <- {"c1", "c2"}, KeyOf <- HttpKeyOf, IsHttps <- HttpHttps, HeaderLists <- HttpHeaderLists,
  Number <- HttpNumber, Paths <- HttpPaths, Lower <- HttpLower, Answers <- HttpAnswers,
  MaxRequests <- 2
-----------------------------------------------------------------------------
\* The registry of threads and the order of timer tasks.
D == INSTANCE Threads WITH st <- lib,
  ThreadObj <- {"t1", "t2", "t3"}, SysId <- {"s1", "s2"}, MaxIndex <- 3
O == INSTANCE TimerOrder WITH st <- lib,
  Millis <- 2, Micros <- 2, HalfInt <- 8, Task <- {1, 2}, Delay <- 1 .. 3, Period <- {0, 1},
  MaxNow <- 5
-----------------------------------------------------------------------------
\* Sockets: the bytes of one, the descriptors of all, and datagrams.
E == INSTANCE Stream WITH st <- lib,
  Wants <- {1, 3}, Sizes <- {1, 3}, RbufLen <- 2, RecordLen <- 2, WireRoom <- 2, MaxByte <- 4
U == INSTANCE Sockets WITH st <- lib,
  Thread <- {"t1", "t2"}, Obj <- {"o1", "o2"}, MaxFd <- 2, MaxAddrs <- 2
V == INSTANCE Datagram WITH st <- lib,
  Sock <- {"a", "b"}, Other <- "unix", Sizes <- {1, 3}, Capacity <- {2}, MaxQueue <- 1, MaxSent <- 1
-----------------------------------------------------------------------------
Unused ==
  [kind |-> "array", arr |-> ArrayCreateInternal(0, FALSE, FALSE), freed |-> {}, iter |-> NULL]

LibraryInit ==
  \/ part = "containers" /\ Init /\ lib = NULL
  \/ /\ st = Unused
     /\ \/ part = "text" /\ T!Init
        \/ part = "json" /\ J!Init
        \/ part = "xml" /\ X!Init
        \/ part = "pattern" /\ P!Init
        \/ part = "config" /\ G!Init
        \/ part = "logpattern" /\ W!Init
        \/ part = "logsystem" /\ S!Init
        \/ part = "logglobal" /\ N!Init
        \/ part = "memory" /\ M!Init
        \/ part = "process" /\ Q!Init
        \/ part = "http" /\ H!Init
        \/ part = "threads" /\ D!Init
        \/ part = "timerorder" /\ O!Init
        \/ part = "stream" /\ E!Init
        \/ part = "sockets" /\ U!Init
        \/ part = "datagram" /\ V!Init

ContainersStep == part = "containers" /\ Next /\ UNCHANGED <<part, lib>>
TextStep       == part = "text" /\ T!Next /\ UNCHANGED <<st, part>>
JsonStep       == part = "json" /\ J!Next /\ UNCHANGED <<st, part>>
XmlStep        == part = "xml" /\ X!Next /\ UNCHANGED <<st, part>>
PatternStep    == part = "pattern" /\ P!Next /\ UNCHANGED <<st, part>>
ConfigStep     == part = "config" /\ G!Next /\ UNCHANGED <<st, part>>
LogPatternStep == part = "logpattern" /\ W!Next /\ UNCHANGED <<st, part>>
LogSystemStep  == part = "logsystem" /\ S!Next /\ UNCHANGED <<st, part>>
LogGlobalStep  == part = "logglobal" /\ N!Next /\ UNCHANGED <<st, part>>
MemoryStep     == part = "memory" /\ M!Next /\ UNCHANGED <<st, part>>
ProcessStep    == part = "process" /\ Q!Next /\ UNCHANGED <<st, part>>
HttpStep       == part = "http" /\ H!Next /\ UNCHANGED <<st, part>>
ThreadsStep    == part = "threads" /\ D!Next /\ UNCHANGED <<st, part>>
TimerOrderStep == part = "timerorder" /\ O!Next /\ UNCHANGED <<st, part>>
StreamStep     == part = "stream" /\ E!Next /\ UNCHANGED <<st, part>>
SocketsStep    == part = "sockets" /\ U!Next /\ UNCHANGED <<st, part>>
DatagramStep   == part = "datagram" /\ V!Next /\ UNCHANGED <<st, part>>

LibraryNext ==
  \/ ContainersStep \/ TextStep \/ JsonStep \/ XmlStep \/ PatternStep
  \/ ConfigStep \/ LogPatternStep \/ LogSystemStep \/ LogGlobalStep
  \/ MemoryStep \/ ProcessStep \/ HttpStep \/ ThreadsStep \/ TimerOrderStep
  \/ StreamStep \/ SocketsStep \/ DatagramStep

LibrarySpec == LibraryInit /\ [][LibraryNext]_libvars
-----------------------------------------------------------------------------
(* A string keeps room for its terminating zero and a buffer never ends    *)
(* past its allocation, however calls before it failed; trimming,          *)
(* splitting, joining, replacing and tokens obey their laws for every      *)
(* content that the calls of strings.c can produce.  What a string that is *)
(* appended to itself holds is not among the laws: when it has to grow, the*)
(* characters are read from the freed block.                               *)
TextSound == part = "text" => T!TextSound

(* A JSON or XML tree reads back from its own text exactly when it is no   *)
(* deeper than the parser's limit and holds no infinite number (no value   *)
(* being unset), and so does whatever a damaged text is read as: as itself,*)
(* but that a JSON double printed without a point comes back as a long,    *)
(* that of the digits before its exponent (nanojson.c, nanoxml.c).         *)
DocumentsSound ==
  /\ part = "json" => J!JsonSound
  /\ part = "xml" => X!XmlSound

(* The backtracking matchers of pattern.c accept exactly the names that    *)
(* the tokens of a pattern describe, and never read on behind a pattern    *)
(* that was cut short; what is not valid matches nothing.  Upper and lower *)
(* case differ: the build for DOS, which folds them, is not modelled.       *)
PatternSound == part = "pattern" => P!PatternSound

(* The items of a configuration and its map agree, one item for a key,     *)
(* whatever was loaded, edited and loaded again; and what a file can hold  *)
(* comes back from it with its values, comments and order (config.c).      *)
ConfigSound == part = "config" => G!ConfigSound

(* A log line is what each conversion of the pattern writes, one after the *)
(* other; a message reaches the appenders that the closest configured      *)
(* logger, levels and additivity say, and a configuration is taken as a    *)
(* whole or replaced by the default; the installed log system is never one *)
(* that was destroyed, whoever replaces it, and no other is leaked         *)
(* (logger.c).                                                             *)
LogsSound ==
  /\ part = "logpattern" => W!LogPatternSound
  /\ part = "logsystem" => S!LogSystemSound
  /\ part = "logglobal" => N!GlobalIsLive

(* Every block of the recycling allocator is in use, free or given up as   *)
(* damaged, with counts to match, and never two clients' at once; the last *)
(* CMUTIL_Clear reports a leak exactly when there is one (memdebug.c,      *)
(* base.c).                                                                *)
MemorySound == part = "memory" => M!MemorySound

(* A pipe end is open exactly as long as a process needs it, at whichever  *)
(* step Start fails, up to a reader that is missing after the fork; a child*)
(* is not signalled after it was reaped; what the program asked for is not *)
(* taken by the reader thread; and what comes of piped text comes in order *)
(* (process.c).  A child gets the environment that BuildEnviron is to make *)
(* of its arguments.                                                       *)
ProcessesSound == part = "process" => Q!ProcessSound /\ Q!EnvironSound

(* A connection has one owner - a client, the ping or a pool - and one that*)
(* is kept has nothing left to read, so the next answer on it is that of   *)
(* the next request, unless an earlier answer came in part, did not tell   *)
(* its length or had a trailer behind its chunks; no permit goes missing   *)
(* (http.c with pool.c).  A request has the headers it needs once, and a   *)
(* URL is read as its parts.                                               *)
HttpSound == part = "http" => H!HttpSound /\ H!RequestsSound

(* A running thread finds itself in the registry, whose entries never      *)
(* outlive their threads although system ids come back; and the array of   *)
(* timer tasks stays in the order of their times, so that one pass of the  *)
(* main loop takes exactly the elapsed ones (concurrent.c).                *)
ThreadsSound ==
  /\ part = "threads" => D!ThreadsSound
  /\ part = "timerorder" => O!OrderSound

(* Whatever times out, is interrupted or tried again, no byte is lost,     *)
(* doubled or out of order between the ends of a socket, but where OpenSSL *)
(* takes a new TLS message for the one it is stuck with, by the address of *)
(* its buffer; a TLS message that timed out has left whole records, so that*)
(* a short one arrives whole or not at all; a descriptor is open exactly   *)
(* while one socket or call holds it; and a datagram is received whole with*)
(* its sender's address, or cut to the buffer (network.c, datagram.c).     *)
NetworkSound ==
  /\ part = "stream" => E!StreamSound
  /\ part = "sockets" => U!SocketsSound
  /\ part = "datagram" => V!DatagramSound
=============================================================================
