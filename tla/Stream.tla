------------------------------- MODULE Stream -------------------------------
(***************************************************************************)
(* The byte stream of a CMUTIL_Socket, one direction of it (network.c):    *)
(* Read, ReadByte, Write and WriteByte of a plain socket and of a TLS      *)
(* socket over OpenSSL.  Each call is a loop of a poll with the caller's   *)
(* timeout and a non-blocking transfer; the loop's turns interleave with   *)
(* the peer's.                                                             *)
(*                                                                         *)
(* Bytes are numbered in the order the writer hands them over.  The wire   *)
(* carries packets: single bytes of a plain socket, records of a TLS one,  *)
(* where an empty record is something that makes the descriptor readable   *)
(* and yields no byte: a session ticket, or the first part of a record.    *)
(* OpenSSL keeps the rest of a record it has decrypted in `pending'.  It   *)
(* cuts a message into records of RecordLen bytes (16 KB) and goes on with *)
(* the one it could not send when it is called again; that it is the same  *)
(* call it knows by the address of the buffer and a length that covers the *)
(* record, not by the bytes (the code sets no SSL_MODE).  `ssl' is that    *)
(* session: the message `out' in hand, of which `done' bytes have left in  *)
(* records, and the bytes `swapped' of later messages that found their     *)
(* buffer at the same address: the record of the message before left in    *)
(* their place.  A write of no bytes returns at once and is left out, and  *)
(* so is what OpenSSL does on its own (renegotiation, key updates).        *)
(***************************************************************************)
EXTENDS Integers, Sequences, SequencesExt

CONSTANTS NULL,
          Wants,       \* sizes of reads
          Sizes,       \* sizes of messages
          RbufLen,     \* CMUTIL_RBUF_LEN: bytes taken by one recv
          RecordLen,   \* bytes of a record, at most
          WireRoom,    \* packets the wire holds
          MaxByte      \* bound on the bytes handed over

VARIABLE st
vars == <<st>>

Init ==
  \E tls \in BOOLEAN, first \in {<<>>, << <<>> >>} :
    /\ ~tls => first = <<>>
    /\ st = [tls |-> tls, wire |-> first, pending |-> <<>>, next |-> 1,
             ssl |-> [out |-> <<>>, done |-> 0, swapped |-> {}],
             acked |-> {}, got |-> <<>>, down |-> FALSE, gone |-> FALSE,
             w |-> NULL, r |-> NULL, last |-> NULL]

Upto(s, n)   == SubSeq(s, 1, IF n < Len(s) THEN n ELSE Len(s))
From(s, n)   == SubSeq(s, n + 1, Len(s))
Writing(pc)  == st.w # NULL /\ st.w.pc = pc
Reading(pc)  == st.r # NULL /\ st.r.pc = pc
WriteAt(pc)  == st' = [st EXCEPT !.w.pc = pc]
ReadAt(pc)   == st' = [st EXCEPT !.r.pc = pc]
(* The results a call may return, and those of a poll: it may be           *)
(* interrupted.                                                            *)
WriteEnds(s, res) == [s EXCEPT !.w = NULL, !.acked = IF res = "Ok" THEN @ \cup Range(s.w.all) ELSE @]
ReadEnds(s, res)  ==
  [s EXCEPT !.r = NULL,
            !.last = [res |-> res, byte |-> s.r.byte, want |-> s.r.size, heard |-> Len(s.got) - s.r.had,
                      unheard |-> Len(s.pending)]]

CheckBase(ready)     == {IF ready THEN "Ok" ELSE "Timeout", "PollFailed"}
CheckReadBuffer      == CheckBase(st.wire # <<>> \/ st.down)
CheckWriteBuffer     == CheckBase(Len(st.wire) < WireRoom \/ st.gone)
SSLCheckReadBuffer   == IF st.pending # <<>> THEN {"Ok"} ELSE CheckReadBuffer
SSLCheckWriteBuffer  == CheckWriteBuffer

-----------------------------------------------------------------------------
(* A message is new, or the one a TLS socket is stuck with, tried again;   *)
(* its buffer may be where that of the message stuck was: the client's, or *)
(* the argument of WriteByte, a variable of the call.  Over TLS a timeout  *)
(* of less than a tenth of a second is over before it begins, except for   *)
(* single bytes.                                                           *)
Write(byte, tooShort) ==
  /\ st.w = NULL /\ ~st.down
  /\ \E same \in BOOLEAN :
       LET Begun(all) == [pc |-> "check", all |-> all, left |-> all, byte |-> byte, same |-> same]
       IN  /\ st.ssl.out = <<>> => same
           /\ \/ \E n \in Sizes :
                   LET all == [i \in 1..n |-> st.next + i - 1]
                   IN  /\ byte => n = 1
                       /\ st.next + n - 1 <= MaxByte
                       /\ st' = [st EXCEPT !.next = @ + n,
                                           !.w = IF st.tls /\ tooShort /\ ~byte THEN NULL
                                                                               ELSE Begun(all)]
              \/ /\ st.ssl.out # <<>> /\ (byte => Len(st.ssl.out) = 1)
                 /\ tooShort => byte
                 /\ st' = [st EXCEPT !.w = Begun(st.ssl.out)]

WriteChecks ==
  /\ Writing("check")
  /\ \E sr \in IF st.tls THEN SSLCheckWriteBuffer ELSE CheckWriteBuffer :
       IF sr = "Ok" THEN WriteAt("send") ELSE st' = WriteEnds(st, sr)

Singly(s) == [i \in DOMAIN s |-> <<s[i]>>]
(* The peer may be gone, the kernel may take a part, or nothing after all. *)
SocketWritePart ==
  /\ Writing("send") /\ ~st.tls
  /\ \/ st.gone /\ st' = WriteEnds(st, "SendFailed")
     \/ WriteAt("check")
     \/ \E rc \in 1..Len(st.w.left) :
          LET sent == [st EXCEPT !.wire = @ \o Singly(Upto(st.w.left, rc)), !.w.left = From(@, rc)]
          IN  /\ ~st.gone /\ Len(st.wire) + rc <= WireRoom
              /\ st' = IF sent.w.left = <<>> THEN WriteEnds(sent, "Ok")
                                             ELSE [sent EXCEPT !.w.pc = "check"]

(* SSL_write, called with the whole message, sends the record in hand or   *)
(* the next one, `done' bytes having left: then it goes on to the next, or *)
(* has sent all, or wants to be called again.  It refuses what it does not *)
(* take for the message it is stuck with.                                  *)
Turn(done) ==
  LET w      == st.w
      out    == st.ssl.out
      record == Upto(IF out = <<>> THEN w.all ELSE From(out, done), RecordLen)
      gone   == done + Len(record)
      resent == out = <<>> \/ (w.same /\ gone <= Len(w.all))
      After(o, n) == [out |-> o, done |-> n,
                      swapped |-> st.ssl.swapped \cup
                        (IF out \in {<<>>, w.all} THEN {} ELSE Range(Upto(w.all, gone)))]
      Sent(ssl)   == [st EXCEPT !.wire = Append(@, record), !.ssl = ssl]
  IN  /\ Writing("send") /\ st.tls
      /\ \/ /\ ~resent \/ st.gone
            /\ st' = WriteEnds(st, "SendFailed")
         \/ /\ resent /\ ~st.gone /\ Len(st.wire) < WireRoom
            /\ st' = IF gone < Len(w.all) THEN Sent(After(w.all, gone))
                                          ELSE WriteEnds(Sent(After(<<>>, 0)), "Ok")
         \/ \E part \in {<<>>, << <<>> >>} :
              /\ resent /\ ~st.gone /\ Len(st.wire) + Len(part) <= WireRoom
              /\ st' = [st EXCEPT !.wire = @ \o part, !.w.pc = "wants",
                                  !.ssl.out = IF out = <<>> THEN w.all ELSE out]

\* A wrong variant of SSLSocketWritePart: what has left in records is sent again.
WritePartAnew == Turn(0)

SSLSocketWritePart == Turn(st.ssl.done)
(* What WritePart makes a failed send, WriteByte returns as it is.         *)
SSLWriteWants ==
  /\ Writing("wants")
  /\ \E sr \in CheckWriteBuffer :
       IF sr = "Ok" THEN WriteAt("check")
       ELSE st' = WriteEnds(st, IF st.w.byte THEN sr ELSE "SendFailed")

-----------------------------------------------------------------------------
Read(byte, tooShort) ==
  /\ st.r = NULL /\ ~st.gone
  /\ \E size \in Wants :
       LET begun == [st EXCEPT !.r = [pc |-> "check", size |-> size, left |-> size,
                                      had |-> Len(st.got), byte |-> byte]]
       IN  /\ byte => size = 1
           /\ st' = IF st.tls /\ tooShort /\ ~byte THEN ReadEnds(begun, "Timeout") ELSE begun

(* ReadByte of a TLS socket polls the descriptor alone.                    *)
ReadChecks ==
  /\ Reading("check")
  /\ \E sr \in IF st.tls /\ ~st.r.byte THEN SSLCheckReadBuffer ELSE CheckReadBuffer :
       IF sr = "Ok" THEN ReadAt("recv") ELSE st' = ReadEnds(st, sr)

Heard(s, bytes) ==
  LET more == [s EXCEPT !.got = @ \o bytes, !.r.left = @ - Len(bytes), !.r.pc = "check"]
  IN  IF more.r.left = 0 THEN ReadEnds(more, "Ok") ELSE more

(* There may be nothing after all: only ReadByte then polls again.         *)
SocketRead ==
  /\ Reading("recv") /\ ~st.tls
  /\ \/ IF st.r.byte THEN ReadAt("check") ELSE st' = ReadEnds(st, "ReceiveFailed")
     \/ /\ st.wire = <<>> /\ st.down
        /\ st' = ReadEnds(st, "ReceiveFailed")
     \/ \E rc \in 1..Len(st.wire) :
          /\ rc <= RbufLen /\ rc <= st.r.left
          /\ st' = Heard([st EXCEPT !.wire = From(@, rc)], FlattenSeq(Upto(st.wire, rc)))

(* SSL_read gives what is left of the last record, or of the next one.     *)
SSLSocketRead ==
  /\ Reading("recv") /\ st.tls
  /\ LET n == IF st.r.left < RbufLen THEN st.r.left ELSE RbufLen
     IN  \/ /\ st.pending # <<>>
            /\ st' = Heard([st EXCEPT !.pending = From(@, n)], Upto(st.pending, n))
         \/ /\ st.pending = <<>> /\ st.wire # <<>>
            /\ LET rest == [st EXCEPT !.wire = Tail(@), !.pending = From(Head(st.wire), n)]
               IN  st' = IF Head(st.wire) = <<>> THEN [rest EXCEPT !.r.pc = "wants"]
                                                 ELSE Heard(rest, Upto(Head(st.wire), n))
         \/ /\ st.pending = <<>> /\ st.wire = <<>>
            /\ IF st.down THEN st' = ReadEnds(st, "ReceiveFailed") ELSE ReadAt("wants")
SSLReadWants ==
  /\ Reading("wants")
  /\ \E sr \in CheckReadBuffer :
       IF sr = "Ok" THEN ReadAt("check") ELSE st' = ReadEnds(st, "ReceiveFailed")

CloseWriter == st.w = NULL /\ ~st.down /\ st' = [st EXCEPT !.down = TRUE]
CloseReader == st.r = NULL /\ ~st.gone /\ st' = [st EXCEPT !.gone = TRUE]

Idle == st.w = NULL /\ st.r = NULL /\ UNCHANGED st

Next ==
  \/ \E byte, tooShort \in BOOLEAN : Write(byte, tooShort) \/ Read(byte, tooShort)
  \/ WriteChecks \/ SocketWritePart \/ SSLSocketWritePart \/ SSLWriteWants
  \/ ReadChecks \/ SocketRead \/ SSLSocketRead \/ SSLReadWants
  \/ CloseWriter \/ CloseReader \/ Idle

Spec == Init /\ [][Next]_vars

-----------------------------------------------------------------------------
Carried == st.got \o st.pending \o FlattenSeq(st.wire)

(* Whatever times out, is interrupted or tried again: no byte is lost,     *)
(* doubled or out of order between the two ends; a write that returned Ok  *)
(* left all of its bytes with the peer's system, unless they are swapped:  *)
(* its buffer was where that of a message given up was, and OpenSSL sent   *)
(* the bytes it had encrypted of that one; and a read returned Ok exactly  *)
(* when it heard all it was asked for.  Where nothing is swapped, a TLS    *)
(* socket has sent the messages it acknowledged and, of one that timed     *)
(* out, whole records: a message of one record arrives whole or not at     *)
(* all, a longer one may have been cut.                                    *)
StreamSound ==
  /\ \A i, j \in DOMAIN Carried : i < j => Carried[i] < Carried[j]
  /\ st.acked \ st.ssl.swapped \subseteq Range(Carried)
  /\ st.last # NULL => (st.last.res = "Ok" <=> st.last.heard = st.last.want)
  /\ st.tls /\ st.ssl.swapped = {} =>
       Range(Carried) = st.acked \cup Range(Upto(st.ssl.out, st.ssl.done))

(* "This function reads a single byte from the specified socket"           *)
(* (libcmutils.h): it gives up only when no byte has been received.        *)
ReadByteHears ==
  st.last # NULL /\ st.last.byte /\ st.last.res = "Timeout" => st.last.unheard = 0
=============================================================================
