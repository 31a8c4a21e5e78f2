------------------------------ MODULE CanServer ------------------------------
(***************************************************************************)
(* CanBusOverTcpServer (src/portbridge/can_server.py): one CAN bus, one    *)
(* TCP client at a time, CAN frames of FrameSize bytes each over TCP.      *)
(*                                                                         *)
(* The file has its own copy of the serial server's sessions, start() and  *)
(* stop(): they are the actions of SerialServer here, whose variable       *)
(* `serial` is this file's self._bus.  What differs is _tcp_to_can(): it   *)
(* cuts what the client sends, however TCP splits it, into frames, drops   *)
(* the ones _decode_frame() refuses and has an executor thread send the    *)
(* others one at a time.                                                   *)
(*                                                                         *)
(* Abstracted: a byte is known by its client and its place in what that    *)
(* client has sent; what a client sends is chosen when it is read; the     *)
(* contents of frames are in module CanCodec.                              *)
(***************************************************************************)
EXTENDS SerialServer, Integers, SequencesExt

CONSTANTS FrameSize,  \* CAN_FRAME_SIZE
          Refused,    \* the places whose byte, at the head of a frame, has CAN_ERR_FLAG
          MaxBytes    \* bound: [Clients -> how many bytes it sends]

ASSUME FrameSizeAssumption == FrameSize \in Nat \ {0}
ASSUME BoundsAssumption == MaxBytes \in [Clients -> Nat] /\ Refused \subseteq Nat

VARIABLES
  got,    \* [Clients -> how many bytes it has sent, as far as they have been read]
  buf,    \* [Clients -> `buf` of its _tcp_to_can]
  msg,    \* [Clients -> the frame its _tcp_to_can last gave to bus.send]
  onBus   \* the frames bus.send has sent

stream  == <<got, buf, msg, onBus>>
canVars == <<vars, stream>>

Bytes == Clients \X Nat

CanTypeOK ==
  /\ TypeOK
  /\ got \in [Clients -> Nat]
  /\ buf \in [Clients -> Seq(Bytes)]
  /\ msg \in [Clients -> Seq(Bytes)]
  /\ onBus \in Seq(Seq(Bytes))

CanInit ==
  /\ Init
  /\ got = [c \in Clients |-> 0]
  /\ buf = [c \in Clients |-> <<>>]
  /\ msg = [c \in Clients |-> <<>>]
  /\ onBus = <<>>

----------------------------------------------------------------------------
(* start(), stop(), _handle_client() and _can_to_tcp()                     *)

\* Mutant: a second client is served as well.
HandleAnyClient(c) == (Handler(c) \/ ServeSecondClient(c)) /\ UNCHANGED stream

CanStart        == Start /\ UNCHANGED stream
CanStop         == Stopping /\ UNCHANGED stream
CanToTcp(c)     == SerialToTcp(c) /\ UNCHANGED stream
HandleClient(c) == Handler(c) /\ UNCHANGED stream

\* The clients, the transports, the adapter, and a bus.recv that has outlived its session.
Outside(c) == /\ Peer(c) \/ TransportFlushed(c) \/ Unplug \/ StrayReadEnds(c)
              /\ UNCHANGED stream

----------------------------------------------------------------------------
(* _tcp_to_can()                                                           *)

FrameAt(b, j) == SubSeq(b, (j - 1) * FrameSize + 1, j * FrameSize)
Complete(b)   == 1 .. Len(b) \div FrameSize
After(b, j)   == SubSeq(b, j * FrameSize + 1, Len(b))

\* _decode_frame() returns a message.
Decodes(f) == f[1][2] \notin Refused

\* Mutant: a frame that is refused ends the inner loop.
CutFramesUpToRefused(c, b) ==
  LET good == {j \in Complete(b) : j = 1 /\ Decodes(FrameAt(b, j))}
  IN  IF good = {}
      THEN /\ buf' = [buf EXCEPT ![c] = After(b, IF Complete(b) = {} THEN 0 ELSE 1)]
           /\ ReadClient(c)
           /\ UNCHANGED msg
      ELSE /\ buf' = [buf EXCEPT ![c] = After(b, 1)]
           /\ msg' = [msg EXCEPT ![c] = FrameAt(b, 1)]
           /\ tx' = [tx EXCEPT ![c] = "write"]
           /\ UNCHANGED source

\* The inner loop, from buf = b up to its next await: the first frame that decodes
\* goes to bus.send; without one, self._reader is read again.
CutFrames(c, b) ==
  LET good == {j \in Complete(b) : Decodes(FrameAt(b, j))}
      j    == CHOOSE i \in good : \A k \in good : i <= k
  IN  IF good = {}
      THEN /\ buf' = [buf EXCEPT ![c] = After(b, Len(b) \div FrameSize)]
           /\ ReadClient(c)
           /\ UNCHANGED msg
      ELSE /\ buf' = [buf EXCEPT ![c] = After(b, j)]
           /\ IF serial
              THEN /\ msg' = [msg EXCEPT ![c] = FrameAt(b, j)]
                   /\ tx' = [tx EXCEPT ![c] = "write"]
                   /\ UNCHANGED source
              ELSE TxEnds(c) /\ UNCHANGED msg

\* Mutant: what was left of the last read is forgotten.
ReadsFresh(c) ==
  LET s == source[c]
  IN  /\ tx[c] = "read"
      /\ conn[s] \in {"open", "closing"}
      /\ \E n \in 1 .. MaxBytes[s] - got[s] :
           /\ got' = [got EXCEPT ![s] = @ + n]
           /\ CutFrames(c, [i \in 1 .. n |-> <<s, got[s] + i>>])
      /\ UNCHANGED <<owner, network, handler, rx, sink, orphans, strays, unplugged, onBus>>

\* read() returns what the client has sent by now, or the first part of it.
Reads(c) ==
  LET s == source[c]
  IN  /\ tx[c] = "read"
      /\ conn[s] \in {"open", "closing"}
      /\ \E n \in 1 .. MaxBytes[s] - got[s] :
           /\ got' = [got EXCEPT ![s] = @ + n]
           /\ CutFrames(c, buf[c] \o [i \in 1 .. n |-> <<s, got[s] + i>>])
      /\ UNCHANGED <<owner, network, handler, rx, sink, orphans, strays, unplugged, onBus>>

\* bus.send has returned and the task goes on.
Continues(c) ==
  /\ tx[c] = "wrote"
  /\ CutFrames(c, buf[c])
  /\ UNCHANGED <<owner, network, handler, rx, sink, orphans, strays, unplugged, got, onBus>>

Sends(c) ==
  /\ TxWrites(c)
  /\ onBus' = Append(onBus, msg[c])
  /\ UNCHANGED <<got, buf, msg>>

\* The first read; the end of the stream, which drops an incomplete frame; bus.send
\* raising.
OtherTcpToCan(c) == (TxStarts(c) \/ TxReadsEof(c) \/ TxWriteFails(c)) /\ UNCHANGED stream

\* The thread of a cancelled session gets its frame onto the bus, if there still is one.
\* A call that was only queued for a thread is cancelled with its session.
OrphanSendEnds(c) ==
  /\ OrphanWriteEnds(c)
  /\ \/ onBus' = onBus
     \/ serial /\ ~unplugged /\ onBus' = Append(onBus, msg[c])
  /\ UNCHANGED <<got, buf, msg>>

TcpToCan(c) == Reads(c) \/ Sends(c) \/ Continues(c) \/ OtherTcpToCan(c)

CanNext == \/ CanStart \/ CanStop
           \/ \E c \in Clients : \/ Outside(c) \/ OrphanSendEnds(c)
                                \/ HandleClient(c) \/ CanToTcp(c) \/ TcpToCan(c)

CanSpec == CanInit /\ [][CanNext]_canVars

----------------------------------------------------------------------------
(* What must hold                                                          *)

\* The k-th frame of what c sends.
FrameOf(c, k) == [i \in 1 .. FrameSize |-> <<c, (k - 1) * FrameSize + i>>]

\* The frames among the first n of c that are to be sent.
ToSend(c, n) == {k \in 1 .. n : Decodes(FrameOf(c, k))}

\* The k-th frame of c has been sent, as one of the first n on the bus.
Sent(c, k, n) == \E i \in 1 .. n : onBus[i] = FrameOf(c, k)

\* However TCP splits the stream, until stop() is called the bus carries the frames of
\* each client unbroken, in order and once each, and none it did not send: no frame
\* is made of the rest of one read, or of one client, and the start of the next.  (A
\* frame on the bus is one of a client, and of those up to it, the earlier ones and
\* they only have been sent before.)
FramesKept ==
  stage = "running" =>
    \A i \in DOMAIN onBus :
      \E c \in Clients : \E k \in ToSend(c, got[c] \div FrameSize) :
        /\ onBus[i] = FrameOf(c, k)
        /\ \A l \in ToSend(c, k) : Sent(c, l, i - 1) <=> l < k

\* No frame is held back: when the task waits for the client, and when an orderly end
\* of the stream has ended it, every frame it has read is on the bus.
NoneHeldBack ==
  stage = "running" /\ ~unplugged =>
    \A c \in Clients : tx[c] = "read" \/ (tx[c] = "done" /\ conn[c] = "eof") =>
      \A k \in ToSend(c, got[c] \div FrameSize) : Sent(c, k, Len(onBus))

----------------------------------------------------------------------------
(* The inductive invariant                                                 *)

\* The sessions are those of SerialServer, the buffers added.
SessionInv == CanTypeOK /\ Inv

\* How many frames of c have been cut from its stream.
Cut(c) == (got[c] - Len(buf[c])) \div FrameSize

\* The last of them is in a thread's hands.
Pending(c) == tx[c] = "write" \/ c \in orphans

\* What is cut from a stream are whole frames, and the buffer is what follows them.
Buffered(c) ==
  /\ Cut(c) \in Nat
  /\ got[c] = Cut(c) * FrameSize + Len(buf[c])
  /\ \A i \in 1 .. Len(buf[c]) : buf[c][i] = <<c, Cut(c) * FrameSize + i>>

\* A task that waits for its client, or that the client has ended, has cut all it can.
Waited(c) ==
  /\ tx[c] \in {"none", "created"} => got[c] = 0
  /\ tx[c] = "read" => Len(buf[c]) < FrameSize
  /\ tx[c] = "done" => Len(buf[c]) < FrameSize \/ conn[c] = "lost" \/ unplugged
  /\ c \in orphans => tx[c] = "done"

\* What a thread has is the last frame that was cut, and that one is to be sent.
InHand(c) == Pending(c) => Cut(c) \in ToSend(c, Cut(c)) /\ msg[c] = FrameOf(c, Cut(c))

\* The frames before it have been sent, and it too once it is out of the thread's
\* hands, unless the adapter failed or the connection was lost.
SentSoFar(c) ==
  \A k \in ToSend(c, Cut(c)) :
    k < Cut(c) \/ tx[c] \in {"read", "wrote"} \/ (~Pending(c) /\ ~unplugged /\ conn[c] # "lost")
      => Sent(c, k, Len(onBus))

\* What is on the bus has been cut from a stream, and is in no thread's hands.
BusInv ==
  \A i \in DOMAIN onBus :
    \E c \in Clients : \E k \in ToSend(c, Cut(c)) :
      /\ onBus[i] = FrameOf(c, k)
      /\ k = Cut(c) => ~Pending(c)
      /\ \A l \in ToSend(c, k) : Sent(c, l, i - 1) <=> l < k

\* (After stop() a task may wait on for whoever holds the slot, or send to no adapter.)
BeforeStop == stage \in {"new", "opening", "running"}

StreamInv ==
  BeforeStop =>
    /\ \A c \in Clients : Buffered(c) /\ Waited(c) /\ InHand(c) /\ SentSoFar(c)
    /\ BusInv

CanInv == SessionInv /\ StreamInv

=============================================================================
