------------------------------ MODULE CanCodec ------------------------------
(***************************************************************************)
(* What one CAN frame becomes between the bus and the client of            *)
(* CanBusOverTcpServer (src/portbridge/can_server.py): _encode_frame() on  *)
(* the way to the client, _decode_frame() on the way to the bus; and       *)
(* beyond them the adapter of src/portbridge/candle_bus.py.                *)
(*                                                                         *)
(* A frame on the wire is a record: the CAN ID word is its bits 31, 30 and *)
(* 29 and the other 29 as one identifier, and every frame has exactly      *)
(* DataSize data bytes, so that its length needs no field.  CanServer has  *)
(* how frames are cut from the stream and when they are sent.              *)
(***************************************************************************)
EXTENDS Naturals, SequencesExt

CONSTANTS Ids,       \* arbitration ids
          Bytes,     \* the values of a data byte, Zero among them
          Zero,
          DataSize,  \* data bytes in a frame: 8
          MaxDlc     \* bound: the largest DLC byte in a frame

ASSUME BytesAssumption == Zero \in Bytes
ASSUME SizesAssumption == DataSize \in Nat /\ MaxDlc \in Nat /\ DataSize <= MaxDlc

VARIABLES
  read,   \* what the Candle driver gave for the frame in hand, or nothing
  got,    \* the message bus.recv returned for the frame in hand, or none
  frame,  \* the frame in hand: the client's last, sent or received
  sent    \* what _decode_frame made of it, or nothing yet

vars == <<read, got, frame, sent>>

Nothing == [kind |-> "nothing"]
Refused == [kind |-> "refused"]    \* _decode_frame returned None

Frames == [bit31 : BOOLEAN, bit30 : BOOLEAN, bit29 : BOOLEAN, id : Ids,
           dlc : 0 .. MaxDlc, data : [1 .. DataSize -> Bytes]]

\* can.Message: python-can has three kinds of frame, which the server does not look at.
Message(kind, id, extended, dlc, data) ==
  [kind |-> kind, arbitration_id |-> id, is_extended_id |-> extended,
   dlc |-> dlc, data |-> data]

\* What an adapter delivers: a remote frame has a DLC and no data.
BusMessages ==
  {Message(kind, id, x, Len(d), d) :
     kind \in {"data", "error"}, id \in Ids, x \in BOOLEAN, d \in BoundedSeq(Bytes, DataSize)}
  \union {Message("remote", id, x, n, <<>>) :
     id \in Ids, x \in BOOLEAN, n \in 0 .. DataSize}

\* A frame of the Candle driver; the type it has besides (an echo, an error) is ignored.
CandleFrames == [id : Ids, extended : BOOLEAN, remote : {FALSE}, data : BoundedSeq(Bytes, DataSize)]

\* CandleBus.recv()
CandleRecv(f) == Message("data", f.id, f.extended, Len(f.data), f.data)

\* CandleBus.send(): the flags of the identifier word, and the data up to the DLC.
CandleSend(m) ==
  [id |-> m.arbitration_id, extended |-> m.is_extended_id, remote |-> m.kind = "remote",
   data |-> IF m.kind = "remote" THEN <<>> ELSE SubSeq(m.data, 1, m.dlc)]

\* Mutant: the kind of identifier is not passed on.
EncodeStandard(m) ==
  [bit31 |-> FALSE, bit30 |-> FALSE, bit29 |-> FALSE, id |-> m.arbitration_id,
   dlc |-> m.dlc,
   data |-> [i \in 1 .. DataSize |-> IF i <= Len(m.data) THEN m.data[i] ELSE Zero]]

\* Mutant: the data is not padded.
EncodeUnpadded(m) ==
  [bit31 |-> m.is_extended_id, bit30 |-> FALSE, bit29 |-> FALSE, id |-> m.arbitration_id,
   dlc |-> m.dlc, data |-> m.data]

\* _encode_frame(): the data is padded with zeros.
Encode(m) ==
  [bit31 |-> m.is_extended_id, bit30 |-> FALSE, bit29 |-> FALSE, id |-> m.arbitration_id,
   dlc |-> m.dlc,
   data |-> [i \in 1 .. DataSize |-> IF i <= Len(m.data) THEN m.data[i] ELSE Zero]]

\* Mutant: the DLC is taken as it comes.
DecodeAnyDlc(f) ==
  IF f.bit29
  THEN Refused
  ELSE Message("data", f.id, f.bit31, f.dlc, SubSeq(f.data, 1, Min({f.dlc, DataSize})))

\* _decode_frame(): CAN_ERR_FLAG is bit 29; every other frame is a data frame.
Decode(f) ==
  LET dlc == Min({f.dlc, DataSize})
  IN  IF f.bit29
      THEN Refused
      ELSE Message("data", f.id, f.bit31, dlc, SubSeq(f.data, 1, dlc))

TypeOK ==
  /\ read \in CandleFrames \union {Nothing}
  /\ got \in BusMessages \union {Nothing}
  /\ frame \in Frames \union {Nothing}
  /\ sent \in {Nothing, Refused} \union
              [kind : {"data"}, arbitration_id : Ids, is_extended_id : BOOLEAN,
               dlc : 0 .. MaxDlc, data : BoundedSeq(Bytes, DataSize)]

Init == read = Nothing /\ got = Nothing /\ frame = Nothing /\ sent = Nothing

\* _can_to_tcp(): the client receives a frame.
CanToTcp ==
  \E m \in BusMessages :
    got' = m /\ read' = Nothing /\ frame' = Encode(m) /\ sent' = Nothing

\* _can_to_tcp() with a Candle adapter.
CandleToTcp ==
  \E f \in CandleFrames :
    /\ read' = f
    /\ got' = CandleRecv(f)
    /\ frame' = Encode(got')
    /\ sent' = Nothing

\* The client makes a frame of its own.
ClientMakes ==
  /\ frame' \in Frames
  /\ read' = Nothing
  /\ got' = Nothing
  /\ sent' = Nothing

\* _tcp_to_can(): the frame in hand, received or made, goes back to the server.
TcpToCan ==
  /\ frame # Nothing
  /\ sent' = Decode(frame)
  /\ UNCHANGED <<read, got, frame>>

Next == CanToTcp \/ CandleToTcp \/ ClientMakes \/ TcpToCan

Spec == Init /\ [][Next]_vars

----------------------------------------------------------------------------
(* What must hold                                                          *)

\* A client that sends back a data frame it received (a recorder that replays its
\* log) puts the very same message on the bus: the padding, the flag of an extended
\* identifier and the DLC survive both conversions, and the two of the Candle adapter.
ReplayIsExact ==
  sent # Nothing /\ got # Nothing /\ got.kind = "data" =>
    /\ sent = got
    /\ read # Nothing => CandleSend(sent) = read

\* Whatever DLC a client sends, the message given to python-can has as many data
\* bytes as its own DLC says.
DlcMatchesData ==
  sent \notin {Nothing, Refused} => sent.dlc = Len(sent.data)

\* The frames the server handles as the description of the format says: bit 30 marks
\* an error frame, which is not sent, and bit 29 a remote frame.  (can_server.py:4-5
\* "bits 0-28 = ID, bit 29 = RTR, bit 30 = error, bit 31 = extended frame flag".)
FlagsAsDocumented ==
  sent # Nothing =>
    IF frame.bit30
    THEN sent = Refused
    ELSE sent.kind = IF frame.bit29 THEN "remote" ELSE "data"

----------------------------------------------------------------------------
(* The inductive invariant                                                 *)

\* Whatever is in hand was made of what it came from, and of nothing older.
CodecInv ==
  /\ TypeOK
  /\ read # Nothing => got = CandleRecv(read)
  /\ got # Nothing => frame = Encode(got)
  /\ sent # Nothing => frame # Nothing /\ sent = Decode(frame)

=============================================================================
