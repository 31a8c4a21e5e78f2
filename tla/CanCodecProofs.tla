---------------------------- MODULE CanCodecProofs ----------------------------
(***************************************************************************)
(* What the CAN server's two conversions do to a frame, for every set of   *)
(* identifiers, of values of a byte and every number of data bytes.        *)
(*                                                                         *)
(* The lemmas are about the operators: Decode() undoes Encode() on data    *)
(* frames.  CodecInv ties the frame in hand to what it was made of.        *)
(***************************************************************************)
EXTENDS CanCodec, SequenceTheorems, TLAPS

USE BytesAssumption, SizesAssumption

----------------------------------------------------------------------------
(* Sequences of data bytes                                                 *)

\* A sequence of bounded length is a sequence.
LEMMA BoundedIsSeq ==
  ASSUME NEW S, NEW n \in Nat, NEW d \in BoundedSeq(S, n)
  PROVE  d \in Seq(S) /\ Len(d) \in 0 .. n /\ d \in [1 .. Len(d) -> S]
<1>1. PICK m \in 0 .. n : d \in [1 .. m -> S]
  BY DEF BoundedSeq, SeqOf
<1>2. d \in Seq(S)
  BY <1>1
<1>3. DOMAIN d = 1 .. m /\ m \in Nat
  BY <1>1
<1>4. Len(d) = m
  BY <1>2, <1>3, LenProperties
<1> QED BY <1>1, <1>2, <1>4

\* The first m bytes of a frame's data.
LEMMA DataPrefix ==
  ASSUME NEW S, NEW n \in Nat, NEW d \in [1 .. n -> S], NEW m \in 0 .. n
  PROVE  /\ SubSeq(d, 1, m) = [i \in 1 .. m |-> d[i]]
         /\ SubSeq(d, 1, m) \in BoundedSeq(S, n)
         /\ Len(SubSeq(d, 1, m)) = m
<1>1. d \in Seq(S) /\ Len(d) = n
  <2>1. d \in Seq(S)
    OBVIOUS
  <2> QED BY <2>1, LenProperties
<1>2. SubSeq(d, 1, m) = [i \in 1 .. m |-> d[i]]
  BY <1>1
<1>3. SubSeq(d, 1, m) \in [1 .. m -> S]
  <2>1. \A i \in 1 .. m : d[i] \in S
    OBVIOUS
  <2>2. [i \in 1 .. m |-> d[i]] \in [1 .. m -> S]
    BY <2>1
  <2> QED BY <1>2, <2>2
<1>4. SubSeq(d, 1, m) \in BoundedSeq(S, n)
  BY <1>3 DEF BoundedSeq, SeqOf
<1>5. Len(SubSeq(d, 1, m)) = m
  BY <1>1, <1>2, <1>3, LenProperties
<1> QED BY <1>2, <1>4, <1>5

\* The DLC byte, limited to the size of the data.
LEMMA MinOfTwo ==
  ASSUME NEW a \in Nat, NEW b \in Nat
  PROVE  Min({a, b}) = IF a <= b THEN a ELSE b
  BY DEF Min

----------------------------------------------------------------------------
(* The conversions                                                         *)

\* A message from an adapter, Candle or not.
LEMMA BusMessageParts ==
  ASSUME NEW m \in BusMessages
  PROVE  /\ m.arbitration_id \in Ids /\ m.is_extended_id \in BOOLEAN
         /\ m.dlc \in 0 .. DataSize
         /\ m.data \in BoundedSeq(Bytes, DataSize)
         /\ m = Message(m.kind, m.arbitration_id, m.is_extended_id, m.dlc, m.data)
         /\ IF m.kind = "remote" THEN m.data = <<>> ELSE m.dlc = Len(m.data)
<1>1. CASE \E kind \in {"data", "error"}, id \in Ids, x \in BOOLEAN, d \in BoundedSeq(Bytes, DataSize) :
             m = Message(kind, id, x, Len(d), d)
  <2>1. PICK kind \in {"data", "error"}, id \in Ids, x \in BOOLEAN, d \in BoundedSeq(Bytes, DataSize) :
          m = Message(kind, id, x, Len(d), d)
    BY <1>1
  <2>2. Len(d) \in 0 .. DataSize
    BY BoundedIsSeq
  <2> QED BY <2>1, <2>2 DEF Message
<1>2. CASE \E id \in Ids, x \in BOOLEAN, n \in 0 .. DataSize : m = Message("remote", id, x, n, <<>>)
  <2>1. PICK id \in Ids, x \in BOOLEAN, n \in 0 .. DataSize : m = Message("remote", id, x, n, <<>>)
    BY <1>2
  <2>2. <<>> \in BoundedSeq(Bytes, DataSize)
    <3>1. <<>> \in [1 .. 0 -> Bytes] /\ 0 \in 0 .. DataSize
      OBVIOUS
    <3> QED BY <3>1 DEF BoundedSeq, SeqOf
  <2> QED BY <2>1, <2>2 DEF Message
<1> QED BY <1>1, <1>2 DEF BusMessages

\* What CandleBus.recv() returns is a message of an adapter.
LEMMA CandleRecvType ==
  ASSUME NEW f \in CandleFrames
  PROVE  CandleRecv(f) \in BusMessages
  BY DEF CandleRecv, CandleFrames, BusMessages

\* _encode_frame() makes a frame of the wire's format.
LEMMA EncodeType ==
  ASSUME NEW m \in BusMessages
  PROVE  Encode(m) \in Frames
<1>1. /\ m.arbitration_id \in Ids /\ m.is_extended_id \in BOOLEAN
      /\ m.dlc \in 0 .. MaxDlc
      /\ m.data \in Seq(Bytes)
  BY BusMessageParts, BoundedIsSeq
<1>2. \A i \in 1 .. DataSize : (IF i <= Len(m.data) THEN m.data[i] ELSE Zero) \in Bytes
  BY <1>1
<1> QED BY <1>1, <1>2 DEF Encode, Frames

\* _decode_frame() refuses a frame or makes a message whose DLC is the number of its
\* data bytes.
LEMMA DecodeType ==
  ASSUME NEW f \in Frames, Decode(f) # Refused
  PROVE  /\ Decode(f) \in [kind : {"data"}, arbitration_id : Ids, is_extended_id : BOOLEAN,
                           dlc : 0 .. MaxDlc, data : BoundedSeq(Bytes, DataSize)]
         /\ Decode(f).dlc = Len(Decode(f).data)
<1> DEFINE dlc == Min({f.dlc, DataSize})
<1>1. /\ f.id \in Ids /\ f.bit31 \in BOOLEAN /\ f.dlc \in 0 .. MaxDlc
      /\ f.data \in [1 .. DataSize -> Bytes]
  BY DEF Frames
<1>2. dlc \in 0 .. DataSize /\ dlc \in 0 .. MaxDlc
  BY <1>1, MinOfTwo
<1>3. Decode(f) = Message("data", f.id, f.bit31, dlc, SubSeq(f.data, 1, dlc))
  BY DEF Decode
<1> HIDE DEF dlc
<1>4. SubSeq(f.data, 1, dlc) \in BoundedSeq(Bytes, DataSize) /\ Len(SubSeq(f.data, 1, dlc)) = dlc
  BY <1>1, <1>2, DataPrefix
<1> QED BY <1>1, <1>2, <1>3, <1>4 DEF Message

\* What the client sends back of any frame it received: a data frame is the message that
\* was on the bus, an error frame one with its data, a remote frame one of zeros.
THEOREM RoundTrip ==
  ASSUME NEW m \in BusMessages
  PROVE  Decode(Encode(m)) =
           Message("data", m.arbitration_id, m.is_extended_id, m.dlc,
                   IF m.kind = "remote" THEN [i \in 1 .. m.dlc |-> Zero] ELSE m.data)
<1>1. /\ m.dlc \in 0 .. DataSize
      /\ m.data \in Seq(Bytes)
      /\ IF m.kind = "remote" THEN Len(m.data) = 0 ELSE Len(m.data) = m.dlc
  BY BusMessageParts, BoundedIsSeq
<1> DEFINE f == Encode(m)
<1>2. /\ f.bit29 = FALSE /\ f.id = m.arbitration_id /\ f.bit31 = m.is_extended_id
      /\ f.dlc = m.dlc
      /\ f.data = [i \in 1 .. DataSize |-> IF i <= Len(m.data) THEN m.data[i] ELSE Zero]
  BY DEF Encode
<1>3. f.data \in [1 .. DataSize -> Bytes]
  BY EncodeType DEF Frames
<1> HIDE DEF f
<1>4. Min({f.dlc, DataSize}) = m.dlc
  BY <1>1, <1>2, MinOfTwo
<1>5. SubSeq(f.data, 1, m.dlc) = [i \in 1 .. m.dlc |-> f.data[i]]
  BY <1>1, <1>3, DataPrefix
<1>6. CASE m.kind = "remote"
  <2>1. \A i \in 1 .. m.dlc : f.data[i] = Zero
    BY <1>1, <1>2, <1>6
  <2>2. SubSeq(f.data, 1, m.dlc) = [i \in 1 .. m.dlc |-> Zero]
    BY <1>5, <2>1
  <2> QED BY <1>2, <1>4, <1>6, <2>2 DEF Decode, f
<1>7. CASE m.kind # "remote"
  <2>1. \A i \in 1 .. m.dlc : f.data[i] = m.data[i]
    BY <1>1, <1>2, <1>7
  <2>2. m.data = [i \in 1 .. m.dlc |-> m.data[i]]
    BY <1>1, <1>7
  <2>3. SubSeq(f.data, 1, m.dlc) = m.data
    BY <1>5, <2>1, <2>2
  <2> QED BY <1>2, <1>4, <1>7, <2>3 DEF Decode, f
<1> QED BY <1>6, <1>7

\* Decoding undoes the encoding of a data frame.
LEMMA DecodeEncode ==
  ASSUME NEW m \in BusMessages, m.kind = "data"
  PROVE  Decode(Encode(m)) = m
BY RoundTrip, BusMessageParts

\* CandleBus.send() undoes CandleBus.recv().
LEMMA CandleSendRecv ==
  ASSUME NEW f \in CandleFrames
  PROVE  CandleSend(CandleRecv(f)) = f
<1>1. /\ f = [id |-> f.id, extended |-> f.extended, remote |-> FALSE, data |-> f.data]
      /\ f.data \in Seq(Bytes)
  BY BoundedIsSeq DEF CandleFrames
<1>2. SubSeq(f.data, 1, Len(f.data)) = f.data
  BY <1>1, SubSeqFull
<1> QED BY <1>1, <1>2 DEF CandleSend, CandleRecv, Message

----------------------------------------------------------------------------
(* The theorems                                                            *)

LEMMA CodecInit == Init => CodecInv
  BY DEF Init, CodecInv, TypeOK

\* CodecInv is inductive.
LEMMA CodecStep == CodecInv /\ [Next]_vars => CodecInv'
<1> SUFFICES ASSUME CodecInv, [Next]_vars PROVE CodecInv'
  OBVIOUS
<1> USE DEF CodecInv
<1>1. CASE CanToTcp
  <2>1. PICK m \in BusMessages :
          got' = m /\ read' = Nothing /\ frame' = Encode(m) /\ sent' = Nothing
    BY <1>1 DEF CanToTcp
  <2>2. Encode(m) \in Frames
    BY EncodeType
  <2> QED BY <2>1, <2>2 DEF TypeOK
<1>2. CASE CandleToTcp
  <2>1. PICK f \in CandleFrames :
          /\ read' = f /\ got' = CandleRecv(f)
          /\ frame' = Encode(CandleRecv(f)) /\ sent' = Nothing
    BY <1>2 DEF CandleToTcp
  <2>2. CandleRecv(f) \in BusMessages /\ Encode(CandleRecv(f)) \in Frames
    BY CandleRecvType, EncodeType
  <2> QED BY <2>1, <2>2 DEF TypeOK
<1>3. CASE ClientMakes
  BY <1>3 DEF ClientMakes, TypeOK
<1>4. CASE TcpToCan
  <2>1. /\ frame # Nothing /\ frame \in Frames
        /\ sent' = Decode(frame) /\ UNCHANGED <<read, got, frame>>
    BY <1>4 DEF TcpToCan, TypeOK
  <2>2. TypeOK'
    BY <2>1, DecodeType DEF TypeOK
  <2> QED BY <2>1, <2>2
<1>5. CASE UNCHANGED vars
  BY <1>5 DEF vars, TypeOK
<1> QED BY <1>1, <1>2, <1>3, <1>4, <1>5 DEF Next

\* The frame in hand and what is sent of it are of the types the wire and python-can
\* have, and were made of what was received.
THEOREM CodecInvariance == Spec => []CodecInv
  BY CodecInit, CodecStep, PTL DEF Spec

\* A data frame that a client receives and sends back is the message that was on the
\* bus, to the adapter's own frame.
THEOREM ReplayIsExactHolds == Spec => []ReplayIsExact
<1>1. CodecInv => ReplayIsExact
  <2> SUFFICES ASSUME CodecInv, sent # Nothing, got # Nothing, got.kind = "data"
               PROVE  sent = got /\ (read # Nothing => CandleSend(sent) = read)
    BY DEF ReplayIsExact
  <2>1. got \in BusMessages /\ frame = Encode(got) /\ sent = Decode(frame)
    BY DEF CodecInv, TypeOK
  <2>2. sent = got
    BY <2>1, DecodeEncode
  <2>3. read # Nothing => read \in CandleFrames /\ got = CandleRecv(read)
    BY DEF CodecInv, TypeOK
  <2> QED BY <2>2, <2>3, CandleSendRecv
<1> QED BY <1>1, CodecInvariance, PTL

\* A message given to python-can has as many bytes as its DLC says, whatever DLC the
\* client sent.
THEOREM DlcMatchesDataHolds == Spec => []DlcMatchesData
<1>1. CodecInv => DlcMatchesData
  <2> SUFFICES ASSUME CodecInv, sent # Nothing, sent # Refused PROVE sent.dlc = Len(sent.data)
    BY DEF DlcMatchesData
  <2>1. frame \in Frames /\ sent = Decode(frame)
    BY DEF CodecInv, TypeOK
  <2> QED BY <2>1, DecodeType
<1> QED BY <1>1, CodecInvariance, PTL

=============================================================================
