--------------------------- MODULE CanServerProofs ---------------------------
(***************************************************************************)
(* What TLAPS proves of CanServer, for every set of connections, size of   *)
(* frames and bound on what the clients send: SessionInv is an invariant,  *)
(* so that the sessions of the CAN server have that of the serial server's *)
(* and keep the same promise to their owner, although a session task has   *)
(* one read where the other has one read per frame.                        *)
(*                                                                         *)
(* The steps that are the serial server's own are proved by the lemmas of  *)
(* SerialServerProofs; CutFrames is reduced to the three ways in which it  *)
(* can leave a session task.                                               *)
(***************************************************************************)
EXTENDS CanServer, SerialServerProofs, FiniteSetTheorems,
        WellFoundedInduction, SequenceTheorems

USE ClientsAssumption, FrameSizeAssumption
    DEF owner, network, session, Stages, Conns, Handlers, RxSteps, TxSteps

\* Cutting frames leaves the task waiting for its client, at an end or in bus.send.
LEMMA CutFramesShape ==
  ASSUME NEW c \in Clients, NEW b, CutFrames(c, b)
  PROVE  \/ /\ ~ReaderUnavailable(c)
            /\ tx' = [tx EXCEPT ![c] = "read"]
            /\ source' = [source EXCEPT ![c] = writer]
         \/ /\ tx' = [tx EXCEPT ![c] = "done"]
            /\ source' = [source EXCEPT ![c] = None]
         \/ /\ tx' = [tx EXCEPT ![c] = "write"]
            /\ UNCHANGED source
  BY DEF CutFrames, ReadClient, TxEnds

\* The pieces that are cut from a buffer are sequences of its elements.
LEMMA PiecesType ==
  ASSUME NEW b \in Seq(Bytes), NEW j \in 0 .. Len(b) \div FrameSize
  PROVE  /\ After(b, j) \in Seq(Bytes)
         /\ j > 0 => FrameAt(b, j) \in Seq(Bytes)
<1>1. j * FrameSize \in 0 .. Len(b)
  OBVIOUS
<1>2. ASSUME j > 0 PROVE (j - 1) * FrameSize \in 0 .. Len(b)
  BY <1>1, <1>2
<1>3. After(b, j) \in Seq(Bytes)
  BY <1>1, SubSeqProperties DEF After
<1>4. ASSUME j > 0 PROVE FrameAt(b, j) \in Seq(Bytes)
  BY <1>1, <1>2, <1>4, SubSeqProperties DEF FrameAt
<1> QED BY <1>3, <1>4

\* A set of naturals has a least element.
LEMMA LeastElement ==
  ASSUME NEW S \in SUBSET Nat, S # {}
  PROVE  \E i \in S : \A k \in S : i <= k
<1> DEFINE below == {0 .. i : i \in S}
<1>1. below \subseteq FiniteSubsetsOf(Nat) /\ below # {}
  <2>1. \A i \in S : 0 .. i \in SUBSET Nat /\ IsFiniteSet(0 .. i)
    BY FS_Interval
  <2> QED BY <2>1, Zenon DEF FiniteSubsetsOf
<1>2. PICK t \in below : \A u \in below : ~ (<<u, t>> \in StrictSubsetOrdering(Nat))
  BY <1>1, FS_StrictSubsetOrderingWellFounded, WFMin
<1>3. PICK i \in S : t = 0 .. i
  OBVIOUS
<1>4. ASSUME NEW k \in S, k < i PROVE FALSE
  <2>1. 0 .. k \subseteq 0 .. i /\ 0 .. k # 0 .. i
    <3>1. i \in 0 .. i /\ i \notin 0 .. k
      BY <1>4
    <3>2. 0 .. k \subseteq 0 .. i
      BY <1>4
    <3> QED BY <3>1, <3>2
  <2>2. 0 .. k \in SUBSET Nat /\ 0 .. i \in SUBSET Nat
    OBVIOUS
  <2>3. <<0 .. k, 0 .. i>> \in StrictSubsetOrdering(Nat)
    BY <2>1, <2>2 DEF StrictSubsetOrdering
  <2> QED BY <1>2, <1>3, <2>3
<1> QED BY <1>4

\* Cutting frames keeps the types of the buffers.
LEMMA CutFramesType ==
  ASSUME CanTypeOK, NEW c \in Clients, NEW b \in Seq(Bytes), CutFrames(c, b)
  PROVE  /\ buf' \in [Clients -> Seq(Bytes)]
         /\ msg' \in [Clients -> Seq(Bytes)]
<1> DEFINE good == {j \in Complete(b) : Decodes(FrameAt(b, j))}
           j    == CHOOSE i \in good : \A k \in good : i <= k
<1>1. CASE good = {}
  <2>1. Len(b) \div FrameSize \in 0 .. Len(b) \div FrameSize
    OBVIOUS
  <2>2. After(b, Len(b) \div FrameSize) \in Seq(Bytes)
    BY <2>1, PiecesType
  <2> QED BY <1>1, <2>2 DEF CutFrames, CanTypeOK
<1>2. CASE good # {}
  <2>0. good \in SUBSET Nat
    BY DEF Complete
  <2>1. \E i \in good : \A k \in good : i <= k
    BY <1>2, <2>0, LeastElement
  <2>2. j \in 1 .. Len(b) \div FrameSize
    BY <2>1 DEF Complete
  <2>3. After(b, j) \in Seq(Bytes) /\ FrameAt(b, j) \in Seq(Bytes)
    BY <2>2, PiecesType
  <2> QED BY <1>2, <2>3 DEF CutFrames, CanTypeOK
<1> QED BY <1>1, <1>2

\* The three ways in which a session task is left preserve the invariant of the
\* sessions.
LEMMA CutFramesKeepsInv ==
  ASSUME Inv, NEW c \in Clients, NEW b, CutFrames(c, b), tx[c] \in {"read", "wrote"},
         UNCHANGED <<owner, network, handler, rx, sink, orphans, strays, unplugged>>
  PROVE  Inv'
<1> USE DEF Inv
<1>1. UNCHANGED <<owner, network, handler, rx, sink, orphans, strays, unplugged>>
  OBVIOUS
<1>2. OwnerInv' /\ SingleSession' /\ FailureInv' /\ OrphanWriteOnlyAfterFailure'
  <2>1. OwnerInv'
    <3>0. stage' = stage /\ (serial' <=> serial) /\ (server' <=> server)
      BY <1>1
    <3>1. (serial <=> stage \in {"opening", "running", "closing writer", "wait closed"})'
      BY <3>0 DEF OwnerInv
    <3>2. (server <=> stage = "running")'
      BY <3>0 DEF OwnerInv
    <3>3. (closing # None <=> stage = "closing writer")'
      BY <1>1 DEF OwnerInv
    <3>4. (stage \in {"new", "opening", "failed"} =>
             writer = None /\ orphans = {} /\ \A d \in Clients : conn[d] = "out")'
      BY <1>1 DEF OwnerInv
    <3> QED BY <3>1, <3>2, <3>3, <3>4 DEF OwnerInv
  <2>2. SingleSession'
    BY <1>1 DEF SingleSession
  <2>3. FailureInv'
    BY <1>1 DEF FailureInv
  <2>4. OrphanWriteOnlyAfterFailure'
    BY <1>1 DEF OrphanWriteOnlyAfterFailure
  <2> QED BY <2>1, <2>2, <2>3, <2>4
<1>3. CASE /\ ~ReaderUnavailable(c)
           /\ tx' = [tx EXCEPT ![c] = "read"]
           /\ source' = [source EXCEPT ![c] = writer]
  <2>1. writer \in Clients
    BY <1>3 DEF ReaderUnavailable, TypeOK
  <2>2. TypeOK'
    BY <1>1, <1>3, <2>1 DEF TypeOK
  <2>3. TaskInv'
    BY <1>1, <1>3, <2>1 DEF TypeOK, TaskInv
  <2>4. NoCrossTalk'
    BY <1>1, <1>3, <2>1 DEF TypeOK, TaskInv, SingleSession, NoCrossTalk
  <2> QED BY <1>2, <2>2, <2>3, <2>4
<1>4. CASE /\ tx' = [tx EXCEPT ![c] = "done"]
           /\ source' = [source EXCEPT ![c] = None]
  <2>1. TypeOK'
    BY <1>1, <1>4 DEF TypeOK
  <2>2. TaskInv'
    BY <1>1, <1>4 DEF TypeOK, TaskInv
  <2>3. NoCrossTalk'
    BY <1>1, <1>4 DEF TypeOK, NoCrossTalk
  <2> QED BY <1>2, <2>1, <2>2, <2>3
<1>5. CASE /\ tx' = [tx EXCEPT ![c] = "write"]
           /\ UNCHANGED source
  <2>1. TypeOK'
    BY <1>1, <1>5 DEF TypeOK
  <2>2. TaskInv'
    BY <1>1, <1>5 DEF TypeOK, TaskInv
  <2>3. NoCrossTalk'
    BY <1>1, <1>5 DEF TypeOK, NoCrossTalk
  <2> QED BY <1>2, <2>1, <2>2, <2>3
<1> QED BY <1>3, <1>4, <1>5, CutFramesShape

\* The state before the first step.
LEMMA CanInitSessions == CanInit => SessionInv
  BY InitInv DEF CanInit, SessionInv, CanTypeOK, Inv

\* The two steps that cut frames.
LEMMA CuttingStep ==
  ASSUME SessionInv, NEW c \in Clients, Reads(c) \/ Continues(c)
  PROVE  SessionInv'
<1> USE DEF SessionInv
<1>1. CASE Reads(c)
  <2> DEFINE s == source[c]
  <2>1. s \in Clients
    BY <1>1 DEF Reads, Inv, TypeOK, TaskInv
  <2>2. PICK n \in 1 .. MaxBytes[s] - got[s] :
          /\ got' = [got EXCEPT ![s] = @ + n]
          /\ CutFrames(c, buf[c] \o [i \in 1 .. n |-> <<s, got[s] + i>>])
    BY <1>1 DEF Reads
  <2> DEFINE new == [i \in 1 .. n |-> <<s, got[s] + i>>]
  <2>3. got[s] \in Nat /\ n \in Nat /\ buf[c] \in Seq(Bytes)
    BY <2>1, <2>2 DEF CanTypeOK
  <2>4. new \in Seq(Bytes)
    <3>1. \A i \in 1 .. n : <<s, got[s] + i>> \in Bytes
      BY <2>1, <2>3 DEF Bytes
    <3> QED BY <2>3, <3>1
  <2>5. buf[c] \o new \in Seq(Bytes)
    BY <2>3, <2>4, ConcatProperties
  <2>6. got' \in [Clients -> Nat]
    BY <2>1, <2>2, <2>3 DEF CanTypeOK
  <2>7. Inv'
    BY <1>1, <2>2, CutFramesKeepsInv DEF Reads
  <2>8. buf' \in [Clients -> Seq(Bytes)] /\ msg' \in [Clients -> Seq(Bytes)]
    BY <2>2, <2>5, CutFramesType
  <2>9. onBus' = onBus
    BY <1>1 DEF Reads
  <2> QED BY <2>6, <2>7, <2>8, <2>9 DEF CanTypeOK, Inv
<1>2. CASE Continues(c)
  <2>1. buf[c] \in Seq(Bytes)
    BY DEF CanTypeOK
  <2>2. Inv'
    BY <1>2, CutFramesKeepsInv DEF Continues
  <2>3. buf' \in [Clients -> Seq(Bytes)] /\ msg' \in [Clients -> Seq(Bytes)]
    BY <1>2, <2>1, CutFramesType DEF Continues
  <2>4. UNCHANGED <<got, onBus>>
    BY <1>2 DEF Continues
  <2> QED BY <2>2, <2>3, <2>4 DEF CanTypeOK, Inv
<1> QED BY <1>1, <1>2

\* A frame that reaches the bus.
LEMMA OnBusType ==
  ASSUME CanTypeOK, NEW c \in Clients
  PROVE  Append(onBus, msg[c]) \in Seq(Seq(Bytes))
<1>1. onBus \in Seq(Seq(Bytes)) /\ msg[c] \in Seq(Bytes)
  BY DEF CanTypeOK
<1> QED BY <1>1, AppendProperties

\* SessionInv is inductive.
LEMMA SessionsStep == SessionInv /\ [CanNext]_canVars => SessionInv'
<1> SUFFICES ASSUME SessionInv, [CanNext]_canVars
             PROVE  SessionInv'
  OBVIOUS
<1> USE DEF SessionInv
<1>1. ASSUME UNCHANGED stream, Inv' PROVE SessionInv'
  BY <1>1 DEF stream, CanTypeOK, Inv
<1>2. CASE CanStart \/ CanStop
  <2>1. UNCHANGED stream /\ Inv'
    BY <1>2, OwnerStep DEF CanStart, CanStop
  <2> QED BY <1>1, <2>1
<1>3. ASSUME NEW c \in Clients, Outside(c) PROVE SessionInv'
  <2>1. UNCHANGED stream /\ Inv'
    BY <1>3, OwnerStep, NetworkStep DEF Outside, LeftBehind
  <2> QED BY <1>1, <2>1
<1>4. ASSUME NEW c \in Clients, HandleClient(c) \/ CanToTcp(c) PROVE SessionInv'
  <2>1. UNCHANGED stream /\ Inv'
    BY <1>4, HandlerStep, SerialToTcpStep DEF HandleClient, CanToTcp
  <2> QED BY <1>1, <2>1
<1>5. ASSUME NEW c \in Clients, OtherTcpToCan(c) PROVE SessionInv'
  <2>1. UNCHANGED stream /\ TcpToSerial(c)
    BY <1>5 DEF OtherTcpToCan, TcpToSerial
  <2> QED BY <1>1, <2>1, TcpToSerialStep
<1>6. ASSUME NEW c \in Clients, Reads(c) \/ Continues(c) PROVE SessionInv'
  BY <1>6, CuttingStep
<1>7. ASSUME NEW c \in Clients, Sends(c) PROVE SessionInv'
  <2>1. Inv'
    BY <1>7, TcpToSerialStep DEF Sends, TcpToSerial
  <2>2. onBus' \in Seq(Seq(Bytes)) /\ UNCHANGED <<got, buf, msg>>
    BY <1>7, OnBusType DEF Sends
  <2> QED BY <2>1, <2>2 DEF CanTypeOK, Inv
<1>8. ASSUME NEW c \in Clients, OrphanSendEnds(c) PROVE SessionInv'
  <2>1. Inv'
    BY <1>8, NetworkStep DEF OrphanSendEnds, LeftBehind
  <2>2. onBus' \in Seq(Seq(Bytes)) /\ UNCHANGED <<got, buf, msg>>
    BY <1>8, OnBusType DEF OrphanSendEnds, CanTypeOK
  <2> QED BY <2>1, <2>2 DEF CanTypeOK, Inv
<1>9. CASE UNCHANGED canVars
  <2>1. UNCHANGED stream /\ UNCHANGED vars
    BY <1>9 DEF canVars
  <2>2. Inv'
    BY <2>1, InductiveStep
  <2> QED BY <1>1, <2>1, <2>2
<1> QED BY <1>2, <1>3, <1>4, <1>5, <1>6, <1>7, <1>8, <1>9 DEF CanNext, TcpToCan

\* The sessions of the CAN server keep the invariant of the serial server's sessions,
\* and its buffers their types.
THEOREM SessionInvariance == CanSpec => []SessionInv
  BY CanInitSessions, SessionsStep, PTL DEF CanSpec

\* Until stop(), the slot of the bus and the live session belong to the same client, whose
\* tasks handle the bytes of no other; a send of an earlier client that is still on its
\* thread, and may yet put that client's last frame on the bus, is one of a client whose
\* connection was lost or of an adapter that has failed (_handle_client, _tcp_to_can).
THEOREM CanSessionsHold ==
  CanSpec => [](SingleSession /\ NoCrossTalk /\ OrphanWriteOnlyAfterFailure)
<1>1. SessionInv => SingleSession /\ NoCrossTalk /\ OrphanWriteOnlyAfterFailure
  BY DEF SessionInv, Inv
<1> QED BY <1>1, SessionInvariance, PTL

----------------------------------------------------------------------------
(* The CAN server keeps the promise of ExclusiveBridge                      *)

\* Cutting frames makes no new user of the bus.
LEMMA CuttingRefines ==
  ASSUME SessionInv, NEW c \in Clients, Reads(c) \/ Continues(c)
  PROVE  [Bridge!Next]_(Bridge!vars)
<1>1. TypeOK
  BY DEF SessionInv, Inv
<1>2. /\ tx[c] \in {"read", "wrote"}
      /\ UNCHANGED <<owner, network, handler, rx, sink, orphans, strays, unplugged>>
      /\ \E b : CutFrames(c, b)
  BY DEF Reads, Continues
<1>3. \E v \in {"read", "done", "write"} : tx' = [tx EXCEPT ![c] = v]
  BY <1>2, CutFramesShape
<1>4. \A d \in Clients \ {c} : rx'[d] = rx[d] /\ tx'[d] = tx[d]
  BY <1>1, <1>2, <1>3 DEF TypeOK
<1>5. c \in Users
  BY <1>2 DEF Users
<1>6. stage' = stage /\ serial' = serial /\ UNCHANGED Around
  BY <1>2 DEF Around, Lost
<1> QED BY <1>1, <1>4, <1>5, <1>6, OneClientMoves

\* CanBusOverTcpServer implements ExclusiveBridge: one client at a time is served, and
\* beside it only the bus.recv and bus.send calls end that earlier ones have left behind,
\* the latter only of clients that failed.
THEOREM CanBridgeImplemented == CanSpec => ImplementsBridge
<1>1. CanInit => Bridge!Init
  BY DEF CanInit, Init, Bridge!Init, Life, Users, Lost
<1>2. SessionInv /\ [CanNext]_canVars => [Bridge!Next]_(Bridge!vars)
  <2> SUFFICES ASSUME SessionInv, [CanNext]_canVars
               PROVE  [Bridge!Next]_(Bridge!vars)
    OBVIOUS
  <2>0. Inv
    BY DEF SessionInv
  <2>1. CASE CanStart \/ CanStop
    BY <2>0, <2>1, OwnerRefines DEF CanStart, CanStop
  <2>2. ASSUME NEW c \in Clients, Outside(c) \/ OrphanSendEnds(c) \/ HandleClient(c)
        PROVE  [Bridge!Next]_(Bridge!vars)
    BY <2>0, <2>2, OwnerRefines, NetworkRefines, HandlerRefines
       DEF Outside, OrphanSendEnds, HandleClient, LeftBehind
  <2>3. ASSUME NEW c \in Clients, CanToTcp(c) \/ OtherTcpToCan(c) \/ Sends(c)
        PROVE  [Bridge!Next]_(Bridge!vars)
    <3>1. SerialToTcp(c) \/ TcpToSerial(c)
      BY <2>3 DEF CanToTcp, OtherTcpToCan, Sends, TcpToSerial
    <3> QED BY <2>0, <3>1, TasksRefine
  <2>4. ASSUME NEW c \in Clients, Reads(c) \/ Continues(c)
        PROVE  [Bridge!Next]_(Bridge!vars)
    BY <2>4, CuttingRefines
  <2>5. CASE UNCHANGED canVars
    BY <2>5 DEF canVars, vars, Bridge!vars, Life, Users, Lost
  <2> QED BY <2>1, <2>2, <2>3, <2>4, <2>5 DEF CanNext, TcpToCan
<1> QED BY <1>1, <1>2, SessionInvariance, PTL DEF CanSpec, ImplementsBridge, Bridge!Spec

=============================================================================
