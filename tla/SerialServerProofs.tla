------------------------- MODULE SerialServerProofs -------------------------
(***************************************************************************)
(* What TLAPS proves of SerialServer, for every finite set of connections  *)
(* and both behaviours of Server.wait_closed():                            *)
(*   - Inv is inductive, hence an invariant, and with it the safety        *)
(*     properties it contains or implies;                                  *)
(*   - every step of the server is a step of ExclusiveBridge.              *)
(* The invariant is proved one group of actions at a time; an action that  *)
(* disturbs several conjuncts has one step for each.                       *)
(***************************************************************************)
EXTENDS SerialServer, TLAPS

USE ClientsAssumption
    DEF owner, network, session, Stages, Conns, Handlers, RxSteps, TxSteps

\* Nothing is open and nobody is connected at the start.
LEMMA InitInv == Init => Inv
  BY DEF Init, Inv, TypeOK, OwnerInv, TaskInv, SingleSession, NoCrossTalk, FailureInv,
         OrphanWriteOnlyAfterFailure

\* start() and stop(), and the device failing, preserve the invariant.
LEMMA OwnerStep ==
  ASSUME Inv, Start \/ Stopping \/ Unplug
  PROVE  Inv'
<1> USE DEF Inv
<1>1. CASE OpenSerial
  BY <1>1 DEF OpenSerial, TypeOK, OwnerInv, TaskInv, SingleSession, NoCrossTalk,
     FailureInv, OrphanWriteOnlyAfterFailure
<1>2. CASE OpenSerialFails
  BY <1>2 DEF OpenSerialFails, TypeOK, OwnerInv, TaskInv, SingleSession,
     NoCrossTalk, FailureInv, OrphanWriteOnlyAfterFailure
<1>3. CASE Listen
  BY <1>3 DEF Listen, TypeOK, OwnerInv, TaskInv, SingleSession, NoCrossTalk,
     FailureInv, OrphanWriteOnlyAfterFailure
<1>4. CASE ListenFails
  BY <1>4 DEF ListenFails, TypeOK, OwnerInv, TaskInv, SingleSession,
     NoCrossTalk, FailureInv, OrphanWriteOnlyAfterFailure
<1>5. CASE Stop
  <2>1. CASE writer = None /\ Detached(conn)
    <3>1. /\ stage = "running" /\ stage' = "stopped"
          /\ serial' = FALSE /\ server' = FALSE
          /\ UNCHANGED <<writer, closing, network, session, unplugged>>
      BY <1>5, <2>1 DEF Stop, WaitServerClosed, CloseWriter, TypeOK
    <3>2. TypeOK'
      BY <3>1 DEF TypeOK
    <3>3. OwnerInv'
      BY <3>1 DEF TypeOK, OwnerInv
    <3>4. TaskInv'
      BY <3>1 DEF TypeOK, TaskInv
    <3>5. SingleSession'
      BY <3>1 DEF TypeOK, OwnerInv, TaskInv, SingleSession
    <3>6. NoCrossTalk'
      BY <3>1 DEF TypeOK, OwnerInv, TaskInv, SingleSession, NoCrossTalk
    <3>7. FailureInv'
      BY <3>1 DEF TypeOK, OwnerInv, TaskInv, SingleSession, NoCrossTalk,
         FailureInv
    <3>8. OrphanWriteOnlyAfterFailure'
      BY <3>1 DEF TypeOK, OwnerInv, TaskInv, FailureInv,
         OrphanWriteOnlyAfterFailure
    <3> QED BY <3>2, <3>3, <3>4, <3>5, <3>6, <3>7, <3>8
  <2>2. CASE writer = None /\ ~Detached(conn)
    <3>1. /\ stage = "running" /\ stage' = "wait closed"
          /\ server' = FALSE
          /\ UNCHANGED <<serial, writer, closing, network, session, unplugged>>
      BY <1>5, <2>2 DEF Stop, WaitServerClosed, CloseWriter, TypeOK
    <3>2. TypeOK'
      BY <3>1 DEF TypeOK
    <3>3. OwnerInv'
      BY <3>1 DEF TypeOK, OwnerInv
    <3>4. TaskInv'
      BY <3>1 DEF TypeOK, TaskInv
    <3>5. SingleSession'
      BY <3>1 DEF TypeOK, OwnerInv, TaskInv, SingleSession
    <3>6. NoCrossTalk'
      BY <3>1 DEF TypeOK, OwnerInv, TaskInv, SingleSession, NoCrossTalk
    <3>7. FailureInv'
      BY <3>1 DEF TypeOK, OwnerInv, TaskInv, SingleSession, NoCrossTalk,
         FailureInv
    <3>8. OrphanWriteOnlyAfterFailure'
      BY <3>1 DEF TypeOK, OwnerInv, TaskInv, FailureInv,
         OrphanWriteOnlyAfterFailure
    <3> QED BY <3>2, <3>3, <3>4, <3>5, <3>6, <3>7, <3>8
  <2>3. CASE writer # None
    <3>1. /\ stage = "running" /\ writer \in Clients /\ writer' = None /\ closing' = writer
          /\ conn' \in [Clients -> Conns]
          /\ conn' = [conn EXCEPT ![writer] = IF @ \in {"open", "eof"} THEN "closing" ELSE @]
          /\ stage' = "closing writer" /\ server' = FALSE
          /\ UNCHANGED <<serial, unread, session, unplugged>>
      BY <1>5, <2>3 DEF Stop, WaitServerClosed, CloseWriter, TypeOK
    <3>2. TypeOK'
      BY <3>1 DEF TypeOK
    <3>3. OwnerInv'
      BY <3>1 DEF TypeOK, OwnerInv
    <3>4. TaskInv'
      BY <3>1 DEF TypeOK, TaskInv
    <3>5. SingleSession'
      BY <3>1 DEF TypeOK, OwnerInv, TaskInv, SingleSession
    <3>6. NoCrossTalk'
      BY <3>1 DEF TypeOK, OwnerInv, TaskInv, SingleSession, NoCrossTalk
    <3>7. FailureInv'
      BY <3>1 DEF TypeOK, OwnerInv, TaskInv, SingleSession, NoCrossTalk,
         FailureInv
    <3>8. OrphanWriteOnlyAfterFailure'
      BY <3>1 DEF TypeOK, OwnerInv, TaskInv, FailureInv,
         OrphanWriteOnlyAfterFailure
    <3> QED BY <3>2, <3>3, <3>4, <3>5, <3>6, <3>7, <3>8
  <2> QED BY <2>1, <2>2, <2>3
<1>6. CASE StopWriterClosed
  BY <1>6 DEF StopWriterClosed, WaitServerClosed, TypeOK, OwnerInv, TaskInv,
     SingleSession, NoCrossTalk, FailureInv, OrphanWriteOnlyAfterFailure
<1>7. CASE StopServerClosed
  BY <1>7 DEF StopServerClosed, WaitServerClosed, TypeOK, OwnerInv, TaskInv,
     SingleSession, NoCrossTalk, FailureInv, OrphanWriteOnlyAfterFailure
<1>8. CASE StopCancelled
  BY <1>8 DEF StopCancelled, TypeOK, OwnerInv, TaskInv, SingleSession,
     NoCrossTalk, FailureInv, OrphanWriteOnlyAfterFailure
<1>9. CASE Unplug
  BY <1>9 DEF Unplug, TypeOK, OwnerInv, TaskInv, SingleSession, NoCrossTalk,
     FailureInv, OrphanWriteOnlyAfterFailure
<1> QED BY <1>1, <1>2, <1>3, <1>4, <1>5, <1>6, <1>7, <1>8, <1>9 DEF Start, Stopping

\* The peer, the transport and calls left behind preserve the invariant.
LEMMA NetworkStep ==
  ASSUME Inv, NEW c \in Clients, Peer(c) \/ TransportFlushed(c) \/ LeftBehind(c)
  PROVE  Inv'
<1> USE DEF Inv
<1>1. CASE Connect(c)
  BY <1>1 DEF Connect, TypeOK, OwnerInv, TaskInv, SingleSession, NoCrossTalk,
     FailureInv, OrphanWriteOnlyAfterFailure
<1>2. CASE ClientSendsEof(c)
  BY <1>2 DEF ClientSendsEof, TypeOK, OwnerInv, TaskInv, SingleSession,
     NoCrossTalk, FailureInv, OrphanWriteOnlyAfterFailure
<1>3. CASE ClientResets(c)
  BY <1>3 DEF ClientResets, Attached, TypeOK, OwnerInv, TaskInv, SingleSession,
     NoCrossTalk, FailureInv, OrphanWriteOnlyAfterFailure
<1>4. CASE ClientReads(c)
  BY <1>4 DEF ClientReads, TypeOK, OwnerInv, TaskInv, SingleSession,
     NoCrossTalk, FailureInv, OrphanWriteOnlyAfterFailure
<1>5. CASE TransportFlushed(c)
  BY <1>5 DEF TransportFlushed, TypeOK, OwnerInv, TaskInv, SingleSession,
     NoCrossTalk, FailureInv, OrphanWriteOnlyAfterFailure
<1>6. CASE OrphanWriteEnds(c)
  BY <1>6 DEF OrphanWriteEnds, TypeOK, OwnerInv, TaskInv, SingleSession,
     NoCrossTalk, FailureInv, OrphanWriteOnlyAfterFailure
<1>7. CASE StrayReadEnds(c)
  BY <1>7 DEF StrayReadEnds, TypeOK, OwnerInv, TaskInv, SingleSession,
     NoCrossTalk, FailureInv, OrphanWriteOnlyAfterFailure
<1> QED BY <1>1, <1>2, <1>3, <1>4, <1>5, <1>6, <1>7 DEF Peer, LeftBehind

\* _handle_client() preserves the invariant.
LEMMA HandlerStep ==
  ASSUME Inv, NEW c \in Clients, Handler(c)
  PROVE  Inv'
<1> USE DEF Inv
<1>1. CASE RejectSecondClient(c)
  <2>1. TypeOK'
    BY <1>1 DEF RejectSecondClient, CloseWriter, TypeOK
  <2>2. OwnerInv'
    BY <1>1 DEF RejectSecondClient, CloseWriter, TypeOK, OwnerInv
  <2>3. TaskInv'
    BY <1>1 DEF RejectSecondClient, CloseWriter, TypeOK, TaskInv
  <2>4. SingleSession'
    BY <1>1 DEF RejectSecondClient, CloseWriter, TypeOK, OwnerInv, TaskInv,
       SingleSession
  <2>5. NoCrossTalk'
    BY <1>1 DEF RejectSecondClient, CloseWriter, TypeOK, OwnerInv, TaskInv,
       SingleSession, NoCrossTalk
  <2>6. FailureInv'
    BY <1>1 DEF RejectSecondClient, CloseWriter, TypeOK, OwnerInv, TaskInv,
       SingleSession, NoCrossTalk, FailureInv
  <2>7. OrphanWriteOnlyAfterFailure'
    BY <1>1 DEF RejectSecondClient, CloseWriter, TypeOK, OwnerInv, TaskInv,
       FailureInv, OrphanWriteOnlyAfterFailure
  <2> QED BY <2>1, <2>2, <2>3, <2>4, <2>5, <2>6, <2>7
<1>2. CASE Serve(c)
  BY <1>2 DEF Serve, TypeOK, OwnerInv, TaskInv, SingleSession, NoCrossTalk,
     FailureInv, OrphanWriteOnlyAfterFailure
<1>3. CASE SessionEnds(c)
  <2>1. TypeOK'
    BY <1>3 DEF SessionEnds, TypeOK
  <2>2. OwnerInv'
    BY <1>3 DEF SessionEnds, TypeOK, OwnerInv, TaskInv
  <2>3. TaskInv'
    BY <1>3 DEF SessionEnds, TypeOK, TaskInv
  <2>4. SingleSession'
    BY <1>3 DEF SessionEnds, TypeOK, OwnerInv, TaskInv, SingleSession
  <2>5. NoCrossTalk'
    BY <1>3 DEF SessionEnds, TypeOK, OwnerInv, TaskInv, SingleSession,
       NoCrossTalk
  <2>6. FailureInv'
    BY <1>3 DEF SessionEnds, TypeOK, OwnerInv, TaskInv, SingleSession,
       NoCrossTalk, FailureInv
  <2>7. OrphanWriteOnlyAfterFailure'
    BY <1>3 DEF SessionEnds, TypeOK, OwnerInv, TaskInv, FailureInv,
       OrphanWriteOnlyAfterFailure
  <2> QED BY <2>1, <2>2, <2>3, <2>4, <2>5, <2>6, <2>7
<1>4. CASE CloseSession(c)
  BY <1>4 DEF CloseSession, CloseWriter, TypeOK, OwnerInv, TaskInv,
     SingleSession, NoCrossTalk, FailureInv, OrphanWriteOnlyAfterFailure
<1>5. CASE HandlerReturns(c)
  BY <1>5 DEF HandlerReturns, TypeOK, OwnerInv, TaskInv, SingleSession,
     NoCrossTalk, FailureInv, OrphanWriteOnlyAfterFailure
<1> QED BY <1>1, <1>2, <1>3, <1>4, <1>5 DEF Handler

\* _serial_to_tcp() preserves the invariant.
LEMMA SerialToTcpStep ==
  ASSUME Inv, NEW c \in Clients, SerialToTcp(c)
  PROVE  Inv'
<1> USE DEF Inv
<1>1. CASE RxStarts(c)
  <2>1. TypeOK'
    BY <1>1 DEF RxStarts, TypeOK
  <2>2. OwnerInv'
    BY <1>1 DEF RxStarts, TypeOK, OwnerInv
  <2>3. TaskInv'
    BY <1>1 DEF RxStarts, TypeOK, TaskInv
  <2>4. SingleSession'
    BY <1>1 DEF RxStarts, TypeOK, OwnerInv, TaskInv, SingleSession
  <2>5. NoCrossTalk'
    BY <1>1 DEF RxStarts, TypeOK, OwnerInv, TaskInv, SingleSession,
       NoCrossTalk
  <2>6. FailureInv'
    BY <1>1 DEF RxStarts, TypeOK, OwnerInv, TaskInv, SingleSession,
       NoCrossTalk, FailureInv
  <2>7. OrphanWriteOnlyAfterFailure'
    BY <1>1 DEF RxStarts, TypeOK, OwnerInv, TaskInv, FailureInv,
       OrphanWriteOnlyAfterFailure
  <2> QED BY <2>1, <2>2, <2>3, <2>4, <2>5, <2>6, <2>7
<1>2. CASE RxReads(c)
  BY <1>2 DEF RxReads, TypeOK, OwnerInv, TaskInv, SingleSession, NoCrossTalk,
     FailureInv, OrphanWriteOnlyAfterFailure
<1>3. CASE RxReadFails(c)
  BY <1>3 DEF RxReadFails, TypeOK, OwnerInv, TaskInv, SingleSession,
     NoCrossTalk, FailureInv, OrphanWriteOnlyAfterFailure
<1>4. CASE RxForwards(c)
  <2>1. CASE writer = None
    <3>1. /\ writer = None /\ rx[c] = "got" /\ rx' = [rx EXCEPT ![c] = "done"]
          /\ UNCHANGED <<owner, network, handler, sink, tx, source, orphans, strays, unplugged>>
      BY <1>4, <2>1 DEF RxForwards, TypeOK
    <3>2. TypeOK'
      BY <3>1 DEF TypeOK
    <3>3. OwnerInv'
      BY <3>1 DEF TypeOK, OwnerInv
    <3>4. TaskInv'
      BY <3>1 DEF TypeOK, TaskInv
    <3>5. SingleSession'
      BY <3>1 DEF TypeOK, OwnerInv, TaskInv, SingleSession
    <3>6. NoCrossTalk'
      BY <3>1 DEF TypeOK, OwnerInv, TaskInv, SingleSession, NoCrossTalk
    <3>7. FailureInv'
      BY <3>1 DEF TypeOK, OwnerInv, TaskInv, SingleSession, NoCrossTalk,
         FailureInv
    <3>8. OrphanWriteOnlyAfterFailure'
      BY <3>1 DEF TypeOK, OwnerInv, TaskInv, FailureInv,
         OrphanWriteOnlyAfterFailure
    <3> QED BY <3>2, <3>3, <3>4, <3>5, <3>6, <3>7, <3>8
  <2>2. CASE writer # None
    <3>1. /\ rx[c] = "got" /\ rx' = [rx EXCEPT ![c] = "drain"]
          /\ writer \in Clients /\ sink' = [sink EXCEPT ![c] = writer]
          /\ unread' \in SUBSET Clients
          /\ UNCHANGED <<owner, conn, handler, tx, source, orphans, strays, unplugged>>
      <4>1. writer \in Clients /\ unread \in SUBSET Clients
        BY <2>2 DEF TypeOK
      <4>2. unread' \in {unread, unread \union {writer}}
        BY <1>4, <2>2 DEF RxForwards
      <4>3. unread' \in SUBSET Clients
        BY <4>1, <4>2
      <4> QED BY <1>4, <2>2, <4>1, <4>3 DEF RxForwards
    <3>2. TypeOK'
      BY <3>1 DEF TypeOK
    <3>3. OwnerInv'
      BY <3>1 DEF TypeOK, OwnerInv
    <3>4. TaskInv'
      BY <3>1 DEF TypeOK, TaskInv
    <3>5. SingleSession'
      BY <3>1 DEF TypeOK, OwnerInv, TaskInv, SingleSession
    <3>6. NoCrossTalk'
      BY <3>1 DEF TypeOK, OwnerInv, TaskInv, SingleSession, NoCrossTalk
    <3>7. FailureInv'
      BY <3>1 DEF TypeOK, OwnerInv, TaskInv, SingleSession, NoCrossTalk,
         FailureInv
    <3>8. OrphanWriteOnlyAfterFailure'
      BY <3>1 DEF TypeOK, OwnerInv, TaskInv, FailureInv,
         OrphanWriteOnlyAfterFailure
    <3> QED BY <3>2, <3>3, <3>4, <3>5, <3>6, <3>7, <3>8
  <2> QED BY <2>1, <2>2
<1>5. CASE RxDrained(c)
  <2>1. TypeOK'
    BY <1>5 DEF RxDrained, TypeOK
  <2>2. OwnerInv'
    BY <1>5 DEF RxDrained, TypeOK, OwnerInv
  <2>3. TaskInv'
    BY <1>5 DEF RxDrained, TypeOK, TaskInv
  <2>4. SingleSession'
    BY <1>5 DEF RxDrained, TypeOK, OwnerInv, TaskInv, SingleSession
  <2>5. NoCrossTalk'
    BY <1>5 DEF RxDrained, TypeOK, OwnerInv, TaskInv, SingleSession,
       NoCrossTalk
  <2>6. FailureInv'
    BY <1>5 DEF RxDrained, TypeOK, OwnerInv, TaskInv, SingleSession,
       NoCrossTalk, FailureInv
  <2>7. OrphanWriteOnlyAfterFailure'
    BY <1>5 DEF RxDrained, TypeOK, OwnerInv, TaskInv, FailureInv,
       OrphanWriteOnlyAfterFailure
  <2> QED BY <2>1, <2>2, <2>3, <2>4, <2>5, <2>6, <2>7
<1>6. CASE RxDrainFails(c)
  <2>1. TypeOK'
    BY <1>6 DEF RxDrainFails, TypeOK
  <2>2. OwnerInv'
    BY <1>6 DEF RxDrainFails, TypeOK, OwnerInv
  <2>3. TaskInv'
    BY <1>6 DEF RxDrainFails, TypeOK, TaskInv
  <2>4. SingleSession'
    BY <1>6 DEF RxDrainFails, TypeOK, OwnerInv, TaskInv, SingleSession
  <2>5. NoCrossTalk'
    BY <1>6 DEF RxDrainFails, TypeOK, OwnerInv, TaskInv, SingleSession,
       NoCrossTalk
  <2>6. FailureInv'
    BY <1>6 DEF RxDrainFails, TypeOK, OwnerInv, TaskInv, SingleSession,
       NoCrossTalk, FailureInv
  <2>7. OrphanWriteOnlyAfterFailure'
    BY <1>6 DEF RxDrainFails, TypeOK, OwnerInv, TaskInv, FailureInv,
       OrphanWriteOnlyAfterFailure
  <2> QED BY <2>1, <2>2, <2>3, <2>4, <2>5, <2>6, <2>7
<1> QED BY <1>1, <1>2, <1>3, <1>4, <1>5, <1>6 DEF SerialToTcp

\* _tcp_to_serial() preserves the invariant.
LEMMA TcpToSerialStep ==
  ASSUME Inv, NEW c \in Clients, TcpToSerial(c)
  PROVE  Inv'
<1> USE DEF Inv
<1>1. CASE TxStarts(c)
  <2>1. CASE serial /\ ~ReaderUnavailable(c)
    <3>1. /\ tx[c] = "created" /\ tx' = [tx EXCEPT ![c] = "read"]
          /\ writer \in Clients /\ source' = [source EXCEPT ![c] = writer]
          /\ UNCHANGED <<owner, network, handler, rx, sink, orphans, strays, unplugged>>
      BY <1>1, <2>1 DEF TxStarts, ReadClient, TxEnds, ReaderUnavailable,
         TypeOK
    <3>2. TypeOK'
      BY <3>1 DEF TypeOK
    <3>3. OwnerInv'
      BY <3>1 DEF TypeOK, OwnerInv
    <3>4. TaskInv'
      BY <3>1 DEF TypeOK, TaskInv
    <3>5. SingleSession'
      BY <3>1 DEF TypeOK, OwnerInv, TaskInv, SingleSession
    <3>6. NoCrossTalk'
      BY <3>1 DEF TypeOK, OwnerInv, TaskInv, SingleSession, NoCrossTalk
    <3>7. FailureInv'
      BY <3>1 DEF TypeOK, OwnerInv, TaskInv, SingleSession, NoCrossTalk,
         FailureInv
    <3>8. OrphanWriteOnlyAfterFailure'
      BY <3>1 DEF TypeOK, OwnerInv, TaskInv, FailureInv,
         OrphanWriteOnlyAfterFailure
    <3> QED BY <3>2, <3>3, <3>4, <3>5, <3>6, <3>7, <3>8
  <2>2. CASE ~serial \/ ReaderUnavailable(c)
    <3>1. /\ tx[c] = "created" /\ tx' = [tx EXCEPT ![c] = "done"]
          /\ source' = [source EXCEPT ![c] = None]
          /\ UNCHANGED <<owner, network, handler, rx, sink, orphans, strays, unplugged>>
      BY <1>1, <2>2 DEF TxStarts, ReadClient, TxEnds, TypeOK
    <3>2. TypeOK'
      BY <3>1 DEF TypeOK
    <3>3. OwnerInv'
      BY <3>1 DEF TypeOK, OwnerInv
    <3>4. TaskInv'
      BY <3>1 DEF TypeOK, TaskInv
    <3>5. SingleSession'
      BY <3>1 DEF TypeOK, OwnerInv, TaskInv, SingleSession
    <3>6. NoCrossTalk'
      BY <3>1 DEF TypeOK, OwnerInv, TaskInv, SingleSession, NoCrossTalk
    <3>7. FailureInv'
      BY <3>1 DEF TypeOK, OwnerInv, TaskInv, SingleSession, NoCrossTalk,
         FailureInv
    <3>8. OrphanWriteOnlyAfterFailure'
      BY <3>1 DEF TypeOK, OwnerInv, TaskInv, FailureInv,
         OrphanWriteOnlyAfterFailure
    <3> QED BY <3>2, <3>3, <3>4, <3>5, <3>6, <3>7, <3>8
  <2> QED BY <2>1, <2>2
<1>2. CASE TxForwards(c)
  <2>1. CASE serial
    <3>1. /\ tx[c] = "read" /\ tx' = [tx EXCEPT ![c] = "write"]
          /\ UNCHANGED <<owner, network, handler, rx, sink, source, orphans, strays, unplugged>>
      BY <1>2, <2>1 DEF TxForwards, TxEnds, TypeOK
    <3>2. TypeOK'
      BY <3>1 DEF TypeOK
    <3>3. OwnerInv'
      BY <3>1 DEF TypeOK, OwnerInv
    <3>4. TaskInv'
      BY <3>1 DEF TypeOK, TaskInv
    <3>5. SingleSession'
      BY <3>1 DEF TypeOK, OwnerInv, TaskInv, SingleSession
    <3>6. NoCrossTalk'
      BY <3>1 DEF TypeOK, OwnerInv, TaskInv, SingleSession, NoCrossTalk
    <3>7. FailureInv'
      BY <3>1 DEF TypeOK, OwnerInv, TaskInv, SingleSession, NoCrossTalk,
         FailureInv
    <3>8. OrphanWriteOnlyAfterFailure'
      BY <3>1 DEF TypeOK, OwnerInv, TaskInv, FailureInv,
         OrphanWriteOnlyAfterFailure
    <3> QED BY <3>2, <3>3, <3>4, <3>5, <3>6, <3>7, <3>8
  <2>2. CASE ~serial
    <3>1. /\ tx[c] = "read" /\ tx' = [tx EXCEPT ![c] = "done"]
          /\ source' = [source EXCEPT ![c] = None]
          /\ UNCHANGED <<owner, network, handler, rx, sink, orphans, strays, unplugged>>
      BY <1>2, <2>2 DEF TxForwards, TxEnds, TypeOK
    <3>2. TypeOK'
      BY <3>1 DEF TypeOK
    <3>3. OwnerInv'
      BY <3>1 DEF TypeOK, OwnerInv
    <3>4. TaskInv'
      BY <3>1 DEF TypeOK, TaskInv
    <3>5. SingleSession'
      BY <3>1 DEF TypeOK, OwnerInv, TaskInv, SingleSession
    <3>6. NoCrossTalk'
      BY <3>1 DEF TypeOK, OwnerInv, TaskInv, SingleSession, NoCrossTalk
    <3>7. FailureInv'
      BY <3>1 DEF TypeOK, OwnerInv, TaskInv, SingleSession, NoCrossTalk,
         FailureInv
    <3>8. OrphanWriteOnlyAfterFailure'
      BY <3>1 DEF TypeOK, OwnerInv, TaskInv, FailureInv,
         OrphanWriteOnlyAfterFailure
    <3> QED BY <3>2, <3>3, <3>4, <3>5, <3>6, <3>7, <3>8
  <2> QED BY <2>1, <2>2
<1>3. CASE TxReadsEof(c)
  <2>1. TypeOK'
    BY <1>3 DEF TxReadsEof, TxEnds, TypeOK
  <2>2. OwnerInv'
    BY <1>3 DEF TxReadsEof, TxEnds, TypeOK, OwnerInv
  <2>3. TaskInv'
    BY <1>3 DEF TxReadsEof, TxEnds, TypeOK, TaskInv
  <2>4. SingleSession'
    BY <1>3 DEF TxReadsEof, TxEnds, TypeOK, OwnerInv, TaskInv, SingleSession
  <2>5. NoCrossTalk'
    BY <1>3 DEF TxReadsEof, TxEnds, TypeOK, OwnerInv, TaskInv, SingleSession,
       NoCrossTalk
  <2>6. FailureInv'
    BY <1>3 DEF TxReadsEof, TxEnds, TypeOK, OwnerInv, TaskInv, SingleSession,
       NoCrossTalk, FailureInv
  <2>7. OrphanWriteOnlyAfterFailure'
    BY <1>3 DEF TxReadsEof, TxEnds, TypeOK, OwnerInv, TaskInv, FailureInv,
       OrphanWriteOnlyAfterFailure
  <2> QED BY <2>1, <2>2, <2>3, <2>4, <2>5, <2>6, <2>7
<1>4. CASE TxWrites(c)
  BY <1>4 DEF TxWrites, TypeOK, OwnerInv, TaskInv, SingleSession, NoCrossTalk,
     FailureInv, OrphanWriteOnlyAfterFailure
<1>5. CASE TxWriteFails(c)
  <2>1. TypeOK'
    BY <1>5 DEF TxWriteFails, TxEnds, TypeOK
  <2>2. OwnerInv'
    BY <1>5 DEF TxWriteFails, TxEnds, TypeOK, OwnerInv
  <2>3. TaskInv'
    BY <1>5 DEF TxWriteFails, TxEnds, TypeOK, TaskInv
  <2>4. SingleSession'
    BY <1>5 DEF TxWriteFails, TxEnds, TypeOK, OwnerInv, TaskInv, SingleSession
  <2>5. NoCrossTalk'
    BY <1>5 DEF TxWriteFails, TxEnds, TypeOK, OwnerInv, TaskInv,
       SingleSession, NoCrossTalk
  <2>6. FailureInv'
    BY <1>5 DEF TxWriteFails, TxEnds, TypeOK, OwnerInv, TaskInv,
       SingleSession, NoCrossTalk, FailureInv
  <2>7. OrphanWriteOnlyAfterFailure'
    BY <1>5 DEF TxWriteFails, TxEnds, TypeOK, OwnerInv, TaskInv, FailureInv,
       OrphanWriteOnlyAfterFailure
  <2> QED BY <2>1, <2>2, <2>3, <2>4, <2>5, <2>6, <2>7
<1>6. CASE TxReadsOn(c)
  <2>1. CASE ~ReaderUnavailable(c)
    <3>1. /\ tx[c] = "wrote" /\ tx' = [tx EXCEPT ![c] = "read"]
          /\ writer \in Clients /\ source' = [source EXCEPT ![c] = writer]
          /\ UNCHANGED <<owner, network, handler, rx, sink, orphans, strays, unplugged>>
      BY <1>6, <2>1 DEF TxReadsOn, ReadClient, TxEnds, ReaderUnavailable,
         TypeOK
    <3>2. TypeOK'
      BY <3>1 DEF TypeOK
    <3>3. OwnerInv'
      BY <3>1 DEF TypeOK, OwnerInv
    <3>4. TaskInv'
      BY <3>1 DEF TypeOK, TaskInv
    <3>5. SingleSession'
      BY <3>1 DEF TypeOK, OwnerInv, TaskInv, SingleSession
    <3>6. NoCrossTalk'
      BY <3>1 DEF TypeOK, OwnerInv, TaskInv, SingleSession, NoCrossTalk
    <3>7. FailureInv'
      BY <3>1 DEF TypeOK, OwnerInv, TaskInv, SingleSession, NoCrossTalk,
         FailureInv
    <3>8. OrphanWriteOnlyAfterFailure'
      BY <3>1 DEF TypeOK, OwnerInv, TaskInv, FailureInv,
         OrphanWriteOnlyAfterFailure
    <3> QED BY <3>2, <3>3, <3>4, <3>5, <3>6, <3>7, <3>8
  <2>2. CASE ReaderUnavailable(c)
    <3>1. /\ tx[c] = "wrote" /\ tx' = [tx EXCEPT ![c] = "done"]
          /\ source' = [source EXCEPT ![c] = None]
          /\ UNCHANGED <<owner, network, handler, rx, sink, orphans, strays, unplugged>>
      BY <1>6, <2>2 DEF TxReadsOn, ReadClient, TxEnds, TypeOK
    <3>2. TypeOK'
      BY <3>1 DEF TypeOK
    <3>3. OwnerInv'
      BY <3>1 DEF TypeOK, OwnerInv
    <3>4. TaskInv'
      BY <3>1 DEF TypeOK, TaskInv
    <3>5. SingleSession'
      BY <3>1 DEF TypeOK, OwnerInv, TaskInv, SingleSession
    <3>6. NoCrossTalk'
      BY <3>1 DEF TypeOK, OwnerInv, TaskInv, SingleSession, NoCrossTalk
    <3>7. FailureInv'
      BY <3>1 DEF TypeOK, OwnerInv, TaskInv, SingleSession, NoCrossTalk,
         FailureInv
    <3>8. OrphanWriteOnlyAfterFailure'
      BY <3>1 DEF TypeOK, OwnerInv, TaskInv, FailureInv,
         OrphanWriteOnlyAfterFailure
    <3> QED BY <3>2, <3>3, <3>4, <3>5, <3>6, <3>7, <3>8
  <2> QED BY <2>1, <2>2
<1> QED BY <1>1, <1>2, <1>3, <1>4, <1>5, <1>6 DEF TcpToSerial

\* Inv is inductive.
LEMMA InductiveStep == Inv /\ [Next]_vars => Inv'
<1> SUFFICES ASSUME Inv, [Next]_vars
             PROVE  Inv'
  OBVIOUS
<1>1. CASE Start \/ Stopping \/ Unplug
  BY <1>1, OwnerStep
<1>2. ASSUME NEW c \in Clients, Peer(c) \/ TransportFlushed(c) \/ LeftBehind(c)
      PROVE  Inv'
  BY <1>2, NetworkStep
<1>3. ASSUME NEW c \in Clients, Handler(c) PROVE Inv'
  BY <1>3, HandlerStep
<1>4. ASSUME NEW c \in Clients, SerialToTcp(c) PROVE Inv'
  BY <1>4, SerialToTcpStep
<1>5. ASSUME NEW c \in Clients, TcpToSerial(c) PROVE Inv'
  BY <1>5, TcpToSerialStep
<1>6. CASE UNCHANGED vars
  BY <1>6 DEF vars, Inv, TypeOK, OwnerInv, TaskInv, SingleSession, NoCrossTalk, FailureInv,
              OrphanWriteOnlyAfterFailure
<1> QED BY <1>1, <1>2, <1>3, <1>4, <1>5, <1>6 DEF Next

\* The inductive invariant holds in every reachable state.
THEOREM Invariance == Spec => []Inv
  BY InitInv, InductiveStep, PTL DEF Spec

\* Every variable keeps its type.
THEOREM TypeCorrect == Spec => []TypeOK
<1>1. Inv => TypeOK
  BY DEF Inv
<1> QED BY <1>1, Invariance, PTL

\* Until stop(), the slot and the live session always belong to the same client.
THEOREM SingleSessionHolds == Spec => []SingleSession
<1>1. Inv => SingleSession
  BY DEF Inv
<1> QED BY <1>1, Invariance, PTL

\* Until stop(), no session moves bytes of, or to, another client.
THEOREM NoCrossTalkHolds == Spec => []NoCrossTalk
<1>1. Inv => NoCrossTalk
  BY DEF Inv
<1> QED BY <1>1, Invariance, PTL

\* Until stop(), only a failed session leaves a write behind on its thread.
THEOREM OrphanWritesExplained == Spec => []OrphanWriteOnlyAfterFailure
<1>1. Inv => OrphanWriteOnlyAfterFailure
  BY DEF Inv
<1> QED BY <1>1, Invariance, PTL

\* The port is open whenever clients can connect; neither survives stop() or a
\* failed start().
THEOREM HardwareFollowsServerHolds == Spec => []HardwareFollowsServer
<1>1. Inv => HardwareFollowsServer
  BY DEF Inv, OwnerInv, HardwareFollowsServer
<1> QED BY <1>1, Invariance, PTL

----------------------------------------------------------------------------
(* The server keeps the promise of ExclusiveBridge                          *)

\* In a running server only the client that holds the slot can be a user.
LEMMA OnlyTheSlotHolder ==
  ASSUME Inv, stage = "running", NEW c \in Clients, c \in Users
  PROVE  writer = c
  BY DEF Inv, TypeOK, TaskInv, SingleSession, Users

\* What the promise sees of the hardware and the connections.
Around == <<Lost, unplugged, strays, orphans>>

\* A step of the session tasks of one client is a Join, a Leave or a stutter of
\* the promise, as long as a new user finds the port open and, in a running
\* server, nobody else there.
LEMMA OneClientMoves ==
  ASSUME TypeOK, NEW c \in Clients,
         \A d \in Clients \ {c} : rx'[d] = rx[d] /\ tx'[d] = tx[d],
         stage' = stage, serial' = serial, UNCHANGED Around,
         c \in Users' /\ c \notin Users =>
           serial /\ (stage = "running" => Users = {})
  PROVE  [Bridge!Next]_(Bridge!vars)
<1> USE DEF Around, Bridge!server, Bridge!world, Bridge!left
<1>1. Life' = Life
  BY DEF Life
<1>2. \A d \in Clients \ {c} : d \in Users' <=> d \in Users
  BY DEF Users
<1>3. Users \subseteq Clients /\ Users' \subseteq Clients
  BY DEF Users
<1>4. CASE c \in Users <=> c \in Users'
  <2>1. Users' = Users
    BY <1>2, <1>3, <1>4
  <2> QED BY <1>1, <2>1 DEF Bridge!vars
<1>5. CASE c \in Users /\ c \notin Users'
  <2>1. Users' = Users \ {c}
    BY <1>2, <1>3, <1>5
  <2>2. Bridge!Leave(c)
    BY <1>1, <1>5, <2>1 DEF Bridge!Leave
  <2> QED BY <2>2 DEF Bridge!Next
<1>6. CASE c \notin Users /\ c \in Users'
  <2>1. Users' = Users \union {c}
    BY <1>2, <1>3, <1>6
  <2>2. Life = "running" => Users = {}
    BY <1>6 DEF Life, TypeOK
  <2>3. Bridge!Join(c)
    BY <1>1, <1>6, <2>1, <2>2 DEF Bridge!Join
  <2> QED BY <2>3 DEF Bridge!Next
<1> QED BY <1>4, <1>5, <1>6

\* Closing a writer loses no connection yet.
LEMMA ClosingLosesNone ==
  ASSUME TypeOK, NEW c \in Clients, CloseWriter(c)
  PROVE  Lost' = Lost
  BY DEF CloseWriter, TypeOK, Lost

\* Every step of the owner is one of the promise, or invisible in it.
LEMMA OwnerRefines ==
  ASSUME Inv, Start \/ Stopping \/ Unplug
  PROVE  [Bridge!Next]_(Bridge!vars)
<1> USE DEF Bridge!vars, Bridge!Next, Bridge!server, Bridge!world, Bridge!left
<1>1. Users' = Users /\ strays' = strays /\ orphans' = orphans
  BY DEF Start, Stopping, OpenSerial, OpenSerialFails, Listen, ListenFails, Stop,
         StopWriterClosed, StopServerClosed, StopCancelled, Unplug, Users
<1>2. CASE OpenSerial
  BY <1>1, <1>2 DEF OpenSerial, Life, Lost, Bridge!Open
<1>3. CASE OpenSerialFails \/ ListenFails
  BY <1>1, <1>3 DEF OpenSerialFails, ListenFails, Life, Lost, Bridge!Fail
<1>4. CASE Listen
  BY <1>1, <1>4 DEF Listen, Life, Lost, Bridge!Up
<1>5. CASE Stop
  <2>1. \/ stage' = "stopped" /\ serial' = FALSE
        \/ stage' \in {"closing writer", "wait closed"} /\ serial' = serial
    BY <1>5 DEF Stop, WaitServerClosed
  <2>2. Lost' = Lost
    <3>1. CASE writer = None
      BY <1>5, <3>1 DEF Stop, Lost
    <3>2. CASE writer # None
      BY <1>5, <3>2, ClosingLosesNone DEF Stop, Inv, TypeOK
    <3> QED BY <3>1, <3>2
  <2> QED BY <1>1, <1>5, <2>1, <2>2 DEF Stop, Life, Bridge!BeginStop, Bridge!Release
<1>6. CASE StopWriterClosed \/ StopServerClosed \/ StopCancelled
  <2>1. /\ stage \in {"closing writer", "wait closed"}
        /\ \/ stage' = "stopped" /\ serial' = FALSE
           \/ stage' = "wait closed" /\ serial' = serial
        /\ Lost' = Lost /\ unplugged' = unplugged
    BY <1>6 DEF StopWriterClosed, StopServerClosed, StopCancelled, WaitServerClosed, Lost
  <2> QED BY <1>1, <2>1 DEF Life, Bridge!Release
<1>7. CASE Unplug
  BY <1>1, <1>7 DEF Unplug, Life, Lost, Bridge!Break
<1> QED BY <1>2, <1>3, <1>4, <1>5, <1>6, <1>7 DEF Start, Stopping

\* The network only loses connections, and calls left behind only end.
LEMMA NetworkRefines ==
  ASSUME Inv, NEW c \in Clients, Peer(c) \/ TransportFlushed(c) \/ LeftBehind(c)
  PROVE  [Bridge!Next]_(Bridge!vars)
<1> USE DEF Bridge!vars, Bridge!Next, Bridge!server, Bridge!world, Bridge!left
<1>1. Users' = Users /\ Life' = Life /\ serial' = serial /\ unplugged' = unplugged
  BY DEF Peer, Connect, ClientSendsEof, ClientResets, ClientReads, TransportFlushed,
         LeftBehind, OrphanWriteEnds, StrayReadEnds, Users, Life
<1>2. TypeOK
  BY DEF Inv
<1>3. CASE Connect(c) \/ ClientSendsEof(c) \/ ClientReads(c)
  <2>1. Lost' = Lost /\ strays' = strays /\ orphans' = orphans
    BY <1>2, <1>3 DEF Connect, ClientSendsEof, ClientReads, TypeOK, Lost
  <2> QED BY <1>1, <2>1
<1>4. CASE ClientResets(c) \/ TransportFlushed(c)
  <2>1. Lost' = Lost \union {c} /\ strays' = strays /\ orphans' = orphans
    <3>1. conn' = [conn EXCEPT ![c] = "lost"] /\ UNCHANGED session
      BY <1>4 DEF ClientResets, TransportFlushed
    <3>2. \A d \in Clients : conn'[d] = "lost" <=> conn[d] = "lost" \/ d = c
      BY <1>2, <3>1 DEF TypeOK
    <3> QED BY <3>1, <3>2 DEF Lost
  <2> QED BY <1>1, <2>1 DEF Bridge!Lose
<1>5. CASE OrphanWriteEnds(c)
  BY <1>1, <1>5 DEF OrphanWriteEnds, Lost, Bridge!Finish
<1>6. CASE StrayReadEnds(c)
  BY <1>1, <1>6 DEF StrayReadEnds, Lost, Bridge!Finish
<1> QED BY <1>3, <1>4, <1>5, <1>6 DEF Peer, LeftBehind

\* The end of a session is a Leave, which leaves behind the call a thread is in: a write
\* only if the other task has ended first, by a reset or a failed device.
LEMMA SessionEndRefines ==
  ASSUME Inv, NEW c \in Clients, SessionEnds(c)
  PROVE  [Bridge!Next]_(Bridge!vars)
<1> USE DEF Inv, SessionEnds
<1>1. /\ Life' = Life /\ serial' = serial
      /\ Lost' = Lost /\ unplugged' = unplugged
  BY DEF Life, Lost
<1>2. Users' = Users \ {c}
  BY DEF TypeOK, Users
<1>3. CASE c \in Users
  <2>1. \/ strays' = strays /\ orphans' = orphans
        \/ strays' = strays \union {c} /\ orphans' = orphans
        \/ /\ orphans' = orphans \union {c} /\ strays' = strays
           /\ tx[c] = "write" /\ rx[c] = "done"
    OBVIOUS
  <2>2. ASSUME rx[c] = "done", Life = "running" PROVE unplugged \/ c \in Lost
    BY <2>2 DEF TypeOK, FailureInv, Life, Lost
  <2>3. Bridge!Leave(c)
    BY <1>1, <1>2, <1>3, <2>1, <2>2
       DEF Bridge!Leave, Bridge!server, Bridge!world, Bridge!left
  <2> QED BY <2>3 DEF Bridge!Next
<1>4. CASE c \notin Users
  <2>1. strays' = strays /\ orphans' = orphans
    BY <1>4 DEF Users
  <2>2. Users' = Users
    BY <1>2, <1>4
  <2> QED BY <1>1, <2>1, <2>2 DEF Bridge!vars
<1> QED BY <1>3, <1>4

\* The other steps of the handler are invisible in the promise.
LEMMA HandlerRefines ==
  ASSUME Inv, NEW c \in Clients, Handler(c)
  PROVE  [Bridge!Next]_(Bridge!vars)
<1>1. TypeOK
  BY DEF Inv
<1>2. CASE SessionEnds(c)
  BY <1>2, SessionEndRefines
<1>3. CASE RejectSecondClient(c) \/ Serve(c) \/ CloseSession(c) \/ HandlerReturns(c)
  <2>1. stage' = stage /\ serial' = serial /\ unplugged' = unplugged
        /\ strays' = strays /\ orphans' = orphans
    BY <1>3 DEF RejectSecondClient, Serve, CloseSession, HandlerReturns
  <2>2. Lost' = Lost
    BY <1>1, <1>3, ClosingLosesNone
       DEF RejectSecondClient, Serve, CloseSession, HandlerReturns, Lost
  <2>3. \A d \in Clients \ {c} : rx'[d] = rx[d] /\ tx'[d] = tx[d]
    BY <1>1, <1>3 DEF TypeOK, RejectSecondClient, Serve, CloseSession, HandlerReturns
  <2>4. c \in Users' => c \in Users
    BY <1>1, <1>3 DEF TypeOK, Users, RejectSecondClient, Serve, CloseSession, HandlerReturns
  <2> QED BY <1>1, <2>1, <2>2, <2>3, <2>4, OneClientMoves DEF Around
<1> QED BY <1>2, <1>3 DEF Handler

\* A session task makes its client a user only with the port open and, while the
\* server runs, only as the one client of the slot.
LEMMA TasksRefine ==
  ASSUME Inv, NEW c \in Clients, SerialToTcp(c) \/ TcpToSerial(c)
  PROVE  [Bridge!Next]_(Bridge!vars)
<1>1. TypeOK /\ TaskInv /\ SingleSession
  BY DEF Inv
<1> USE DEF SerialToTcp, RxStarts, RxReads, RxReadFails, RxForwards, RxDrained, RxDrainFails,
            TcpToSerial, TxStarts, TxForwards, TxReadsEof, TxWrites, TxWriteFails, TxReadsOn,
            ReadClient, TxEnds
<1>2. stage' = stage /\ serial' = serial /\ UNCHANGED Around
  BY DEF Around, Lost
<1>3. \A d \in Clients \ {c} : rx'[d] = rx[d] /\ tx'[d] = tx[d]
  BY <1>1 DEF TypeOK
<1>4. ASSUME c \in Users', c \notin Users
      PROVE  serial /\ (stage = "running" => Users = {})
  <2>1. RxStarts(c) \/ TxStarts(c)
    BY <1>1, <1>4 DEF TypeOK, Users
  <2>2. serial
    BY <1>1, <1>4, <2>1 DEF TypeOK, Users
  <2>3. handler[c] = "serving"
    BY <1>1, <2>1 DEF TypeOK, TaskInv
  <2>4. ASSUME stage = "running" PROVE Users = {}
    <3>1. writer = c
      BY <1>1, <2>3, <2>4 DEF SingleSession
    <3>2. \A d \in Users : d = c
      BY <2>4, <3>1, OnlyTheSlotHolder DEF Users
    <3> QED BY <1>4, <3>2
  <2> QED BY <2>2, <2>4
<1> QED BY <1>1, <1>2, <1>3, <1>4, OneClientMoves

\* SerialOverTcpServer implements ExclusiveBridge: one client at a time is served, and
\* beside it only the calls end that earlier ones have left behind, writes only of clients
\* that failed (_handle_client, run_in_executor).
THEOREM BridgeImplemented == Spec => ImplementsBridge
<1>1. Init => Bridge!Init
  BY DEF Init, Bridge!Init, Life, Users, Lost
<1>2. Inv /\ [Next]_vars => [Bridge!Next]_(Bridge!vars)
  <2> SUFFICES ASSUME Inv, [Next]_vars
               PROVE  [Bridge!Next]_(Bridge!vars)
    OBVIOUS
  <2>1. CASE Start \/ Stopping \/ Unplug
    BY <2>1, OwnerRefines
  <2>2. ASSUME NEW c \in Clients,
               Peer(c) \/ TransportFlushed(c) \/ LeftBehind(c) \/ Handler(c)
        PROVE  [Bridge!Next]_(Bridge!vars)
    BY <2>2, NetworkRefines, HandlerRefines
  <2>3. ASSUME NEW c \in Clients, SerialToTcp(c) \/ TcpToSerial(c)
        PROVE  [Bridge!Next]_(Bridge!vars)
    BY <2>3, TasksRefine
  <2>4. CASE UNCHANGED vars
    BY <2>4 DEF vars, Bridge!vars, Life, Users, Lost
  <2> QED BY <2>1, <2>2, <2>3, <2>4 DEF Next
<1> QED BY <1>1, <1>2, Invariance, PTL DEF Spec, ImplementsBridge, Bridge!Spec

=============================================================================
