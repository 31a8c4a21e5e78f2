---------------------------- MODULE SerialServer ----------------------------
(***************************************************************************)
(* SerialOverTcpServer (src/portbridge/serial_server.py): one serial       *)
(* device, one listening socket, one TCP client at a time.                 *)
(*                                                                         *)
(* An action is what one coroutine does between two awaits on the event    *)
(* loop.  start() and stop() are run by the program that owns the server;  *)
(* every connection c has a handler task (_handle_client) and, when it is  *)
(* the active one, two session tasks, _serial_to_tcp and _tcp_to_serial,   *)
(* whose blocking serial calls run on executor threads.                    *)
(*                                                                         *)
(* Abstracted: the bytes themselves (a transfer is recorded by who it came *)
(* from and who it goes to); logging; the loop iteration between cancel()  *)
(* and the CancelledError reaching a session task, which runs no code.     *)
(***************************************************************************)
EXTENDS FiniteSets

CONSTANTS Clients,          \* the TCP connections that may be made
          None,             \* Python's None
          WaitsForClients   \* asyncio's Server.wait_closed() waits for attached
                            \* transports (Python 3.12.1 and later)

ASSUME ClientsAssumption == IsFiniteSet(Clients) /\ None \notin Clients
ASSUME WaitsAssumption == WaitsForClients \in BOOLEAN

VARIABLES
  stage,      \* how far the owner's start() or stop() has come
  serial,     \* self._serial is an open port
  server,     \* self._server is listening
  writer,     \* self._writer (self._reader is always of the same client)
  closing,    \* the client whose writer stop() is closing
  conn,       \* [Clients -> state of the connection's transport]
  unread,     \* the clients with bytes in the transport's write buffer
  handler,    \* [Clients -> where _handle_client is]
  rx,         \* [Clients -> where its _serial_to_tcp task is]
  sink,       \* [Clients -> the client _serial_to_tcp last wrote to]
  tx,         \* [Clients -> where its _tcp_to_serial task is]
  source,     \* [Clients -> the client whose bytes _tcp_to_serial handles]
  orphans,    \* sessions whose serial.write outlived the task that asked for it
  strays,     \* sessions whose serial.read did
  unplugged   \* the device fails every read and write from now on

owner   == <<stage, serial, server, writer, closing>>
network == <<conn, unread>>
session == <<handler, rx, sink, tx, source, orphans, strays>>
vars    == <<stage, serial, server, writer, closing, conn, unread,
             handler, rx, sink, tx, source, orphans, strays, unplugged>>

Stages   == {"new", "opening", "running", "closing writer", "wait closed",
             "stopped", "failed"}
\* "eof": the peer has finished sending and the reader holds nothing but EOF
Conns    == {"out", "open", "eof", "closing", "lost"}
Handlers == {"none", "ready", "rejecting", "serving", "draining", "closing", "done"}
\* "read", "write": a thread is in the serial call; "got", "wrote": it has
\* succeeded and the task has not resumed
RxSteps  == {"none", "created", "read", "got", "drain", "done"}
TxSteps  == {"none", "created", "read", "write", "wrote", "done"}

TypeOK ==
  /\ stage \in Stages
  /\ serial \in BOOLEAN
  /\ server \in BOOLEAN
  /\ writer \in Clients \union {None}
  /\ closing \in Clients \union {None}
  /\ conn \in [Clients -> Conns]
  /\ unread \in SUBSET Clients
  /\ handler \in [Clients -> Handlers]
  /\ rx \in [Clients -> RxSteps]
  /\ sink \in [Clients -> Clients \union {None}]
  /\ tx \in [Clients -> TxSteps]
  /\ source \in [Clients -> Clients \union {None}]
  /\ orphans \in SUBSET Clients
  /\ strays \in SUBSET Clients
  /\ unplugged \in BOOLEAN

Init ==
  /\ stage = "new"
  /\ serial = FALSE
  /\ server = FALSE
  /\ writer = None
  /\ closing = None
  /\ conn = [c \in Clients |-> "out"]
  /\ unread = {}
  /\ handler = [c \in Clients |-> "none"]
  /\ rx = [c \in Clients |-> "none"]
  /\ sink = [c \in Clients |-> None]
  /\ tx = [c \in Clients |-> "none"]
  /\ source = [c \in Clients |-> None]
  /\ orphans = {}
  /\ strays = {}
  /\ unplugged = FALSE

----------------------------------------------------------------------------
(* asyncio transports, as far as the server uses them                      *)

Attached(c) == conn[c] \in {"open", "eof", "closing"}

\* Mutant: the slot is given up whoever holds it.
CloseWriterOfAnyone(c) ==
  /\ writer' = None
  /\ conn' = [conn EXCEPT ![c] = IF @ \in {"open", "eof"} THEN "closing" ELSE @]

\* _close_writer(c's writer) up to its await: the slot is given up if it is
\* still c's; the transport stops reading and is lost once it is flushed.
CloseWriter(c) ==
  /\ writer' = IF writer = c THEN None ELSE writer
  /\ conn' = [conn EXCEPT ![c] = IF @ \in {"open", "eof"} THEN "closing" ELSE @]

\* The listening socket accepts a connection; its handler task is created and
\* has not run yet.
Connect(c) ==
  /\ server
  /\ conn[c] = "out"
  /\ conn' = [conn EXCEPT ![c] = "open"]
  /\ handler' = [handler EXCEPT ![c] = "ready"]
  /\ UNCHANGED <<owner, unread, rx, sink, tx, source, orphans, strays, unplugged>>

ClientSendsEof(c) ==
  /\ conn[c] = "open"
  /\ conn' = [conn EXCEPT ![c] = "eof"]
  /\ UNCHANGED <<owner, unread, session, unplugged>>

ClientResets(c) ==
  /\ Attached(c)
  /\ conn' = [conn EXCEPT ![c] = "lost"]
  /\ unread' = unread \ {c}
  /\ UNCHANGED <<owner, session, unplugged>>

ClientReads(c) ==
  /\ c \in unread
  /\ unread' = unread \ {c}
  /\ UNCHANGED <<owner, conn, session, unplugged>>

\* connection_lost() after close(): only once the write buffer is flushed.
TransportFlushed(c) ==
  /\ conn[c] = "closing"
  /\ c \notin unread
  /\ conn' = [conn EXCEPT ![c] = "lost"]
  /\ UNCHANGED <<owner, unread, session, unplugged>>

\* The device fails for good.  (Not modelled: one call fails and the next ones do not.)
Unplug ==
  /\ serial
  /\ ~unplugged
  /\ unplugged' = TRUE
  /\ UNCHANGED <<owner, network, session>>

----------------------------------------------------------------------------
(* start()                                                                 *)

OpenSerial ==
  /\ stage = "new"
  /\ stage' = "opening"
  /\ serial' = TRUE
  /\ UNCHANGED <<server, writer, closing, network, session, unplugged>>

\* The factory or reset_input_buffer() raises: HardwareUnavailableError.
OpenSerialFails ==
  /\ stage = "new"
  /\ stage' = "failed"
  /\ serial' = FALSE
  /\ UNCHANGED <<server, writer, closing, network, session, unplugged>>

Listen ==
  /\ stage = "opening"
  /\ stage' = "running"
  /\ server' = TRUE
  /\ UNCHANGED <<serial, writer, closing, network, session, unplugged>>

\* Mutant: only an OSError closes the port again, a cancellation does not.
ListenFailsOpen ==
  /\ stage = "opening"
  /\ stage' = "failed"
  /\ serial' \in {TRUE, FALSE}
  /\ UNCHANGED <<server, writer, closing, network, session, unplugged>>

\* start_server raises, or start() is cancelled while it awaits it: both except
\* clauses close the port before they raise.
ListenFails ==
  /\ stage = "opening"
  /\ stage' = "failed"
  /\ serial' = FALSE
  /\ UNCHANGED <<server, writer, closing, network, session, unplugged>>

----------------------------------------------------------------------------
(* _handle_client()                                                        *)

RejectSecondClient(c) ==
  /\ handler[c] = "ready"
  /\ writer # None
  /\ handler' = [handler EXCEPT ![c] = "rejecting"]
  /\ CloseWriter(c)
  /\ UNCHANGED <<stage, serial, server, closing, unread, rx, sink, tx, source,
                 orphans, strays, unplugged>>

\* Mutant: the second client is not turned away.
ServeSecondClient(c) ==
  /\ handler[c] = "ready"
  /\ writer' = c
  /\ handler' = [handler EXCEPT ![c] = "serving"]
  /\ rx' = [rx EXCEPT ![c] = "created"]
  /\ tx' = [tx EXCEPT ![c] = "created"]
  /\ UNCHANGED <<stage, serial, server, closing, network, sink, source, orphans, strays,
                 unplugged>>

Serve(c) ==
  /\ handler[c] = "ready"
  /\ writer = None
  /\ writer' = c
  /\ handler' = [handler EXCEPT ![c] = "serving"]
  /\ rx' = [rx EXCEPT ![c] = "created"]
  /\ tx' = [tx EXCEPT ![c] = "created"]
  /\ UNCHANGED <<stage, serial, server, closing, network, sink, source, orphans, strays,
                 unplugged>>

\* Mutant: the finally clause does not cancel the other task.
SessionEndsUncancelled(c) ==
  /\ handler[c] = "serving"
  /\ rx[c] = "done" \/ tx[c] = "done"
  /\ handler' = [handler EXCEPT ![c] = "draining"]
  /\ UNCHANGED <<owner, network, rx, tx, sink, source, orphans, strays, unplugged>>

\* Mutant: asyncio.wait returns only when both tasks are done.
SessionEndsWhenBothAreDone(c) ==
  /\ handler[c] = "serving"
  /\ rx[c] = "done" /\ tx[c] = "done"
  /\ handler' = [handler EXCEPT ![c] = "draining"]
  /\ UNCHANGED <<owner, network, rx, tx, sink, source, orphans, strays, unplugged>>

\* asyncio.wait returns with one task done (returned or raised, both are only
\* logged); the finally clause cancels the other.  Cancelling the future of a
\* serial.read or serial.write does not stop the thread that executes it.
SessionEnds(c) ==
  /\ handler[c] = "serving"
  /\ rx[c] = "done" \/ tx[c] = "done"
  /\ handler' = [handler EXCEPT ![c] = "draining"]
  /\ rx' = [rx EXCEPT ![c] = "done"]
  /\ tx' = [tx EXCEPT ![c] = "done"]
  /\ sink' = [sink EXCEPT ![c] = None]
  /\ source' = [source EXCEPT ![c] = None]
  /\ orphans' = IF tx[c] = "write" THEN orphans \union {c} ELSE orphans
  /\ strays' = IF rx[c] = "read" THEN strays \union {c} ELSE strays
  /\ UNCHANGED <<owner, network, unplugged>>

\* gather() has returned: both tasks have ended.
CloseSession(c) ==
  /\ handler[c] = "draining"
  /\ handler' = [handler EXCEPT ![c] = "closing"]
  /\ CloseWriter(c)
  /\ UNCHANGED <<stage, serial, server, closing, unread, rx, sink, tx, source,
                 orphans, strays, unplugged>>

\* await writer.wait_closed() returns.
HandlerReturns(c) ==
  /\ handler[c] \in {"rejecting", "closing"}
  /\ conn[c] = "lost"
  /\ handler' = [handler EXCEPT ![c] = "done"]
  /\ UNCHANGED <<owner, network, rx, sink, tx, source, orphans, strays, unplugged>>

----------------------------------------------------------------------------
(* _serial_to_tcp()                                                        *)

\* The two assertions, then the first read is given to the executor.
RxStarts(c) ==
  /\ rx[c] = "created"
  /\ rx' = [rx EXCEPT ![c] = IF serial /\ writer # None THEN "read" ELSE "done"]
  /\ UNCHANGED <<owner, network, handler, sink, tx, source, orphans, strays, unplugged>>

\* The read raises: the port was closed meanwhile, or the device is gone.
RxReadFails(c) ==
  /\ rx[c] = "read"
  /\ ~serial \/ unplugged
  /\ rx' = [rx EXCEPT ![c] = "done"]
  /\ UNCHANGED <<owner, network, handler, sink, tx, source, orphans, strays, unplugged>>

\* Mutant: a read that times out empty ends the task, as an EOF would.
RxReadsOrTimesOut(c) ==
  /\ rx[c] = "read"
  /\ serial
  /\ ~unplugged
  /\ rx' = [rx EXCEPT ![c] = "done"]
  /\ UNCHANGED <<owner, network, handler, sink, tx, source, orphans, strays, unplugged>>

\* The device had bytes.  (A read that times out empty changes nothing: the loop
\* reads again.)
RxReads(c) ==
  /\ rx[c] = "read"
  /\ serial
  /\ ~unplugged
  /\ rx' = [rx EXCEPT ![c] = "got"]
  /\ UNCHANGED <<owner, network, handler, sink, tx, source, orphans, strays, unplugged>>

\* They go to whoever self._writer is by now: None raises, a lost transport drops
\* them, a live one sends them or keeps them buffered.
RxForwards(c) ==
  /\ rx[c] = "got"
  /\ IF writer = None
     THEN /\ rx' = [rx EXCEPT ![c] = "done"]
          /\ UNCHANGED <<unread, sink>>
     ELSE /\ rx' = [rx EXCEPT ![c] = "drain"]
          /\ sink' = [sink EXCEPT ![c] = writer]
          /\ unread' \in {unread, unread \union {writer}}
          /\ conn[writer] = "lost" => unread' = unread
  /\ UNCHANGED <<owner, conn, handler, tx, source, orphans, strays, unplugged>>

\* drain() returns: nothing is buffered, or less than the high-water mark.
RxDrained(c) ==
  /\ rx[c] = "drain"
  /\ conn[sink[c]] # "lost"
  /\ rx' = [rx EXCEPT ![c] = "read"]
  /\ sink' = [sink EXCEPT ![c] = None]
  /\ UNCHANGED <<owner, network, handler, tx, source, orphans, strays, unplugged>>

\* drain() raises ConnectionResetError.
RxDrainFails(c) ==
  /\ rx[c] = "drain"
  /\ conn[sink[c]] = "lost"
  /\ rx' = [rx EXCEPT ![c] = "done"]
  /\ sink' = [sink EXCEPT ![c] = None]
  /\ UNCHANGED <<owner, network, handler, tx, source, orphans, strays, unplugged>>

----------------------------------------------------------------------------
(* _tcp_to_serial()                                                        *)

\* self._reader is None, or another task already waits on the same reader.
ReaderUnavailable(c) ==
  \/ writer = None
  \/ \E d \in Clients \ {c} : tx[d] = "read" /\ source[d] = writer

TxEnds(c) ==
  /\ tx' = [tx EXCEPT ![c] = "done"]
  /\ source' = [source EXCEPT ![c] = None]

\* self._reader.read(): raises when it cannot wait.
ReadClient(c) ==
  IF ReaderUnavailable(c)
  THEN TxEnds(c)
  ELSE /\ tx' = [tx EXCEPT ![c] = "read"]
       /\ source' = [source EXCEPT ![c] = writer]

TxStarts(c) ==
  /\ tx[c] = "created"
  /\ IF serial THEN ReadClient(c) ELSE TxEnds(c)
  /\ UNCHANGED <<owner, network, handler, rx, sink, orphans, strays, unplugged>>

\* The client's bytes, which may have come just before stop() closed its writer, go
\* to an executor thread; a closed port is None by now.
TxForwards(c) ==
  /\ tx[c] = "read"
  /\ conn[source[c]] \in {"open", "closing"}
  /\ IF serial
     THEN /\ tx' = [tx EXCEPT ![c] = "write"]
          /\ UNCHANGED source
     ELSE TxEnds(c)
  /\ UNCHANGED <<owner, network, handler, rx, sink, orphans, strays, unplugged>>

\* Mutant: only a reset ends the loop, an EOF does not.
TxReadsReset(c) ==
  /\ tx[c] = "read"
  /\ conn[source[c]] = "lost"
  /\ TxEnds(c)
  /\ UNCHANGED <<owner, network, handler, rx, sink, orphans, strays, unplugged>>

\* read() returns b"" after an EOF or an orderly close, and raises after a reset.
TxReadsEof(c) ==
  /\ tx[c] = "read"
  /\ conn[source[c]] \in {"eof", "lost"}
  /\ TxEnds(c)
  /\ UNCHANGED <<owner, network, handler, rx, sink, orphans, strays, unplugged>>

TxWrites(c) ==
  /\ tx[c] = "write"
  /\ serial
  /\ ~unplugged
  /\ tx' = [tx EXCEPT ![c] = "wrote"]
  /\ UNCHANGED <<owner, network, handler, rx, sink, source, orphans, strays, unplugged>>

\* serial.write raises: the port was closed meanwhile, or the device is gone.
TxWriteFails(c) ==
  /\ tx[c] = "write"
  /\ ~serial \/ unplugged
  /\ TxEnds(c)
  /\ UNCHANGED <<owner, network, handler, rx, sink, orphans, strays, unplugged>>

TxReadsOn(c) ==
  /\ tx[c] = "wrote"
  /\ ReadClient(c)
  /\ UNCHANGED <<owner, network, handler, rx, sink, orphans, strays, unplugged>>

OrphanWriteEnds(c) ==
  /\ c \in orphans
  /\ orphans' = orphans \ {c}
  /\ UNCHANGED <<owner, network, handler, rx, sink, tx, source, strays, unplugged>>

\* What it has read, of what the device meant for the next client perhaps, is lost.
StrayReadEnds(c) ==
  /\ c \in strays
  /\ strays' = strays \ {c}
  /\ UNCHANGED <<owner, network, handler, rx, sink, tx, source, orphans, unplugged>>

LeftBehind(c) == OrphanWriteEnds(c) \/ StrayReadEnds(c)

----------------------------------------------------------------------------
(* stop()                                                                  *)

\* server.wait_closed() has nothing to wait for.
Detached(cn) == WaitsForClients =>
                  \A c \in Clients : cn[c] \notin {"open", "eof", "closing"}

\* The rest of stop() once the writer is closed: wait_closed(), then the finally
\* clause.
WaitServerClosed ==
  IF Detached(conn)
  THEN stage' = "stopped" /\ serial' = FALSE
  ELSE stage' = "wait closed" /\ UNCHANGED serial

\* Mutant: stop() waits for the active client instead of closing its writer.
StopPolitely ==
  /\ stage = "running"
  /\ server' = FALSE
  /\ IF writer = None
     THEN /\ WaitServerClosed
          /\ UNCHANGED <<writer, closing, conn>>
     ELSE /\ stage' = "closing writer"
          /\ closing' = writer
          /\ UNCHANGED <<serial, writer, conn>>
  /\ UNCHANGED <<unread, session, unplugged>>

Stop ==
  /\ stage = "running"
  /\ server' = FALSE
  /\ IF writer = None
     THEN /\ WaitServerClosed
          /\ UNCHANGED <<writer, closing, conn>>
     ELSE /\ stage' = "closing writer"
          /\ closing' = writer
          /\ CloseWriter(writer)
          /\ UNCHANGED serial
  /\ UNCHANGED <<unread, session, unplugged>>

StopWriterClosed ==
  /\ stage = "closing writer"
  /\ conn[closing] = "lost"
  /\ WaitServerClosed
  /\ closing' = None
  /\ UNCHANGED <<server, writer, network, session, unplugged>>

StopServerClosed ==
  /\ stage = "wait closed"
  /\ Detached(conn)
  /\ WaitServerClosed
  /\ UNCHANGED <<server, writer, closing, network, session, unplugged>>

\* Mutant: there is no finally clause.
StopCancelledOpen ==
  /\ stage \in {"closing writer", "wait closed"}
  /\ stage' = "stopped"
  /\ closing' = None
  /\ UNCHANGED <<serial, server, writer, network, session, unplugged>>

\* stop() is cancelled at either await: the finally clause still runs.
StopCancelled ==
  /\ stage \in {"closing writer", "wait closed"}
  /\ stage' = "stopped"
  /\ serial' = FALSE
  /\ closing' = None
  /\ UNCHANGED <<server, writer, network, session, unplugged>>

----------------------------------------------------------------------------
Peer(c)    == Connect(c) \/ ClientSendsEof(c) \/ ClientResets(c) \/ ClientReads(c)

Handler(c) == RejectSecondClient(c) \/ Serve(c) \/ SessionEnds(c) \/ CloseSession(c)
                \/ HandlerReturns(c)

SerialToTcp(c) == RxStarts(c) \/ RxReads(c) \/ RxReadFails(c) \/ RxForwards(c)
                    \/ RxDrained(c) \/ RxDrainFails(c)

TcpToSerial(c) == TxStarts(c) \/ TxForwards(c) \/ TxReadsEof(c) \/ TxWrites(c)
                    \/ TxWriteFails(c) \/ TxReadsOn(c)

Start == OpenSerial \/ OpenSerialFails \/ Listen \/ ListenFails

Stopping == Stop \/ StopWriterClosed \/ StopServerClosed \/ StopCancelled

Next == \/ Start \/ Stopping \/ Unplug
        \/ \E c \in Clients : \/ Peer(c) \/ TransportFlushed(c) \/ LeftBehind(c)
                             \/ Handler(c) \/ SerialToTcp(c) \/ TcpToSerial(c)

Spec == Init /\ [][Next]_vars

\* The event loop runs what is ready and executor threads finish: a serial.write
\* ends (the device accepts bytes or fails).  Nothing makes a client send, read, close
\* or leave, or the device produce bytes.
LoopFairness(c) ==
  /\ WF_vars(TransportFlushed(c))
  /\ WF_vars(Handler(c))
  /\ WF_vars(\/ RxStarts(c) \/ RxReadFails(c) \/ RxForwards(c) \/ RxDrainFails(c)
             \/ (sink[c] \notin unread /\ RxDrained(c)))
  /\ WF_vars(\/ TxStarts(c) \/ TxReadsEof(c) \/ TxWrites(c) \/ TxWriteFails(c)
             \/ TxReadsOn(c))

FairSpec == /\ Spec
            /\ \A c \in Clients : LoopFairness(c)
            /\ WF_vars(StopWriterClosed \/ StopServerClosed)

\* What the code cannot see to: every client reads what it is sent (or its connection
\* breaks), however long it takes.
ClientsRead == \A c \in Clients : WF_vars(ClientReads(c))

----------------------------------------------------------------------------
(* What must hold                                                          *)

\* Until stop() is called, the client that holds the slot is exactly the one
\* whose session is alive: a second client, a rejected one or one that left a
\* moment ago never takes the slot over or leaves it taken (_handle_client,
\* _close_writer).
SingleSession ==
  stage = "running" =>
    \A c \in Clients : writer = c <=> handler[c] \in {"serving", "draining"}

\* Until stop() is called, a session writes only to its own client and handles
\* only its own client's bytes, although both tasks read self._writer and
\* self._reader anew after every await.
NoCrossTalk ==
  stage = "running" =>
    \A c \in Clients : sink[c] \in {None, c} /\ source[c] \in {None, c}

\* While the server runs, a serial.write is left behind on its thread (where it
\* may overlap with the next client's) only by a session whose connection was
\* reset or whose device failed: an orderly disconnect is noticed between writes.
OrphanWriteOnlyAfterFailure ==
  stage = "running" => \A c \in orphans : conn[c] = "lost" \/ unplugged

\* Clients can connect only while the port is open, and a server that has
\* stopped or failed to start, cancelled or not, holds neither.
HardwareFollowsServer ==
  /\ server => serial
  /\ stage \in {"stopped", "failed"} => ~serial /\ ~server

\* What the server promises to its owner: see ExclusiveBridge.
Life == CASE stage = "opening" -> "starting"
          [] stage \in {"closing writer", "wait closed"} -> "stopping"
          [] OTHER -> stage

\* The clients that are served.  A device call that has outlived its session is not one
\* of theirs: it is among what the contract calls left behind.
Users == {c \in Clients : \/ rx[c] \in {"read", "got", "drain"}
                          \/ tx[c] \in {"read", "write", "wrote"}}

Lost == {c \in Clients : conn[c] = "lost"}

Bridge == INSTANCE ExclusiveBridge
            WITH life <- Life, held <- serial, broken <- unplugged, gone <- Lost,
                 users <- Users, reads <- strays, writes <- orphans

\* SerialOverTcpServer keeps that promise: one client at a time is served, and what one
\* that has left still does to the device is a single call that its session had begun, a
\* write only after a failure.
ImplementsBridge == Bridge!Spec

\* A client that has left does not keep the next one out: its session gives the
\* slot up, even if the device is busy and no client reads what it is sent.
SlotFreed ==
  \A c \in Clients : writer = c /\ conn[c] \in {"eof", "lost"} ~> writer # c

\* If the clients read what they have been sent, stop() ends with the device closed.  (It
\* awaits writer.wait_closed(), which has no timeout: without that premise a client that
\* stays connected and does not read keeps stop() waiting, on every version of Python.)
\* (docs/usage.md: "Hardware is released immediately.")
StopReleasesHardware ==
  ClientsRead => (stage \in {"closing writer", "wait closed"} ~> ~serial)

\* If the clients read what they have been sent, every session that is left after stop()
\* ends by itself.
SessionsEndAfterStop == ClientsRead => (stage = "stopped" ~> Users = {})

----------------------------------------------------------------------------
(* The inductive invariant                                                 *)

\* The port, the socket and the writer being closed follow the owner's progress.
OwnerInv ==
  /\ serial <=> stage \in {"opening", "running", "closing writer", "wait closed"}
  /\ server <=> stage = "running"
  /\ closing # None <=> stage = "closing writer"
  /\ stage \in {"new", "opening", "failed"} =>
       writer = None /\ orphans = {} /\ \A c \in Clients : conn[c] = "out"

\* The session tasks of c exist only while its handler serves it, and stop being
\* live before the handler closes the connection.
TaskInv ==
  \A c \in Clients :
    /\ conn[c] = "out" <=> handler[c] = "none"
    /\ handler[c] \in {"none", "ready", "rejecting"} => rx[c] = "none" /\ tx[c] = "none"
    /\ handler[c] = "serving" => rx[c] # "none" /\ tx[c] # "none"
    /\ handler[c] \in {"draining", "closing"} => rx[c] = "done" /\ tx[c] = "done"
    /\ handler[c] = "done" => rx[c] \in {"none", "done"} /\ tx[c] \in {"none", "done"}
    /\ sink[c] # None <=> rx[c] = "drain"
    /\ source[c] # None <=> tx[c] \in {"read", "write", "wrote"}

\* A session loses its reading task while the server runs only by a reset or a
\* failed device, or through its own end.
FailureInv ==
  stage = "running" =>
    \A c \in Clients :
      handler[c] = "serving" /\ rx[c] = "done" => conn[c] = "lost" \/ unplugged

Inv == /\ TypeOK
       /\ OwnerInv
       /\ TaskInv
       /\ SingleSession
       /\ NoCrossTalk
       /\ FailureInv
       /\ OrphanWriteOnlyAfterFailure

=============================================================================
