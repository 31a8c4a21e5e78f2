# port-bridge: TLA+ models, model checking and proofs

port-bridge puts a serial port, a CAN interface or a debug probe on a TCP port. This directory
holds TLA+ modules that model its source (`portbridge/`), TLC configurations that check them on
small instances, and TLAPS proofs of their main safety properties for every instance.

## The system

| Component | State it keeps | Operations | Correct means |
|---|---|---|---|
| Serial server (`serial_server.py`) | the open device, the listening socket, the active client's reader and writer; per connection a handler task and two session tasks, whose device calls run on executor threads | `start`, `stop`, `_handle_client`, `_close_writer`, `_serial_to_tcp`, `_tcp_to_serial` | one client at a time, no bytes to or from another client, the slot is freed, the device is held exactly while the server lives |
| CAN server (`can_server.py`, `candle_bus.py`) | the same around a python-can bus, and the bytes of an incomplete frame | the same, `_encode_frame`, `_decode_frame` | the same, and frames keep their boundaries, order and contents |
| Probe server (`probe_server.py`) | a GDB server's process, its output pump, its guard | `start` (tool discovery, target check, launch, readiness), `stop`, `_terminate` | no process outlives its server, `start` succeeds only for a tool that listens |
| Process guard (`process_guard.py`) | the table of live child processes | `adopt`, `release`, `kill_all`, `run_tracked`, exit hook | every child can be killed until it is reaped |
| Life cycle (`bridge_server.py`, `lifecycle.py`) | the list of started servers, the stop event, the exit code | `main`, `_start_servers`, `run_startup`, `stop_servers`, signal handlers | everything started is stopped, in reverse order, whatever fails or interrupts |
| GUI controller (`gui/bridge_controller.py`, `gui/main_window.py`) | the bridge thread, its loop and event, queued Qt signals, the button and the rows | `start`, `stop`, `shutdown`, the slots of the window | no stop is lost, the window shows the bridge's state |
| Configuration (`bridge_config.py`) | none | `find_conflicts`, `find_invalid_values`, `parse_spec`, `*_from_spec` | channels that cannot coexist are refused, and no others |
| Channel rows (`gui/channel_rows.py`) | the rows and what their fields show, the ports a row has picked itself | `add_row`, `_remove_row`, `_on_kind_changed`, `_detect`, `to_config` | rows the user leaves alone stay out of each other's way |
| Discovery, tray, updater, log file, packaging | - | - | not modelled: queries and pure I/O |

How they interact: `main()` (or the GUI's bridge thread) calls `start()` on each server in turn
inside a task it can abandon, and `stop()` on those that have started. Servers never call each
other. Every server runs on one asyncio event loop, so code between two awaits is atomic; device
calls run on executor threads and may still run when the task that awaits them is cancelled. The
GUI thread and the bridge thread share three attributes and no lock; signals from the bridge
thread are queued. Nothing is persisted, so there is no crash recovery; the one crash that matters
is the second stop signal, which ends the program at once and must not leave child processes.

What is hard to test is listed in `PROJECT.json` under `hazards`, with the properties that cover
each entry.

## Modules

**`ExclusiveBridge`** says what a bridge server promises to its owner: the hardware is held
exactly from `start()` to `stop()`, a start that fails has released it, and until `stop()` is called
one client at a time is served. There is one exception, which the contract spells out: a client that
is no longer served may leave one call into the hardware behind, which runs beside the next client's.
A read may always be left (its data is lost), a write, while the server runs, only by a client whose
connection is lost or when the hardware has failed. It knows nothing of sockets and tasks.

**`SerialServer`** models `serial_server.py`. An action is what one coroutine does between two
awaits.

| Variables | In the code |
|---|---|
| `stage` | how far `start()` / `stop()` has come |
| `serial`, `server` | `self._serial`, `self._server` are set |
| `writer` | `self._writer`, by its client; `self._reader` always goes with it |
| `closing` | the argument of the `_close_writer()` that `stop()` awaits |
| `handler[c]`, `rx[c]`, `tx[c]` | the program counters of `_handle_client`, `_serial_to_tcp`, `_tcp_to_serial` |
| `sink[c]`, `source[c]` | whose writer / reader the session tasks of `c` have last picked up: the code re-reads `self._writer` and `self._reader` after every await |
| `orphans`, `strays` | `serial.write` and `serial.read` calls on executor threads whose task was cancelled: the `writes` and `reads` that `ExclusiveBridge` allows to be left behind |
| `conn`, `unread`, `unplugged` | the environment: connections, write buffers, a failing device |

**`CanServer`** extends `SerialServer`: `can_server.py` has a copy of its sessions, `start()` and
`stop()`, with `self._bus` in the place of `self._serial`. What it replaces is `_tcp_to_can()`.
`buf` is that task's buffer, `msg` the frame it last gave to `bus.send`, `onBus` what was sent and
`got` how much of each client's stream has been read. A byte is its client and its place in the
stream, so that a frame made of the wrong bytes is seen. `Reads` and `Continues` run the inner loop
of the code up to its next await (`CutFrames`). `FrameOf(c, k)` is the k-th frame of what `c` sends;
`FramesKept` and `NoneHeldBack` say by these numbers which frames are on the bus and in which order.

**`CanCodec`** models `_encode_frame()` and `_decode_frame()`: what one frame becomes on its way to
a client and back. The CAN ID word is its three flag bits and the identifier below them.
`CandleRecv` and `CandleSend` are the adapter of `candle_bus.py` beyond them.

**`ManagedTool`** says what a server with a child process promises to its owner: the tool runs only
between a `start()` that has begun and the end of the `start()` that fails or of the `stop()`,
cancelled or not, and `is_running` becomes true when `start()` returns and then only ever false.

**`ProbeServer`** models `probe_server.py` with `process_guard.py` around one GDB server. What runs
at the same time: `start()` or `stop()` (`pc` is the await it is at), the output pump, the thread
of `run_tracked()` for the target verifier, the tool, a helper that the tool may start and that may
leave its process group, the verifier's own process, and whoever calls `kill_all()` or the exit
hook. Every await can be left by a cancellation.

| Variables | In the code |
|---|---|
| `pc`, `stopping`, `running`, `done` | the await of `start()` / `_terminate()`, `self._stopping`, `self._running`, the result of `_wait_until_ready()` |
| `ready`, `exited` | the two events |
| `guard`, `pump` | `self._guard` is set; the task `_pump_output()` and the await it is at |
| `leader`, `helper`, `reaped` | the processes of the tool's group; `proc.returncode is not None` |
| `thread`, `checker` | `run_tracked()` in its thread, and the process it runs |
| `live`, `hook` | `process_guard._live`, `_reap_at_exit()` |

**`Lifecycle`** models `main()`, `_start_servers()`, `run_startup()`, `stop_servers()` and the
signal handlers, over `N` servers some of which (`Probes`) own a child process. A server's own
behaviour is what `ExclusiveBridge` and `ManagedTool` promise; `ComposesContracts` says that each
server of the program, seen through `srv`, `children` and their mapping, is one of `ManagedTool`.
The main task and the startup task are the variables `main` and `startup`; a child process is
created by one step (`LaunchTool`) and known to `process_guard` after another (`AdoptTool`), because
asyncio connects its pipes in between. The program ends by itself in one of two ways: `Exit`, with the
exit code, or `ExitCancelled`, with the `CancelledError` that `stop_servers()` has remembered, which
leaves `main()` before the exit code is looked at.

**`BridgeController`** models the Start / Stop button and the two threads behind it. The Qt thread
(`ui`) and the bridge thread (`thread`) access `_loop`, `_stop_event` and `_stop_requested` in
separate steps; `queue` holds the signals the Qt thread has not handled.

**`BridgeConfig`** translates `bridge_config.py` and what it needs of `ProbeConfig` and
`bridge_server.py` into operators: what a channel claims (`Claims`), the conflicts and the invalid
values, and the parsers of the command line. Beside them stands what the servers make of a channel
(`Sockets`, `Hardware`) and, as the reference that `find_problems()` is checked against, `Sound`.
An optional value is the set of it; one `rate` stands for every number that must be positive.

**`Configuration`** is what leads to a configuration. A row is a record of what its widgets show;
`rows` holds those of the window, `auto` of a probe row the ports it picked itself
(`_auto_ports`), `serial` the two serial number fields. An action is one slot: adding, removing,
choosing, typing, a change of kind with its `_avoid_port_clash()`, the two `Detect` buttons, and
Start. `Main` is the command line instead. `typed`, `moved` and `edits` are history and bound.

`MCSerialServer`, `MCCanServer`, `MCLifecycle` and `MCConfiguration` hold the definitions the
configurations need. The `*Proofs` modules hold the theorems.

Definitions whose comment begins with "Mutant" are not part of a specification: each is a
plausible bug in the action that follows it, and `PROJECT.json` names the property that finds it.

## Runs

| Run | Asks | Instance |
|---|---|---|
| `serial_safety` | do sessions mix, is the slot ever held wrongly, is `ExclusiveBridge` implemented | 2 clients, symmetric, `WaitsForClients` true: 113,128 states |
| `serial_live` | is the slot of a client that has left freed, although no client need read; if clients read, does `stop()` end and do sessions end after it | 2 clients, `wait_closed()` of the server as before Python 3.12.1: 187,292 states |
| `serial_stop_hangs` | does `stop()` end on Python 3.12.1 and later, if clients read: **no** | 1 client |
| `can` | do frames keep their boundaries and order over every split into reads, is one held back | a client of three frames, the second refused, and one of one frame, frames of 2 bytes, until `stop()` has returned: 4,373,968 states |
| `can_codec` | does a replayed frame come back, to python-can and to the Candle driver, can a DLC contradict the data | 2 ids, 2 byte values, frames of 2 data bytes, DLC up to 4 |
| `can_flags` | are the flag bits those of the documentation: **no** | the same |
| `lifecycle` | is everything started stopped, in order, under failures and signals; are the servers used as their contract asks; does the exit code tell a failure, does the program end | 4 servers, the last two with child processes |
| `lifecycle_second_signal` | does a second signal leave a child: **yes**, one that is being launched | the same |
| `probe` | is a tool, a helper or the verifier ever left behind or out of reach of `kill_all()`, does every call end, is an exit noticed, is `ManagedTool` implemented | a target check, a telnet port, up to 2 cancellations: 2,746 states |
| `configuration` | do untouched rows get in each other's way, is what starts sound, is anything else refused, do rows name the same probe | 2 serial rows, 1 CAN row, 2 probe rows, 1 value typed, command lines of one or two flags: 1,104,671 states |
| `gui` | is a stop ever lost, does the window come back while a signal is still to come | up to 2 signals of earlier runs waiting |
| `gui_rows_unlocked` | are the rows locked while the bridge runs: **not always** | the same |

Why the bounds are enough. In the server two clients suffice for every conflict of the code: it
compares a client only with the holder of the slot, and a connection does not come back (a client
that reconnects is another connection, which the second stands for). The safety theorems below hold
for any number. Frames of two bytes can be split in every way a frame of 16 can, inside and at a
boundary: the first client's six bytes make a good frame, a refused one and another good one, in one
to six reads, so that frames of a client must keep their order and a good one not wait behind a
refused one; the second client's frame follows on a bus that may still be sent an abandoned one. That
run is cut off when `stop()` has returned (`UntilStopped`): what it checks speaks of the time before.
In `CanCodec` a DLC is less than, equal to and more than the data. With four servers there is one
before, one between and one after any other, and probes both next to a TCP bridge and to each other.
A probe server with a target check and a telnet port has every await of the code; without them there
are fewer (the theorems cover the four combinations). The first cancellation may meet any await of
`start()` or `stop()` and the second the clean-up of the first; a call that was cancelled twice is
over. In `Configuration` a conflict, a free port and a free probe each involve two rows; the single
CAN row is the third that a serial row's ports can meet, and its slcan and gs_usb adapters are the
device of a serial row and the channel of a flag. One typed value is enough to set two rows against
each other; command lines hold every kind of flag, pairs that conflict over each resource, and each
way in which a specification is refused. `Backlog` bounds how many signals may be waiting when Start
is clicked; two are enough for a whole earlier run (`error`, `stopped`).

Fairness. `SerialServer!FairSpec`: the event loop runs what is ready and executor calls end (the serial
read has a timeout of 50 ms, a write ends because the device accepts bytes or fails). Nothing makes a
client read, send, close or leave. `SlotFreed` holds under that alone. That clients read what they are
sent is nothing the code sees to: it has no timeout for a peer that stalls. `StopReleasesHardware` and
`SessionsEndAfterStop` therefore have it as a premise (`ClientsRead`). `Lifecycle!FairSpec`: the loop
runs, and every server's `start()` and `stop()` ends; no signal is certain. What `SignalEndsProgram`
and `FailureEndsProgram` say is therefore as good as the servers' own promises: with a stalled client
of a TCP bridge, or the one of `serial_stop_hangs`, the program does not end.
`ProbeServer!FairSpec`: the loop and the executor's thread run, every timeout that is armed
fires (they are `asyncio.wait_for` and `communicate(timeout=...)`), a process that has been sent
SIGKILL dies and asyncio sees it; nothing makes the tool get ready, exit, or heed SIGTERM.
`BridgeController!FairSpec`: both threads run and, with the same reservation, `stop_servers()` ends; a
startup may take for ever
unless it is told to stop, and no click is certain. Deadlock is not checked in runs of programs that
really may stop.

## Where the code and its documentation disagree

1. `stop()` may wait for ever (`serial_stop_hangs`). A client whose handler has not run yet when
   `stop()` looks at `self._writer` is closed by nobody, and `wait_closed()` of Python 3.12.1 and
   later waits for it. `docs/usage.md:273` promises "Hardware is released immediately."
2. The second signal may leave a child (`lifecycle_second_signal`): a process exists before
   `process_guard.adopt()` runs. `docs/architecture.md:90` says it kills the child processes.
   `KilledSparesOnlyLaunching` is what does hold, and is proved.
3. A late `stopped` of a failed run unlocks the rows of the next (`gui_rows_unlocked`);
   `docs/architecture.md:126` says that they are locked while the bridge runs.
4. The flag bits of the wire format (`can_flags`). `can_server.py:4-5` and
   `docs/architecture.md:134-138` give bit 29 to remote frames and bit 30 to error frames; the code
   tests bit 29 for errors (as Linux does) and no other. A client's remote frame is dropped or, with
   the Linux bit, sent as a data frame, and a remote frame of the bus reaches the client as a data
   frame of zeros.

Seen while modelling, with no run of their own:

- `stop()` waits for a client that stays connected and does not read, on every version of Python:
  `writer.wait_closed()` (`serial_server.py:102`, `can_server.py:225`) returns when what is buffered has
  been taken, and has no timeout. `docs/usage.md:273` promises otherwise. TLC shows it when the premise
  `ClientsRead` is dropped from `StopReleasesHardware`.
- A click on Start after `stopped` was handled but before the bridge thread has died is taken for a
  stop, and no signal will enable the button again (`ClickStop` while `thread = "emitted"`).
  `ButtonComesBack` promises the button only while a signal is still to come (`SignalToCome`: one is
  queued, or the bridge thread has one left to emit).
- `docs/usage.md:259` says that the log level can be switched without restart, but
  `_set_editing_enabled()` disables the selector while the bridge runs.
- A verifier that has been spawned and not yet adopted when its `start()` is cancelled is not
  reached by `kill_all("verifier")` and lives until its timeout of 30 s; the docstring
  `process_guard.py:124` promises "a child that `kill_all` can reach". `VerifierEnds` and `Registered`
  are what does hold.
- Two rows can name one probe: a row that was given a J-Link is taken to another kind, a second row
  detects the same J-Link, and the first is taken back. `README.md:258-259` says that each row stays on
  its own probe; `find_problems()` does not compare serial numbers. `PinnedApart` leaves such rows out.
- A serial or CAN row whose TCP field was cleared tells `used_ports()` nothing but would start on its
  default port, so a row added after that is given the same port, and Start refuses both.
- `tcp=0`, `baud=0` and `bitrate=0` in a specification become the defaults (`OrDefault`), although
  `README.md:249-254` says that such values are refused; the flags for a single channel do refuse them.
- `telnet=` of an ST-LINK is claimed by `find_conflicts()` although nothing listens there, so a
  configuration that could run is refused (the exemption in `RefusedUnsound`).
- The CAN row's Detect looks only at other CAN rows: it may fill in the serial device of a serial
  row, and leaves the interface as it was if the row does not offer the one that was found.
- Without a system tray the GUI does not start: `gui/__main__.py:70` reads `tray`, which only the branch
  for a tray has assigned, although the comment at line 46 says that closing the window should then
  quit the app. (The tray is not modelled.)
- `CandleBus.recv()` ignores the type of a frame: what the driver reports as an echo or an error
  reaches the client as a data frame of the bus.
- A J-Link row without a device or an OpenOCD row without a script passes `find_problems()` and fails
  in `start()`, although `bridge_config.py:157` says "Everything that would make the bridge fail to
  start".

## Proofs

TLAPS checks, for every value of the constants:

- `SerialServerProofs`: `Inv` is inductive, for every finite set of clients and both behaviours of
  `wait_closed()`. Neither `SingleSession` nor `NoCrossTalk` is inductive alone. `OwnerInv` ties the
  device and the socket to the progress of the owner, `TaskInv` ties the session tasks to their
  handler (they are dead before the handler gives the slot up, which is why re-reading
  `self._writer` is harmless), and `FailureInv` says which sessions can lose a task early. From them
  follow `SingleSession`, `NoCrossTalk`, `OrphanWriteOnlyAfterFailure`, `HardwareFollowsServer`, and
  the refinement `Spec => Bridge!Spec`: the initial states map to initial states and every step to a
  step or a stutter (`OwnerRefines`, `NetworkRefines`, `HandlerRefines`, `SessionEndRefines`,
  `TasksRefine`). The step that needs the invariant is `SessionEnds`, the one that leaves calls
  behind: that the task whose write it abandons has lost its client or its device is `FailureInv`.
- `CanServerProofs`: `SessionInv`, for every frame size and amount of data, with the lemmas above for
  every step that is the serial server's; `CutFrames` is reduced to the three ways in which it can
  leave the task (`CutFramesShape`), and the first good frame exists because a set of numbers has a
  least element (`LeastElement`). `SingleSession`, `NoCrossTalk`, `OrphanWriteOnlyAfterFailure` and
  `ImplementsBridge` follow for the CAN server. (An abandoned `bus.send` may put an earlier client's
  last frame on the bus while the next is served; `FramesKept` holds all the same.)
- `CanFramesProofs`: `CanInv`, which adds `StreamInv`, and from it `FramesKept` and `NoneHeldBack`, for
  every frame size, set of refused frames and split of the streams into reads. Neither is inductive:
  they speak of the bus and of what was read, and the code's state in between is the buffer and the
  frame in a thread's hands. `Buffered` says that what was cut from a stream are whole frames (their
  number `Cut` is computed from the buffer, no history variable is needed) and the buffer what
  follows them; `InHand` that a thread has the last frame that was cut; `SentSoFar` that those before
  it are on the bus, and it too when the thread has returned, unless the connection or the adapter
  was lost (a send that was still queued is cancelled with its session); `BusInv` that every frame on the bus was cut, is in no thread's hands and came
  after exactly the earlier ones of its client; `Waited` that a task that waits has less than a frame
  left, unless its connection or its adapter failed. That last part needs the sessions (`FailureInv`:
  only such a task is ended in the middle, and only it leaves a send behind on its thread). The proof
  has the arithmetic of frames in a buffer first (`CutBuffer`), then the inner loop
  (`CutFramesResult`), then one lemma per kind of step: those that change no buffer
  and send nothing (`MovesKeepStream`), that cut (`CuttingKeepsStream`) and that send (`SendingKeepsStream`).
  `StreamInv` holds until `stop()` only: after it a task may read on for whoever holds the slot.
- `CanCodecProofs`: what the two conversions do to every frame (`RoundTrip`: a data frame comes back
  as itself, an error frame as a data frame, a remote frame as one of zeros), `CandleSend` undoes
  `CandleRecv`, and from `CodecInv`, which ties the frame in hand to what it was made of,
  `ReplayIsExact` and `DlcMatchesData`.
- `LifecycleProofs`: `Inv`, for every number of servers. Its parts say that servers come up in order
  and one at a time (`StartupInv`), what `main()` knows of the startup task at each await
  (`MainInv`), that `todo` is exactly what is still to be stopped (`StoppingInv`) and to whom a
  child belongs (`ChildInv`). `CleanExit`, `ReverseOrder`, `ExitCodeTellsFailure` (of both ways in
  which the program ends by itself) and
  `KilledSparesOnlyLaunching` follow, and `ComposesContracts`: every step of the program is, for
  each server, a step of `ManagedTool` or none. With the refinement below this is the composition:
  the life cycle asks of a probe what the probe server is proved to do.
- `ProbeServerProofs`: `Inv`, for every kind of probe and every number of cancellations. `BeforeInv`
  says what there can be before `start()` has been handed the tool, `GuardInv` that the group runs
  only while it is guarded and registered (so whoever drops the guard, `start()`, `stop()` or the
  pump, has killed the group first), `VerifierInv` follows the verifier through its thread and
  `CallInv` says when `_running` can be set. `NothingLeft`, `Registered` and the refinement of
  `ManagedTool` follow.
- `ConfigurationProofs`: `StartedSound` and `RefusedUnsound`, which need no induction over the steps
  of the rows, only that these and the command line give channels (`SubmittedChannels`).
  `FindProblemsExact` is both at once, for every configuration: two channels that passed
  `find_conflicts()` share no claim, and every socket and every device that is opened is claimed
  (`NoProblemsSound`); conversely every claim but that of an ST-LINK's telnet port is used as it says
  (`ClaimsUsed`), so that two claims on one resource are two of its users (`ConflictUnsound`).
  `RowsInv` is inductive: `OwnChoice` says that an untouched row has its port, or
  picked ports whose last digit is that of the default of its kind (without which a GDB port that a
  row avoids could meet the telnet port it picks next), `OneProbe` that a row names no probe of a
  kind it is not. That `NextFreePort` is free is a pigeonhole argument: among one more candidates
  than there are used ports one is unused, and the first of those is returned (`NextPortIsFree`).
  `PinnedApart` follows with `OneProbe`.
- `BridgeControllerProofs`: `Inv`, for every backlog. `RequestInv` follows a request through
  `stop()`: until the event knows of it, `stop()` has still to look at the loop or has found it.
  `SignalInv` says what may be queued at each step of the run and what the button shows then.
  `StopNeverLost`, `StopTextMeansRunning` and `RowsUnlockedWhenOver` follow.

The assumptions are those of the constants: `Clients` is finite and does not contain `None`,
`WaitsForClients` is a Boolean, `FrameSize` is positive, the DLC byte can say how many data bytes a
frame has (`DataSize <= MaxDlc`: 8 and 255 in the code), `N` is positive, `Probes` are servers,
`Backlog` is a number, `Verify` and `HasTelnet` are Booleans, the sets of rows are finite and
disjoint, and detection finds probes of the kinds there are.

Every invariant and every action property that a passing run checks is a theorem. What stays with
TLC is liveness, as the prover treats neither fairness nor ENABLED: `SlotFreed`,
`StopReleasesHardware`, `SessionsEndAfterStop`, `SignalEndsProgram`, `FailureEndsProgram`,
`StopEnds`, `ButtonComesBack`, `CallEnds`, `ExitNoticed`, `VerifierEnds`; so does the absence of
deadlock.

## Not modelled

`argparse`, the options of the tools' command lines, log messages and layout; the bytes of the
serial bridge and the payload of CAN frames on their way to a client (only where they come from and
go to); the search for a libusb backend, the arguments of the bus constructor, and the constructor
and `shutdown()` of `candle_bus.py`, which wrap a driver; the loop iteration between a cancellation
and its delivery, in which no code of the program runs; a `start()` that is cancelled after the
socket is bound and before `start_server()` returns, whose listener asyncio closes itself only when
it is collected; Windows job objects and `proc.terminate()` without a process group; how the tools
and the adapters are found (`Start` may fail, and a row is offered any adapter and any probe);
fields that only a driver or a tool reads, the baud rate field of an slcan row and the access port
field of an ST-LINK row (the command line has both); a device or adapter that fails one call and works
again, as `unplugged` is for good; the name patterns of ST devices and the RTT search
window; two `Detect` buttons at once, which one Qt thread excludes; the tray, the updater and the
log file, on which no other state depends.

## Plan

1. Done: the sessions of both TCP bridges, the CAN framing and codec, the life cycle, the GUI's two
   threads, the probe server with its process registry, the configuration and the rows, and the
   composition of the life cycle with the contract of a managed tool.
2. Done: an inductive invariant and a proof for every safety property of a passing run.
3. Left to TLC: the liveness properties, under the fairness above.
