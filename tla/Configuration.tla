--------------------------- MODULE Configuration ---------------------------
(***************************************************************************)
(* From what the user enters to the configuration that is started: the     *)
(* rows of the window (src/portbridge/gui/channel_rows.py and main_window  *)
(* .py) or the command line (bridge_server.py).                            *)
(*                                                                         *)
(* A row is a record of what its widgets show.  As in BridgeConfig an      *)
(* optional value, here a field that may be empty, is the set of it.       *)
(***************************************************************************)
EXTENDS BridgeConfig, FiniteSets

CONSTANTS SerialRows, CanRows, ProbeRows,   \* rows that each section may hold
          Devices,      \* serial devices
          Adapters,     \* CAN adapters that detection may find: <<interface, channel>>
          Detected,     \* probes that detection may find: <<kind, serial>>
          Numbers,      \* what the user types into a field for a TCP port
          Rates,        \* what the user types into a field for a rate
          CommandLines, \* sequences of <<flag, spec>>
          MaxEdits      \* how often the user types into a field or changes a serial number

ASSUME ConfigurationAssumption ==
  /\ IsFiniteSet(SerialRows) /\ IsFiniteSet(CanRows) /\ IsFiniteSet(ProbeRows)
  /\ SerialRows \intersect CanRows = {} /\ SerialRows \intersect ProbeRows = {}
  /\ CanRows \intersect ProbeRows = {}
  /\ \A p \in Detected : p[1] \in ProbeKinds
  /\ Numbers \subseteq Int /\ Rates \subseteq Int
  /\ MaxEdits \in Nat

VARIABLES
  rows,     \* the rows of the window
  phase,    \* "parsing" the command line, "editing" the rows, "refused" or "started"
  config,   \* the configuration that was refused or started
  typed,    \* history: rows in which the user has typed a TCP port
  moved,    \* history: probe rows whose serial was typed, or that left the kind it was for
  edits

vars == <<rows, phase, config, typed, moved, edits>>

CanInterfaces == {"socketcan", "pcan", "slcan", "gs_usb", "candle"}
HasSerial     == {"jlink", "stlink"}   \* kinds with a field for the probe's serial number
Sections      == {SerialRows, CanRows, ProbeRows}

With(r, row) == [q \in DOMAIN rows \union {r} |-> IF q = r THEN row ELSE rows[q]]
Without(r)   == [q \in DOMAIN rows \ {r} |-> rows[q]]

----------------------------------------------------------------------------
(* What a row uses, and what the rows use together (RowHost)               *)

\* The set of TCP ports a row listens on if enabled, as the row itself tells.
RowPorts(r, row) ==
  IF r \notin ProbeRows THEN row.tcp
  ELSE IF row.kind = "disabled" THEN {}
  ELSE OrDefault(row.gdb, DefaultPorts[row.kind].gdb)
         \union (IF DefaultPorts[row.kind].telnet = {} THEN {}
                 ELSE OrDefault(row.telnet, DefaultPorts[row.kind].telnet))
         \union (IF row.kind = "stlink" THEN {} ELSE row.rtt)

UsedPorts(r) == UNION {RowPorts(q, rows[q]) : q \in DOMAIN rows \ {r}}

UsedCanChannels(r) ==
  UNION {{<<rows[q].interface, ch>> : ch \in Default(rows[q].channel, {"0"})} :
           q \in (DOMAIN rows \intersect CanRows) \ {r}}

UsedProbes(r) ==
  UNION {{<<rows[q].kind, s>> : s \in rows[q].serial[rows[q].kind]} :
           q \in {p \in (DOMAIN rows \intersect ProbeRows) \ {r} : rows[p].kind \in HasSerial}}

\* Mutant: the port after the default, used or not.
NextPortOnly(start, used, step) ==
  IF start \in used THEN start + step ELSE start

\* The first of start, start + step, ... that is not used.
NextFreePort(start, used, step) ==
  LET free == {k \in 0 .. Cardinality(used) : start + k * step \notin used}
  IN  start + step * (CHOOSE k \in free : \A j \in free : k <= j)

----------------------------------------------------------------------------
(* The rows as they are created                                            *)

SerialRow(port) == [device |-> {}, rate |-> {DefaultBaudrate}, tcp |-> {port}]

\* (The baud rate of an slcan adapter's serial line is left out: one rate stands for both.)
CanRow(port) == [interface |-> "disabled", channel |-> {}, rate |-> {DefaultBitrate},
                 tcp |-> {port}]

NoPorts == [gdb |-> {}, telnet |-> {}]

ProbeRow == [kind |-> "disabled", gdb |-> {}, telnet |-> {}, rtt |-> {}, rate |-> {},
             auto |-> NoPorts, serial |-> [k \in HasSerial |-> {}]]

\* The window has one row of each kind, with the default ports.
Init ==
  /\ \/ /\ phase = "editing"
        /\ \E s \in SerialRows, c \in CanRows, p \in ProbeRows :
             rows = [r \in {s, c, p} |-> IF r = s THEN SerialRow(DefaultSerialPort)
                                         ELSE IF r = c THEN CanRow(DefaultCanPort) ELSE ProbeRow]
     \/ phase = "parsing" /\ rows = <<>>
  /\ config = <<>>
  /\ typed = {} /\ moved = {} /\ edits = 0

Editing == phase = "editing" /\ UNCHANGED <<phase, config>>

\* "+ Add ...": the new row suggests a port.
AddRow(r) ==
  /\ Editing
  /\ r \notin DOMAIN rows
  /\ rows' = With(r, IF r \in SerialRows
                     THEN SerialRow(NextFreePort(DefaultSerialPort, UsedPorts(r), 1))
                     ELSE IF r \in CanRows
                     THEN CanRow(NextFreePort(DefaultCanPort, UsedPorts(r), 1))
                     ELSE ProbeRow)
  /\ UNCHANGED <<typed, moved, edits>>

\* The last row of a section cannot be removed.
RemoveRow(r) ==
  /\ Editing
  /\ r \in DOMAIN rows
  /\ \A section \in Sections : r \in section => (DOMAIN rows \intersect section) \ {r} # {}
  /\ rows' = Without(r)
  /\ typed' = typed \ {r}
  /\ moved' = moved \ {r}
  /\ UNCHANGED edits

----------------------------------------------------------------------------
(* Editing a row                                                           *)

\* The serial device, the CAN interface or channel is chosen.
Choose(r) ==
  /\ Editing
  /\ r \in DOMAIN rows \ ProbeRows
  /\ IF r \in SerialRows
     THEN \E d \in SUBSET Devices :
            Cardinality(d) <= 1 /\ rows' = With(r, [rows[r] EXCEPT !.device = d])
     ELSE \/ \E i \in {a[1] : a \in Adapters} \intersect CanInterfaces :
               rows' = With(r, [rows[r] EXCEPT !.interface = i])
          \/ \E ch \in {{}} \union {{a[2]} : a \in Adapters} :
               rows' = With(r, [rows[r] EXCEPT !.channel = ch])
  /\ UNCHANGED <<typed, moved, edits>>

Edit == Editing /\ edits < MaxEdits /\ edits' = edits + 1

\* The fields for a number that are enabled.
Fields(r) ==
  IF r \notin ProbeRows THEN {"tcp", "rate"}
  ELSE IF rows[r].kind = "disabled" THEN {}
  ELSE {"gdb", "rate"} \union (IF rows[r].kind = "stlink" THEN {} ELSE {"telnet", "rtt"})

TypeNumber(r, field, number) ==
  /\ Edit
  /\ r \in DOMAIN rows
  /\ field \in Fields(r)
  /\ rows' = With(r, [rows[r] EXCEPT ![field] = number])
  /\ typed' = IF field = "rate" THEN typed ELSE typed \union {r}
  /\ UNCHANGED moved

TypeSerial(r, serial) ==
  /\ Edit
  /\ r \in DOMAIN rows \intersect ProbeRows
  /\ rows[r].kind \in HasSerial
  /\ rows' = With(r, [rows[r] EXCEPT !.serial[rows[r].kind] = serial])
  /\ moved' = moved \union {r}
  /\ UNCHANGED typed

\* _on_kind_changed(): the ports picked for the kind before are cleared, those that the
\* kind does not have too, and a default that another row uses is avoided.
KindChanged(row, kind, used) ==
  LET default(f) == IF kind = "disabled" THEN {} ELSE DefaultPorts[kind][f]
      kept(f) == IF row[f] = row.auto[f] \/ (kind = "stlink" /\ f = "telnet") THEN {} ELSE row[f]
      picked(f) == IF kept(f) = {} /\ default(f) # {} /\ default(f) \subseteq used
                   THEN {NextFreePort(CHOOSE p \in default(f) : TRUE, used, 10)} ELSE {}
  IN  [row EXCEPT !.kind = kind,
                  !.gdb = kept("gdb") \union picked("gdb"),
                  !.telnet = kept("telnet") \union picked("telnet"),
                  !.rtt = IF kind = "stlink" THEN {} ELSE @,
                  !.auto = [f \in {"gdb", "telnet"} |-> picked(f)]]

ChangeKind(r, kind) ==
  /\ Editing
  /\ r \in DOMAIN rows \intersect ProbeRows
  /\ kind # rows[r].kind
  /\ rows' = With(r, KindChanged(rows[r], kind, UsedPorts(r)))
  /\ moved' = IF \A k \in HasSerial : rows[r].serial[k] = {} THEN moved ELSE moved \union {r}
  /\ UNCHANGED <<typed, edits>>

----------------------------------------------------------------------------
(* "Detect": what is found is any list of adapters or probes.               *)

\* The first adapter that no other row uses; an interface the row does not offer is not set.
DetectCan(r, a) ==
  /\ Editing
  /\ r \in DOMAIN rows \intersect CanRows
  /\ a \notin UsedCanChannels(r)
  /\ rows' = With(r, [rows[r] EXCEPT !.interface = IF a[1] \in CanInterfaces THEN a[1] ELSE @,
                                     !.channel = {a[2]}])
  /\ UNCHANGED <<typed, moved, edits>>

Pinned(row, serial) ==
  IF row.kind \in HasSerial /\ row.serial[row.kind] = {}
  THEN [row EXCEPT !.serial[row.kind] = serial] ELSE row

\* Mutant: a probe that another row names is as good as any.
DetectAnyProbe(r, p) ==
  /\ Editing
  /\ r \in DOMAIN rows \intersect ProbeRows
  /\ LET row == IF rows[r].kind = "disabled"
                THEN KindChanged(rows[r], p[1], UsedPorts(r)) ELSE rows[r]
     IN  rows' = With(r, IF p[1] = row.kind THEN Pinned(row, p[2]) ELSE row)
  /\ UNCHANGED <<typed, moved, edits>>

\* A row without a kind takes that of the first free probe, or of the first probe; then the
\* first free probe of its kind is pinned, unless the row names one.  (p[2] is {} if the
\* serial number is not one that can be selected.)
DetectProbe(r, p) ==
  /\ Editing
  /\ r \in DOMAIN rows \intersect ProbeRows
  /\ LET free == p[2] # {} /\ \A s \in p[2] : <<p[1], s>> \notin UsedProbes(r)
         row == IF rows[r].kind = "disabled"
                THEN KindChanged(rows[r], p[1], UsedPorts(r)) ELSE rows[r]
     IN  rows' = With(r, IF free /\ p[1] = row.kind THEN Pinned(row, p[2]) ELSE row)
  /\ UNCHANGED <<typed, moved, edits>>

----------------------------------------------------------------------------
(* Start                                                                   *)

Enabled(r) == IF r \in SerialRows THEN rows[r].device # {}
              ELSE IF r \in CanRows THEN rows[r].interface # "disabled"
              ELSE rows[r].kind # "disabled"

\* to_config(): {} if a CAN row has no channel.  (The access port of an ST-LINK, a
\* number that find_invalid_values() checks, is left to the command line.)
ToConfig(r, row) ==
  IF r \in SerialRows
  THEN {[type |-> "serial", device |-> row.device,
         rate |-> Default(row.rate, {DefaultBaudrate}),
         tcp  |-> Default(row.tcp, {DefaultSerialPort})]}
  ELSE IF r \in CanRows
  THEN {[type |-> "can", interface |-> row.interface, channel |-> channel,
         rate |-> Default(row.rate, {DefaultBitrate}),
         tcp  |-> Default(row.tcp, {DefaultCanPort})] :
           channel \in {CanChannelOrDefault(row.interface, row.channel)} \ {{}}}
  ELSE {[type |-> row.kind, gdb |-> row.gdb,
         telnet |-> IF row.kind = "stlink" THEN {} ELSE row.telnet,
         rtt |-> IF row.kind = "stlink" THEN {} ELSE row.rtt,
         rate |-> row.rate, ap |-> {}]}

\* What a row would listen on if it were started.
Listens(r, row) ==
  IF r \in ProbeRows /\ row.kind = "disabled" THEN {}
  ELSE IF r \in CanRows THEN {"server"} \X Default(row.tcp, {DefaultCanPort})
  ELSE UNION {Sockets(c) : c \in ToConfig(r, row)}

\* What find_problems() objects to is refused.
Submit(cfg) ==
  /\ config' = cfg
  /\ phase' = IF HasProblems(cfg) THEN "refused" ELSE "started"

\* Values that cannot be read are refused before that.
Unreadable == config' = <<>> /\ phase' = "refused"

\* The button, with at least one row enabled: _toggle_bridge() and _build_config().
ClickStart ==
  /\ phase = "editing"
  /\ LET enabled == {r \in DOMAIN rows : Enabled(r)}
     IN  /\ enabled # {}
         /\ IF \E r \in enabled : ToConfig(r, rows[r]) = {} THEN Unreadable
            ELSE Submit([r \in enabled |-> CHOOSE c \in ToConfig(r, rows[r]) : TRUE])
  /\ UNCHANGED <<rows, typed, moved, edits>>

\* The box is closed, or the bridge has stopped: the rows can be edited again.
BackToEditing ==
  /\ phase \in {"refused", "started"}
  /\ DOMAIN rows # {}
  /\ phase' = "editing"
  /\ config' = <<>>
  /\ UNCHANGED <<rows, typed, moved, edits>>

\* main(): the command line in place of the window.
Main ==
  /\ phase = "parsing"
  /\ \E args \in CommandLines :
       LET parsed(i) == FromFlag(args[i][1], args[i][2])
       IN  IF \E i \in DOMAIN args : parsed(i) = {} THEN Unreadable
           ELSE Submit([i \in DOMAIN args |-> CHOOSE c \in parsed(i) : TRUE])
  /\ UNCHANGED <<rows, typed, moved, edits>>

Next ==
  \/ \E r \in SerialRows \union CanRows \union ProbeRows :
       \/ AddRow(r) \/ RemoveRow(r) \/ Choose(r)
       \/ \E f \in {"tcp", "gdb", "telnet", "rtt"}, n \in {{}} \union {{x} : x \in Numbers} :
            TypeNumber(r, f, n)
       \/ \E n \in Rates : TypeNumber(r, "rate", {n})
       \/ \E p \in Detected : TypeSerial(r, p[2]) \/ DetectProbe(r, p)
       \/ \E k \in ProbeKinds \union {"disabled"} : ChangeKind(r, k)
       \/ \E a \in Adapters : DetectCan(r, a)
  \/ ClickStart \/ BackToEditing \/ Main

Spec == Init /\ [][Next]_vars

----------------------------------------------------------------------------
(* What must hold                                                          *)

\* What is started has its own of everything: no TCP port is listened on twice, within a
\* probe's server or between channels, no serial device and no CAN channel is opened
\* twice, and every port and rate is one there can be (main() and _toggle_bridge()).
StartedSound == phase = "started" => Sound(config)

\* Nothing else is refused, but for a telnet port given to an ST-LINK, which has none
\* (find_problems() takes it for one that will be listened on).
RefusedUnsound ==
  phase = "refused" /\ config # <<>> =>
    \/ ~Sound(config)
    \/ \E i \in DOMAIN config : config[i].type = "stlink" /\ config[i].telnet # {}

\* (README.md, on the GUI: "A new row starts on a free TCP port.  A second probe of the same
\* type starts on ports offset by 10".)  However rows are added, removed, detected and
\* changed from kind to kind, those whose ports the user has not typed never share one.
UntouchedApart ==
  \A r, q \in DOMAIN rows \ typed :
    \A s \in Listens(r, rows[r]), t \in Listens(q, rows[q]) : s[2] = t[2] => r = q /\ s = t

\* ("Detect probes fills in the serial number of a probe no other row is using, so each
\* row stays on its own probe".)  Rows of a kind name different probes, unless the
\* user typed one or took a row to another kind after its probe was filled in.
PinnedApart ==
  \A r, q \in (DOMAIN rows \intersect ProbeRows) \ moved :
    r # q /\ rows[r].kind = rows[q].kind /\ rows[r].kind \in HasSerial =>
      rows[r].serial[rows[r].kind] \intersect rows[q].serial[rows[q].kind] = {}

----------------------------------------------------------------------------
(* The inductive invariant                                                 *)

IsOptional(opt) == opt \subseteq Int /\ \A x, y \in opt : x = y

IsSerialRow(row) == /\ DOMAIN row = {"device", "rate", "tcp"}
                    /\ row.device \subseteq Devices
                    /\ IsOptional(row.rate) /\ IsOptional(row.tcp)

IsCanRow(row) == /\ DOMAIN row = {"interface", "channel", "rate", "tcp"}
                 /\ row.interface \in CanInterfaces \union {"disabled"}
                 /\ row.channel \subseteq {a[2] : a \in Adapters}
                 /\ IsOptional(row.rate) /\ IsOptional(row.tcp)

IsProbeRow(row) == /\ DOMAIN row = {"kind", "gdb", "telnet", "rtt", "rate", "auto", "serial"}
                   /\ row.kind \in ProbeKinds \union {"disabled"}
                   /\ \A f \in {"gdb", "telnet", "rtt", "rate"} : IsOptional(row[f])
                   /\ row.auto \in [{"gdb", "telnet"} -> SUBSET Int]
                   /\ row.serial \in [HasSerial -> {p[2] : p \in Detected} \union {{}}]

IsRow(r, row) == IF r \in SerialRows THEN IsSerialRow(row)
                 ELSE IF r \in CanRows THEN IsCanRow(row) ELSE IsProbeRow(row)

TypeOK ==
  /\ DOMAIN rows \subseteq SerialRows \union CanRows \union ProbeRows
  /\ \A r \in DOMAIN rows : IsRow(r, rows[r])
  /\ phase \in {"parsing", "editing", "refused", "started"}
  /\ typed \subseteq DOMAIN rows /\ moved \subseteq DOMAIN rows
  /\ edits \in 0 .. MaxEdits

\* In a row the user has not typed a port in, the ports are its own choice: a serial or CAN
\* row has one, and what a probe row has picked is a multiple of ten after the default.
Chosen(r, row) ==
  IF r \in ProbeRows
  THEN /\ row.gdb = row.auto.gdb /\ row.telnet = row.auto.telnet /\ row.rtt = {}
       /\ row.kind = "disabled" => row.auto = NoPorts
       /\ row.kind # "disabled" => \A f \in {"gdb", "telnet"} :
            \A x \in row.auto[f] : x > 0 /\ \E d \in DefaultPorts[row.kind][f] : x % 10 = d % 10
  ELSE row.tcp # {}

OwnChoice == \A r \in DOMAIN rows \ typed : Chosen(r, rows[r])

\* A row that has not left the kind its probe is of names no probe of another kind.
OneProbe == \A r \in (DOMAIN rows \intersect ProbeRows) \ moved :
              \A k \in HasSerial \ {rows[r].kind} : rows[r].serial[k] = {}

RowsInv == TypeOK /\ OwnChoice /\ UntouchedApart /\ OneProbe
=============================================================================
