---------------------------- MODULE BridgeConfig ----------------------------
(***************************************************************************)
(* The configuration of a bridge: src/portbridge/bridge_config.py, the     *)
(* ports of ProbeConfig (probe_server.py) and the flags of bridge_server.py*)
(*                                                                         *)
(* A configuration is a function whose values are channels.  An optional   *)
(* value is the set of it, {} where the code has None, and so is what a    *)
(* parser returns: {} where it raises ValueError.  One `rate` stands for   *)
(* every number of a channel that must be positive.  Names that only go to *)
(* a driver or a tool (devices, boards, programs) are left out.            *)
(***************************************************************************)
EXTENDS Integers, Sequences

ProbeKinds == {"jlink", "stlink", "openocd"}

DefaultPorts == [jlink   |-> [gdb |-> {2331},  telnet |-> {2333}],
                 stlink  |-> [gdb |-> {61234}, telnet |-> {}],
                 openocd |-> [gdb |-> {3333},  telnet |-> {4444}]]

DefaultSerialPort == 5000
DefaultCanPort    == 5001
DefaultBaudrate   == 921600
DefaultBitrate    == 125000
DefaultTtyBaudrate == 115200
MaxTcpPort        == 65535
MaxAccessPort     == 255

IndexedInterfaces == {"gs_usb", "candle"}
SerialInterfaces  == {"slcan"}

\* value if value is not None else default
Default(opt, default) == IF opt = {} THEN default ELSE opt

\* value or default
OrDefault(opt, default) == IF opt \in {{}, {0}} THEN default ELSE opt

ResolvedGdbPort(c)    == Default(c.gdb, DefaultPorts[c.type].gdb)
ResolvedTelnetPort(c) == Default(c.telnet, DefaultPorts[c.type].telnet)

CanChannelOrDefault(interface, channel) ==
  IF channel = {} /\ interface \in IndexedInterfaces THEN {"0"} ELSE channel

----------------------------------------------------------------------------
(* find_problems()                                                         *)

\* Pairs of a role and a resource: claim(resource, owner).
Ports(role, ports)     == {<<role, <<"tcp", p>>>> : p \in ports}
SerialDevices(devices) == {<<"device", <<"serial", d>>>> : d \in devices}

\* Mutant: the channel without its interface.
ChannelsOnly(i, chs)   == {<<"channel", <<"can", ch>>>> : ch \in chs}

CanChannels(i, chs)    == {<<"channel", <<"can", <<i, ch>>>>>> : ch \in chs}

\* Mutant: the serial device of an slcan channel is not claimed.
ClaimsNoSlcan(c) ==
  CASE c.type = "serial" -> Ports("server", c.tcp) \union SerialDevices(c.device)
    [] c.type = "can" -> Ports("server", c.tcp) \union CanChannels(c.interface, c.channel)
    [] OTHER -> Ports("gdb", ResolvedGdbPort(c)) \union Ports("telnet", ResolvedTelnetPort(c))
                  \union Ports("rtt", c.rtt)

Claims(c) ==
  CASE c.type = "serial" -> Ports("server", c.tcp) \union SerialDevices(c.device)
    [] c.type = "can" -> Ports("server", c.tcp) \union CanChannels(c.interface, c.channel)
                           \union (IF c.interface \in SerialInterfaces
                                   THEN SerialDevices(c.channel) ELSE {})
    [] OTHER -> Ports("gdb", ResolvedGdbPort(c)) \union Ports("telnet", ResolvedTelnetPort(c))
                  \union Ports("rtt", c.rtt)

\* The resources that more than one claim is made on.
FindConflicts(config) ==
  LET claims == UNION {{i} \X Claims(config[i]) : i \in DOMAIN config}
  IN  {a[2][2] : a \in {x \in claims : \E y \in claims : y # x /\ y[2][2] = x[2][2]}}

Valid(c) ==
  /\ \A n \in c.rate : n > 0
  /\ IF c.type \in {"serial", "can"}
     THEN c.tcp \subseteq 1 .. MaxTcpPort
     ELSE /\ ResolvedGdbPort(c) \union ResolvedTelnetPort(c) \union c.rtt
                \subseteq 1 .. MaxTcpPort
          /\ c.type = "stlink" => c.rtt = {}
          /\ c.ap \subseteq 0 .. MaxAccessPort

FindInvalidValues(config) == {i \in DOMAIN config : ~Valid(config[i])}

HasProblems(config) == FindInvalidValues(config) # {} \/ FindConflicts(config) # {}

----------------------------------------------------------------------------
(* What the servers make of it: start() and the tools' command lines        *)

\* build_jlink_command()
JlinkSockets(c) == ({"gdb"} \X ResolvedGdbPort(c)) \union ({"telnet"} \X ResolvedTelnetPort(c))
                     \union ({"rtt"} \X c.rtt)

\* build_openocd_command(): an RTT server only if asked for, and no Tcl port.
OpenocdSockets(c) == JlinkSockets(c)

\* build_stlink_command() raises for RTT and for an access port out of range, when the
\* channels before have been started ...
StlinkBuilds(c) == c.rtt = {} /\ c.ap \subseteq 0 .. MaxAccessPort

\* ... and names one port.
StlinkSockets(c) == {"gdb"} \X ResolvedGdbPort(c)

\* The ports that are listened on, each with what for.
Sockets(c) ==
  CASE c.type \in {"serial", "can"} -> {"server"} \X c.tcp
    [] c.type = "jlink"   -> JlinkSockets(c)
    [] c.type = "stlink"  -> StlinkSockets(c)
    [] c.type = "openocd" -> OpenocdSockets(c)

\* The devices that are opened.
Hardware(c) ==
  CASE c.type = "serial" -> {"serial"} \X c.device
    [] c.type = "can" /\ c.interface = "slcan" -> {"serial"} \X c.channel
    [] c.type = "can" /\ c.interface # "slcan" -> {"can"} \X ({c.interface} \X c.channel)
    [] OTHER -> {}

\* Every channel has its own ports and its own device, and its numbers can be used.
Sound(config) ==
  \A i \in DOMAIN config :
    /\ \A n \in config[i].rate : n > 0
    /\ \A s \in Sockets(config[i]) : s[2] \in 1 .. MaxTcpPort
    /\ config[i].type = "stlink" => StlinkBuilds(config[i])
    /\ \A j \in DOMAIN config :
         /\ \A s \in Sockets(config[i]), t \in Sockets(config[j]) : s[2] = t[2] => i = j /\ s = t
         /\ i # j => Hardware(config[i]) \intersect Hardware(config[j]) = {}

----------------------------------------------------------------------------
(* The command line: a flag with what it is given, as pairs <<key, value>>. *)

Keys == [serial |-> {"port", "baud", "tcp"},
         can    |-> {"interface", "channel", "bitrate", "tcp", "tty-baud"},
         probe  |-> {"kind", "gdb", "telnet", "rtt", "speed", "device", "ap", "board", "config"}]

Repeatable == {"config", "search"}

\* parse_spec() accepts the keys.
Parses(spec, keys) ==
  /\ \A i \in DOMAIN spec : spec[i][1] \in keys
  /\ \A i, j \in DOMAIN spec : i # j /\ spec[i][1] = spec[j][1] => spec[i][1] \in Repeatable

Given(spec, key) == \E i \in DOMAIN spec : spec[i][1] = key

\* _one(), _int(): the last value of the key.
One(spec, key) == {spec[i][2] : i \in {k \in DOMAIN spec : /\ spec[k][1] = key
                                                           /\ \A j \in DOMAIN spec : spec[j][1] = key => j <= k}}

\* What a parser takes for not given: nothing (the flags --serial-..., --can-...), or zero too
\* (the `or` of the specifications).
Unset == {{}}
Falsy == {{}, {0}}

Or(opt, default, absent) == IF opt \in absent THEN default ELSE opt

\* serial_from_spec(); the flags --serial-....
Serial(spec, absent) ==
  {[type   |-> "serial",
    device |-> {d},
    rate   |-> Or(One(spec, "baud"), {DefaultBaudrate}, absent),
    tcp    |-> Or(One(spec, "tcp"), {DefaultSerialPort}, absent)] : d \in One(spec, "port")}

\* can_from_spec(); the flags --can-....  The baud rate of the TTY matters for slcan only.
Can(spec, absent) ==
  LET channel(i) == CanChannelOrDefault(i, One(spec, "channel"))
      tty(i) == IF i = "slcan" THEN Or(One(spec, "tty-baud"), {DefaultTtyBaudrate}, absent) ELSE {}
  IN  {[type |-> "can", interface |-> i, channel |-> channel(i),
        rate |-> Or(One(spec, "bitrate"), {DefaultBitrate}, absent) \union tty(i),
        tcp  |-> Or(One(spec, "tcp"), {DefaultCanPort}, absent)] :
          i \in {i \in One(spec, "interface") : channel(i) # {}}}

\* A J-Link needs a device, OpenOCD a script.
Complete(spec, kind) == /\ kind = "jlink" => Given(spec, "device")
                        /\ kind = "openocd" => Given(spec, "board") \/ Given(spec, "config")

Probe(spec, kind) == [type |-> kind, gdb |-> One(spec, "gdb"), telnet |-> One(spec, "telnet"),
                      rtt |-> One(spec, "rtt"), rate |-> One(spec, "speed"),
                      ap |-> IF kind = "stlink" THEN One(spec, "ap") ELSE {}]

\* probe_from_spec()
ProbeFromSpec(spec) ==
  {Probe(spec, kind) : kind \in {k \in One(spec, "kind") \intersect ProbeKinds :
                                   /\ Complete(spec, k)
                                   /\ Given(spec, "ap") => k = "stlink"
                                   /\ Given(spec, "rtt") => k # "stlink"}}

\* --probe, in _build_probe_config(); the rest is left to find_problems().
ProbeFromFlags(spec) ==
  {Probe(spec, k) : k \in {k \in One(spec, "kind") \intersect ProbeKinds : Complete(spec, k)}}

\* What a flag adds to the configuration.
FromFlag(flag, spec) ==
  CASE flag = "--serial-port"   -> Serial(spec, Unset)
    [] flag = "--can-interface" -> Can(spec, Unset)
    [] flag = "--probe"         -> ProbeFromFlags(spec)
    [] flag = "--add-serial" /\ Parses(spec, Keys.serial) -> Serial(spec, Falsy)
    [] flag = "--add-can"    /\ Parses(spec, Keys.can)    -> Can(spec, Falsy)
    [] flag = "--add-probe"  /\ Parses(spec, Keys.probe)  -> ProbeFromSpec(spec)
    [] OTHER -> {}
=============================================================================
